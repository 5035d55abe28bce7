----------------------------- MODULE DataTable -----------------------------
(***************************************************************************)
(* The table of the console's pages (components/shared/data-table.tsx):    *)
(* search, sort and pages, over rows that are fetched anew under it. A row  *)
(* is what its columns and the terms make of it: its value in a column, 0   *)
(* for an unknown one, and whether it has the term in any column.          *)
(***************************************************************************)
EXTENDS Naturals, Sequences, FiniteSets, SequencesExt

CONSTANTS
  Rows,          \* row -> [values : column -> Nat, terms : the terms it has]
  Terms,         \* what is searched for
  PageSizes,     \* the sizes offered
  Unset          \* no search, no sort

VARIABLES listed, term, sortKey, sortDirection, tablePage, pageSize

tableVars == <<listed, term, sortKey, sortDirection, tablePage, pageSize>>

Columns == UNION {DOMAIN Rows[row].values : row \in DOMAIN Rows}

ASSUME TableAssumption ==
  /\ IsFiniteSet(DOMAIN Rows) /\ \A row \in DOMAIN Rows : Rows[row].values \in [Columns -> Nat]
  /\ Unset \notin Columns /\ PageSizes \subseteq Nat \ {0}

TableTypeOK ==
  /\ listed \in Seq(DOMAIN Rows) /\ IsInjective(listed)
  /\ term \in Terms \union {Unset} /\ sortKey \in Columns \union {Unset} /\ sortDirection \in {"asc", "desc"}
  /\ tablePage \in 1..(Cardinality(DOMAIN Rows) + 1) /\ pageSize \in PageSizes

TableInit ==
  /\ listed = <<>> /\ term = Unset
  /\ sortKey = Unset /\ sortDirection = "asc"
  /\ tablePage = 1 /\ pageSize \in PageSizes

----------------------------------------------------------------------------

\* Where the rows stand that the search keeps.
Filtered == {i \in DOMAIN listed : term = Unset \/ term \in Rows[listed[i]].terms}

\* Seeded bug: the order is turned round whole, with the unknown values.
PrecedesTurned(a, b) ==
  LET left == IF sortDirection = "asc" THEN a ELSE b
      right == IF sortDirection = "asc" THEN b ELSE a
  IN  left # 0 /\ (right = 0 \/ left < right)

\* Whether the value a comes before the value b; two unknown ones keep their order.
Precedes(a, b) == a # 0 /\ (b = 0 \/ IF sortDirection = "asc" THEN a < b ELSE a > b)

Earlier(i, j) ==
  /\ sortKey # Unset
  /\ Precedes(Rows[listed[i]].values[sortKey], Rows[listed[j]].values[sortKey])

\* A sort that keeps the order of equals; without a key all are.
Before(i, j) == Earlier(i, j) \/ (~Earlier(j, i) /\ i < j)

PlaceOf(i) == Cardinality({j \in Filtered : Before(j, i)}) + 1

Sorted == [k \in 1..Cardinality(Filtered) |-> listed[CHOOSE i \in Filtered : PlaceOf(i) = k]]

TotalPages == Max({1, (Len(Sorted) + pageSize - 1) \div pageSize})

\* Seeded bug: the page is the one that was asked for.
AskedPage == tablePage

SafePage == Min({tablePage, TotalPages})

VisibleRows == SubSeq(Sorted, (SafePage - 1) * pageSize + 1, Min({SafePage * pageSize, Len(Sorted)}))

----------------------------------------------------------------------------

RowsArrive(rows) ==
  /\ listed # rows /\ listed' = rows
  /\ UNCHANGED <<term, sortKey, sortDirection, tablePage, pageSize>>

\* Seeded bug: the page stays.
StayOnPage == tablePage' = tablePage

FirstPage == tablePage' = 1

Search(text) ==
  /\ text # term /\ term' = text
  /\ FirstPage
  /\ UNCHANGED <<listed, sortKey, sortDirection, pageSize>>

ToggleSort(column) ==
  /\ sortDirection' = IF sortKey = column /\ sortDirection = "asc" THEN "desc" ELSE "asc"
  /\ sortKey' = column
  /\ FirstPage
  /\ UNCHANGED <<listed, term, pageSize>>

\* The pager is there when the rows do not fit.
Paged == Len(Sorted) > pageSize

PickSize(size) ==
  /\ Paged /\ size # pageSize /\ pageSize' = size
  /\ FirstPage
  /\ UNCHANGED <<listed, term, sortKey, sortDirection>>

PreviousPage ==
  /\ Paged /\ SafePage > 1 /\ tablePage' = tablePage - 1
  /\ UNCHANGED <<listed, term, sortKey, sortDirection, pageSize>>

NextPage ==
  /\ Paged /\ SafePage < TotalPages /\ tablePage' = tablePage + 1
  /\ UNCHANGED <<listed, term, sortKey, sortDirection, pageSize>>

TableNext ==
  \/ \E rows \in {s \in SeqOf(DOMAIN Rows, Cardinality(DOMAIN Rows)) : IsInjective(s)} : RowsArrive(rows)
  \/ \E text \in Terms \union {Unset} : Search(text)
  \/ \E column \in Columns : ToggleSort(column)
  \/ \E size \in PageSizes : PickSize(size)
  \/ PreviousPage \/ NextPage

TableSpec == TableInit /\ [][TableNext]_tableVars

----------------------------------------------------------------------------
\* safePage (data-table.tsx:93): rows that go, a search and a larger page never leave the
\* operator on a page with nothing on it while there are rows.
PagesAreNeverEmpty == Sorted # <<>> => VisibleRows # <<>>

\* data-table.tsx:82: "Nulls sort last regardless of direction: an unknown value is not
\* "lowest"": on no page, and from no page to the next, does a known value come after one.
UnknownsComeLast ==
  sortKey # Unset =>
    \A i, j \in DOMAIN Sorted :
      i < j /\ Rows[Sorted[i]].values[sortKey] = 0 => Rows[Sorted[j]].values[sortKey] = 0

\* data-table.tsx:104, 121: a new search or sort shows its first row, wherever the
\* operator was.
NewOrdersStartAtTheTop ==
  [][<<term, sortKey, sortDirection>>' # <<term, sortKey, sortDirection>> /\ Sorted' # <<>> =>
       Head(Sorted') \in ToSet(VisibleRows')]_tableVars

\* What every list of the console promises while rows come and go.
TablePromise ==
  /\ []TableTypeOK
  /\ []PagesAreNeverEmpty
  /\ []UnknownsComeLast
  /\ NewOrdersStartAtTheTop
=============================================================================
