---------------------------- MODULE TableBrowser ----------------------------
(***************************************************************************)
(* The data browser: app/database/browser/page.tsx in the console, and     *)
(* providers/databases/data-browser.ts, which answers it from two          *)
(* statements of one session that see the table at two moments.            *)
(*                                                                         *)
(* The target database is external: others write to its tables, and its    *)
(* estimate of a table's size is from the last time it was analysed.       *)
(***************************************************************************)
EXTENDS Integers, Sequences, FiniteSets, FiniteSetsExt, SequencesExt

CONSTANTS
  Columns,     \* table -> its columns: "id", which is its key, and others
  FirstRows,   \* table -> its rows in physical order, as [id, val]
  Vals,
  Sizes,       \* rows per page the console offers
  MaxPageRows, \* DB_QUERY_MAX_ROWS
  ExactCounts, \* EXACT_COUNT_THRESHOLD
  MaxMoves,    \* bound on the operator's steps and the writes of others
  MaxWrites,   \* bound on those writes
  MaxFetches   \* bound on the requests in flight

Tables == DOMAIN Columns
NoTable == "none"
HasKey(t) == "id" \in Columns[t]
ColumnNames == UNION {Columns[t] : t \in Tables}

ASSUME BrowserAssumption ==
  /\ NoTable \notin Tables /\ MaxMoves \in Nat /\ MaxPageRows \in Nat \ {0} /\ Vals \subseteq Nat
  /\ Sizes \subseteq Nat \ {0} /\ Sizes # {}
  /\ FirstRows \in [Tables -> Seq([id : Nat, val : Vals])]

VARIABLES
  rows,      \* table -> its rows in physical order
  analysed,  \* table -> how many there were when it was last analysed
  version,   \* table -> how often it was written to
  view,      \* what the operator has chosen
  cache,     \* the console's answers, one for each view asked for
  fetches,   \* requests in flight
  moves,
  walk       \* history: rows seen since this arrangement was chosen, at which versions

browserVars == <<rows, analysed, version, view, cache, fetches, moves, walk>>

\* carried, a history: the column was chosen for a filter on another table.
Filter == [column : ColumnNames, carried : BOOLEAN]
NoDraft == [column |-> "", carried |-> FALSE]

View == [table : Tables \union {NoTable}, size : Sizes, orderBy : ColumnNames \union {""}, descending : BOOLEAN,
         filters : Seq(Filter), page : Nat \ {0}, draft : Filter \union {NoDraft}]

ViewOfNothing == [table |-> NoTable, size |-> Min(Sizes), orderBy |-> "", descending |-> FALSE,
                  filters |-> <<>>, page |-> 1, draft |-> NoDraft]

\* The query key: the draft is no part of it.
Key(v) == [v EXCEPT !.draft = NoDraft]

\* What an answer says; at: versions of the table that its two statements saw.
Answer == [ids : Seq(Nat), total : Nat, estimate : BOOLEAN, at : SUBSET Nat]
Refusal == {"refused", "failed"}

CacheEntry == [key : View, answer : SUBSET Answer, error : Refusal \union {""}]
Fetching == [key : View, step : {"sent"}] \union [key : View, step : {"selected"}, at : Nat, ids : Seq(Nat)]

BrowserTypeOK ==
  /\ rows \in [Tables -> Seq([id : Nat, val : Vals])] /\ {analysed, version} \subseteq [Tables -> Nat]
  /\ view \in View
  /\ \A entry \in cache : entry \in CacheEntry /\ entry.key.table # NoTable
  /\ \A f \in fetches : f \in Fetching /\ f.key.table # NoTable
  /\ \A e, f \in cache : e.key = f.key => e = f
  /\ \A f, g \in fetches : f.key = g.key => f = g
  /\ moves \in 0..MaxMoves
  /\ walk \in [seen : SUBSET Nat, at : SUBSET Nat, whole : BOOLEAN]

BrowserInit ==
  /\ rows = FirstRows
  /\ analysed = [t \in Tables |-> 0]
  /\ version = [t \in Tables |-> 0]
  /\ view = ViewOfNothing /\ cache = {} /\ fetches = {} /\ moves = 0
  /\ walk = [seen |-> {}, at |-> {}, whole |-> TRUE]

----------------------------------------------------------------------------
\* data-browser.ts.

PageRows(v) == Min({v.size, MaxPageRows})

\* Seeded bug: pages are counted from nought.
OffsetFromNought(v) == v.page * PageRows(v)

Offset(v) == (v.page - 1) * PageRows(v)

Cell(row, column) == IF column = "id" THEN row.id ELSE row.val

\* A filter asks for the smallest value of its column.
Matches(v, row) ==
  \A i \in DOMAIN v.filters :
    Cell(row, v.filters[i].column) = (IF v.filters[i].column = "id" THEN 1 ELSE Min(Vals))

\* Where the rows stand that the filters keep, of those a table stores.
Matching(v, stored) == {i \in DOMAIN stored : Matches(v, stored[i])}

\* By the column asked for, else by the key; by physical order where there is none.
OrderColumn(v) == IF v.orderBy # "" THEN v.orderBy ELSE IF HasKey(v.table) THEN "id" ELSE ""

OrderValue(v, stored, i) == IF OrderColumn(v) = "" THEN i ELSE Cell(stored[i], OrderColumn(v))

Precedes(v, stored, i, j) ==
  IF v.orderBy # "" /\ v.descending
  THEN OrderValue(v, stored, i) > OrderValue(v, stored, j)
  ELSE OrderValue(v, stored, i) < OrderValue(v, stored, j)

\* The orders the statement may answer in: rows alike in any order.
Orders(v, stored) ==
  LET n == Cardinality(Matching(v, stored))
  IN  {s \in [1..n -> Matching(v, stored)] :
         IsInjective(s) /\ \A i, j \in 1..n : i < j => ~Precedes(v, stored, s[j], s[i])}

IdsOfPage(v, stored, order) ==
  LET page == SubSeq(order, Offset(v) + 1, Min({Len(order), Offset(v) + PageRows(v)}))
  IN  [k \in 1..Len(page) |-> stored[page[k]].id]

AssertsColumns(v) ==
  /\ v.orderBy \in Columns[v.table] \union {""}
  /\ \A i \in DOMAIN v.filters : v.filters[i].column \in Columns[v.table]

\* Seeded bug: the count forgets the filters.
CountUnfiltered(v) == Len(rows[v.table])

Count(v) == Cardinality(Matching(v, rows[v.table]))

EstimateServes(v) == v.filters = <<>> /\ analysed[v.table] > ExactCounts

Entries(key) == {entry \in cache : entry.key = key}
Settle(fetch, answer, error) ==
  LET old == UNION {entry.answer : entry \in Entries(fetch.key)}
  IN  /\ cache' = (cache \ Entries(fetch.key)) \union
                    {[key |-> fetch.key, answer |-> IF error = "" THEN answer ELSE old, error |-> error]}
      /\ fetches' = fetches \ {fetch}

\* One request for a view at a time, on arrival at the view, or on Refresh.
Fetch ==
  /\ view.table # NoTable
  /\ Cardinality(fetches) < MaxFetches
  /\ \A f \in fetches : f.key # Key(view)
  /\ \/ Entries(Key(view)) = {} /\ UNCHANGED moves
     \/ Entries(Key(view)) # {} /\ moves < MaxMoves /\ moves' = moves + 1
  /\ fetches' = fetches \union {[key |-> Key(view), step |-> "sent"]}
  /\ UNCHANGED <<rows, analysed, version, view, cache, walk>>

RefuseFetch(f) ==
  /\ f.step = "sent"
  /\ ~AssertsColumns(f.key)
  /\ Settle(f, {}, "refused")
  /\ UNCHANGED <<rows, analysed, version, view, moves, walk>>

\* The page of rows.
Select(f) ==
  /\ f.step = "sent"
  /\ AssertsColumns(f.key)
  /\ \E order \in Orders(f.key, rows[f.key.table]) :
       fetches' = (fetches \ {f}) \union {[key |-> f.key, step |-> "selected", at |-> version[f.key.table],
                                          ids |-> IdsOfPage(f.key, rows[f.key.table], order)]}
  /\ UNCHANGED <<rows, analysed, version, view, cache, moves, walk>>

\* The total of a later moment, and the answer.
ResolveTotal(f) ==
  /\ f.step = "selected"
  /\ LET estimate == EstimateServes(f.key)
     IN  Settle(f, {[ids |-> f.ids, estimate |-> estimate, at |-> {f.at, version[f.key.table]},
                     total |-> IF estimate THEN analysed[f.key.table] ELSE Count(f.key)]}, "")
  /\ UNCHANGED <<rows, analysed, version, view, moves, walk>>

FailFetch(f) ==
  /\ Settle(f, {}, "failed")
  /\ UNCHANGED <<rows, analysed, version, view, moves, walk>>

----------------------------------------------------------------------------
\* browser/page.tsx. The answer to the view, when there is one and no error over it.

ShownOf(v) == UNION {entry.answer : entry \in {e \in Entries(Key(v)) : e.error = ""}}
Shown == ShownOf(view)
TotalPages(answer) == Max({1, (answer.total + view.size - 1) \div view.size})

ShownIds(answers) == UNION {Range(answer.ids) : answer \in answers}
ShownAt(answers) == UNION {answer.at : answer \in answers}

\* A step of the operator. Another arrangement starts another walk; moving by a page
\* goes on with it. A walk is whole when it began at the first page.
Arrange(v) ==
  /\ moves < MaxMoves
  /\ moves' = moves + 1
  /\ view' = v
  /\ walk' = [seen |-> {}, at |-> {}, whole |-> v.page = 1]
  /\ UNCHANGED <<rows, analysed, version, cache, fetches>>

Turn(v) ==
  /\ moves < MaxMoves
  /\ moves' = moves + 1
  /\ view' = v
  /\ walk' = [walk EXCEPT !.seen = @ \union ShownIds(Shown), !.at = @ \union ShownAt(Shown)]
  /\ UNCHANGED <<rows, analysed, version, cache, fetches>>

\* Seeded bug: the order of the table before is kept.
PickedSorted(v, t) == [v EXCEPT !.table = t, !.filters = <<>>, !.page = 1]

Picked(v, t) == [v EXCEPT !.table = t, !.filters = <<>>, !.orderBy = "", !.page = 1]

\* The draft of a filter is not reset with the table.
PickTable(t) ==
  LET draft == [view.draft EXCEPT !.carried = view.draft # NoDraft /\ (@ \/ t # view.table)]
  IN  Arrange([Picked(view, t) EXCEPT !.draft = draft])

\* Another schema or connection leaves the table, and the sort order.
PickSchema ==
  /\ view.table # NoTable
  /\ Arrange([view EXCEPT !.table = NoTable, !.filters = <<>>, !.page = 1,
                          !.draft = [@ EXCEPT !.carried = view.draft # NoDraft]])

SortBy(column) ==
  /\ Shown # {} /\ column \in Columns[view.table] \union {""}
  /\ Arrange([view EXCEPT !.orderBy = column, !.page = 1])

\* The page stays.
Direction ==
  /\ view.table # NoTable
  /\ Arrange([view EXCEPT !.descending = ~@])

Resize(size) ==
  /\ view.table # NoTable
  /\ Arrange([view EXCEPT !.size = size, !.page = 1])

Draft(column) ==
  /\ Shown # {} /\ column \in Columns[view.table]
  /\ moves < MaxMoves
  /\ moves' = moves + 1
  /\ view' = [view EXCEPT !.draft = [column |-> column, carried |-> FALSE]]
  /\ UNCHANGED <<rows, analysed, version, cache, fetches, walk>>

AddFilter ==
  /\ Shown # {} /\ view.draft # NoDraft
  /\ Arrange([view EXCEPT !.filters = Append(@, view.draft), !.draft = NoDraft, !.page = 1])

RemoveFilter(i) ==
  /\ i \in DOMAIN view.filters
  /\ Shown # {}
  /\ Arrange([view EXCEPT !.filters = RemoveAt(@, i), !.page = 1])

\* Seeded bug: the way back is open on every page.
AlwaysHasPrevious(v) == v.page >= 1

HasPrevious(v) == v.page > 1

TurnBack ==
  /\ Shown # {} /\ HasPrevious(view)
  /\ Turn([view EXCEPT !.page = @ - 1])

TurnOn ==
  /\ \E answer \in Shown : view.page < TotalPages(answer)
  /\ Turn([view EXCEPT !.page = @ + 1])

----------------------------------------------------------------------------
\* Others write to the table looked at, as what they do to another shows no sooner
\* than it is looked at; a row changed is stored anew.

Writes == FoldFunction(+, 0, version)
NextId(t) == 1 + Max({0} \union {rows[t][i].id : i \in DOMAIN rows[t]})

Store(t, stored) ==
  /\ Writes < MaxWrites /\ moves < MaxMoves /\ t = view.table
  /\ rows' = [rows EXCEPT ![t] = stored]
  /\ version' = [version EXCEPT ![t] = @ + 1]
  /\ moves' = moves + 1
  /\ UNCHANGED <<analysed, view, cache, fetches, walk>>

Insert(t, val) == Store(t, <<[id |-> NextId(t), val |-> val]>> \o rows[t])
Delete(t, i) == i \in DOMAIN rows[t] /\ Store(t, RemoveAt(rows[t], i))
Update(t, i) == i \in DOMAIN rows[t] /\ Store(t, Append(RemoveAt(rows[t], i), rows[t][i]))

Analyse(t) ==
  /\ t = view.table /\ analysed[t] # Len(rows[t])
  /\ analysed' = [analysed EXCEPT ![t] = Len(rows[t])]
  /\ UNCHANGED <<rows, version, view, cache, fetches, moves, walk>>

BrowserNext ==
  \/ Fetch
  \/ \E f \in fetches : RefuseFetch(f) \/ Select(f) \/ ResolveTotal(f) \/ FailFetch(f)
  \/ \E t \in Tables : PickTable(t) \/ Analyse(t)
  \/ PickSchema \/ Direction \/ AddFilter \/ TurnBack \/ TurnOn
  \/ \E column \in ColumnNames \union {""} : SortBy(column) \/ Draft(column)
  \/ \E size \in Sizes : Resize(size)
  \/ \E i \in 1..Len(view.filters) : RemoveFilter(i)
  \/ \E t \in Tables, val \in Vals : Insert(t, val)
  \/ \E t \in Tables : \E i \in 1..Len(rows[t]) : Delete(t, i) \/ Update(t, i)

BrowserSpec == BrowserInit /\ [][BrowserNext]_browserVars

----------------------------------------------------------------------------
\* Paging (data-browser.ts:127-133 with browser/page.tsx:367-385): an operator who has
\* turned from the first page to the last, while nobody wrote to the table and its
\* rows were counted, has seen every row that matches, as long as the console's page
\* is no longer than the server's; ordered by a column, only rows that are
\* alike in it, one of them seen, may have been left out.
NoRowIsLeftOut ==
  \A answer \in Shown :
    LET stored == rows[view.table]
        found == Matching(view, stored)
        seen == walk.seen \union Range(answer.ids)
        missed == {i \in found : stored[i].id \notin seen}
    IN  /\ view.page >= TotalPages(answer) /\ walk.whole /\ ~answer.estimate
        /\ walk.at \union answer.at = {version[view.table]}
        /\ view.size <= MaxPageRows
        => \A i \in missed : /\ OrderColumn(view) \notin {"", "id"}
                             /\ \E j \in found \ missed : stored[j].val = stored[i].val

\* resolveTotal (data-browser.ts:202): the total shown beside a page is of the rows
\* that page is cut from, filters and all, unless it is marked as an estimate or
\* somebody wrote between the two statements.
CountsAreOfTheRowsShown ==
  \A entry \in cache : \A answer \in entry.answer :
    Cardinality(answer.at) = 1 /\ ~answer.estimate =>
      Len(answer.ids) = Min({PageRows(entry.key), Max({0, answer.total - Offset(entry.key)})})

\* assertColumn (data-browser.ts:89): whatever tables, orders and filters the operator
\* goes through, the only request refused for its columns is one with a filter that
\* was drafted on another table.
OnlyCarriedDraftsAreRefused ==
  \A entry \in cache :
    entry.error = "refused" => \E i \in DOMAIN entry.key.filters : entry.key.filters[i].carried

\* What that rests on: orders and filters are of the table they stand beside, but for those
\* drafted on another one, in the view, in the requests made for it and in their answers.
FitsItsTable(v) ==
  /\ v.orderBy \in Columns[v.table] \union {""}
  /\ \A i \in DOMAIN v.filters : ~v.filters[i].carried => v.filters[i].column \in Columns[v.table]

DraftFits(v) == v.draft # NoDraft /\ ~v.draft.carried => v.draft.column \in Columns[v.table]

AnyFilter == [column : ColumnNames \union {""}, carried : BOOLEAN]

ViewFits(v) ==
  /\ DOMAIN v = DOMAIN ViewOfNothing
  /\ v.table \in Tables \union {NoTable} /\ v.filters \in Seq(AnyFilter) /\ v.draft \in AnyFilter
  /\ v.table # NoTable => FitsItsTable(v) /\ DraftFits(v)

ColumnsInvariant ==
  /\ ViewFits(view)
  /\ \A f \in fetches : FitsItsTable(f.key)
  /\ OnlyCarriedDraftsAreRefused

\* What the browser promises one who pages through a table that changes.
BrowserPromise ==
  /\ BrowserTypeOK
  /\ NoRowIsLeftOut
  /\ CountsAreOfTheRowsShown
  /\ OnlyCarriedDraftsAreRefused
=============================================================================
