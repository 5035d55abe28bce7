------------------------------- MODULE Catalog -------------------------------
(***************************************************************************)
(* The structure of a table as the explorer shows it: introspection.ts     *)
(* reads it from the target's catalog in six statements on sessions of     *)
(* their own, five of them at once, and app/database/explorer/page.tsx     *)
(* shows the last answer for the relation selected.                        *)
(*                                                                         *)
(* The catalog is external: others create, alter and drop.                 *)
(***************************************************************************)
EXTENDS Naturals, Sequences, FiniteSets, SequencesExt

CONSTANTS
  ColumnsOf,    \* table -> its columns in the order of their numbers
  Declarable,   \* constraints that may be declared on tables
  MaxDdl,       \* bound on the changes of others
  MaxAsks       \* bound on what is asked for

Relations == DOMAIN ColumnsOf

\* kind p, u or f; table and columns, references and their columns, in declared order.
Constraint == [kind : {"p", "u", "f"}, table : Relations, columns : Seq(STRING),
               references : Relations \union {"none"}, referenced : Seq(STRING)]

\* Constraints are on columns there are, and a foreign key pairs its own with as many.
ASSUME CatalogAssumption ==
  /\ MaxDdl \in Nat /\ MaxAsks \in Nat
  /\ \A table \in Relations : ColumnsOf[table] \in Seq(STRING)
  /\ Declarable \subseteq Constraint
  /\ \A c \in Declarable :
       /\ c.columns # <<>> /\ Range(c.columns) \subseteq Range(ColumnsOf[c.table])
       /\ c.kind = "f" => /\ c.references \in Relations /\ Len(c.referenced) = Len(c.columns)
                          /\ Range(c.referenced) \subseteq Range(ColumnsOf[c.references])

VARIABLES
  exists,       \* relations there are
  constraints,  \* and what is declared on them
  ddl,          \* how many changes there were
  asks,
  selected,     \* the relation shown in the explorer
  detail,       \* GET of its structure in flight, and what it has read
  shown         \* the last answer, as its query key and the structure

catalogVars == <<exists, constraints, ddl, asks, selected, detail, shown>>

Parts == {"columns", "indexes", "foreignKeys", "referencedBy"}
Nothing == "nothing"

CatalogTypeOK ==
  /\ exists \subseteq Relations
  /\ constraints \subseteq Declarable /\ \A c \in constraints : c.table \in exists
  /\ ddl \in 0..MaxDdl /\ asks \in 0..MaxAsks
  /\ selected \in Relations \union {Nothing}
  /\ detail.step \in {"idle", "asked", "reading"} /\ DOMAIN detail.parts \subseteq Parts
  /\ shown.status \in {"none", "ok", "notFound", "failed"}

Quiet == [step |-> "idle", relation |-> Nothing, since |-> 0, parts |-> <<>>]

CatalogInit ==
  /\ exists = Relations /\ constraints = {} /\ ddl = 0 /\ asks = 0
  /\ selected = Nothing /\ detail = Quiet
  /\ shown = [status |-> "none", relation |-> Nothing, since |-> 0, parts |-> <<>>]

----------------------------------------------------------------------------
\* introspection.ts.

On(kind, table) == {c \in constraints : c.kind = kind /\ c.table = table}
Of(kind, table, column) == {c \in On(kind, table) : column \in Range(c.columns)}

\* The partners of a row in an outer join, one at a time, or none.
OrNone(set) == IF set = {} THEN {{}} ELSE {{c} : c \in set}

\* listColumns: an outer join, with a row for every pair of a unique constraint and a
\* foreign key the column is in; the link is to the first column the key refers to.
ColumnRow(table, column, uq, fk) ==
  [name |-> column,
   isPrimaryKey |-> Of("p", table, column) # {},
   isUnique |-> Of("u", table, column) # {} \/ Of("p", table, column) # {},
   link |-> IF fk = {} THEN <<>> ELSE LET key == CHOOSE k \in fk : TRUE IN <<key.references, Head(key.referenced)>>,
   partners |-> <<uq, fk>>]

ListColumns(table) ==
  UNION {{ColumnRow(table, column, uq, fk) : uq \in OrNone(Of("u", table, column)), fk \in OrNone(Of("f", table, column))} :
           column \in Range(ColumnsOf[table])}

\* Columns of a key in the order of their numbers, whatever order the key declares.
Number(table, column) == CHOOSE i \in DOMAIN ColumnsOf[table] : ColumnsOf[table][i] = column
NumberedTo(table, columns, column) == {c \in columns : Number(table, c) <= Number(table, column)}
ByNumber(table, columns) ==
  [i \in 1..Cardinality(Range(columns)) |->
     CHOOSE c \in Range(columns) : Cardinality(NumberedTo(table, Range(columns), c)) = i]

\* listIndexes: every key and unique constraint has one, with its columns in order.
ListIndexes(table) ==
  {[columns |-> c.columns, isPrimary |-> c.kind = "p"] : c \in On("p", table) \union On("u", table)}

ListForeignKeys(table) ==
  {[columns |-> ByNumber(table, c.columns), references |-> c.references,
    referenced |-> ByNumber(c.references, c.referenced)] : c \in On("f", table)}

\* Seeded bug: keys of the table itself instead of those that refer to it.
ListReferring(table) == {c.references : c \in On("f", table)}

ListReferencedBy(table) == {c.table : c \in {d \in constraints : d.kind = "f" /\ d.references = table}}

\* A table dropped meanwhile has no rows in any of them.
Read(part, table) ==
  CASE table \notin exists -> {}
    [] part = "columns" -> ListColumns(table)
    [] part = "indexes" -> ListIndexes(table)
    [] part = "foreignKeys" -> ListForeignKeys(table)
    [] OTHER -> ListReferencedBy(table)

AskDetail ==
  /\ selected # Nothing /\ detail = Quiet /\ asks < MaxAsks
  /\ asks' = asks + 1
  /\ detail' = [Quiet EXCEPT !.step = "asked", !.relation = selected, !.since = ddl]
  /\ UNCHANGED <<exists, constraints, ddl, selected, shown>>

Reply(status) ==
  /\ shown' = [status |-> status, relation |-> detail.relation, since |-> detail.since,
               parts |-> IF status = "ok" THEN detail.parts ELSE <<>>]
  /\ detail' = Quiet

\* getRelationDetail reads the summary first.
ReadSummary ==
  /\ detail.step = "asked"
  /\ IF detail.relation \in exists
     THEN detail' = [detail EXCEPT !.step = "reading"] /\ UNCHANGED shown
     ELSE Reply("notFound")
  /\ UNCHANGED <<exists, constraints, ddl, asks, selected>>

ReadPart(part) ==
  /\ detail.step = "reading" /\ part \notin DOMAIN detail.parts
  /\ detail' = [detail EXCEPT !.parts =
       [p \in {part} \union DOMAIN detail.parts |->
          IF p = part THEN Read(part, detail.relation) ELSE detail.parts[p]]]
  /\ UNCHANGED <<exists, constraints, ddl, asks, selected, shown>>

AnswerDetail ==
  /\ detail.step = "reading" /\ DOMAIN detail.parts = Parts
  /\ Reply("ok")
  /\ UNCHANGED <<exists, constraints, ddl, asks, selected>>

\* One failure is everyone's.
FailDetail ==
  /\ detail # Quiet
  /\ Reply("failed")
  /\ UNCHANGED <<exists, constraints, ddl, asks, selected>>

----------------------------------------------------------------------------
\* A relation of the tree is selected. The tree is up to a minute old, or from before an
\* outage, and the relation may be gone.
SelectRelation(relation) ==
  /\ relation # selected
  /\ selected' = relation
  /\ UNCHANGED <<exists, constraints, ddl, asks, detail, shown>>

----------------------------------------------------------------------------
\* Others change the catalog.

Change(relations, declared) ==
  /\ ddl < MaxDdl
  /\ ddl' = ddl + 1
  /\ exists' = relations
  /\ constraints' = declared
  /\ UNCHANGED <<asks, selected, detail, shown>>

Declare(c) ==
  /\ c \notin constraints /\ c.table \in exists /\ c.references \in exists \union {"none"}
  /\ c.kind = "p" => On("p", c.table) = {}
  /\ Change(exists, constraints \union {c})

DropTable(table) ==
  /\ table \in exists
  /\ Change(exists \ {table}, {c \in constraints : table \notin {c.table, c.references}})

CreateTable(table) ==
  /\ table \notin exists
  /\ Change(exists \union {table}, constraints)

CatalogNext ==
  \/ AskDetail \/ ReadSummary \/ AnswerDetail \/ FailDetail
  \/ \E part \in Parts : ReadPart(part)
  \/ \E relation \in Relations : SelectRelation(relation) \/ DropTable(relation) \/ CreateTable(relation)
  \/ \E c \in Declarable : Declare(c)

CatalogSpec == CatalogInit /\ [][CatalogNext]_catalogVars

----------------------------------------------------------------------------
\* What the structure of a table is.

\* A column appears once, and its link is the column its key refers it to.
Repeats(table, column) == Cardinality(Of("u", table, column)) > 1 \/ Cardinality(Of("f", table, column)) > 1
Referred(fk, column) == <<fk.references, fk.referenced[CHOOSE i \in DOMAIN fk.columns : fk.columns[i] = column]>>
Composite(fk) == Len(fk.columns) > 1

DescribesColumns(answer, table) ==
  /\ {r.name : r \in answer} = Range(ColumnsOf[table])
  /\ \A r, s \in answer : r.name = s.name /\ r # s => Repeats(table, r.name)
  /\ \A r \in answer :
       /\ r.isPrimaryKey <=> Of("p", table, r.name) # {}
       /\ <<r.name>> \in {c.columns : c \in On("p", table) \union On("u", table)} => r.isUnique
       /\ r.isUnique => Of("p", table, r.name) \union Of("u", table, r.name) # {}
       /\ \A fk \in Of("f", table, r.name) : ~Composite(fk) => \E s \in answer : s.name = r.name /\ s.link = Referred(fk, r.name)
       /\ r.link # <<>> => \E fk \in Of("f", table, r.name) : r.link = Referred(fk, r.name) \/ Composite(fk)

DescribesKeys(answer, table) ==
  /\ Cardinality(answer) <= Cardinality(On("f", table))
  /\ \A fk \in On("f", table) :
       \E k \in answer : /\ k.references = fk.references /\ Range(k.columns) = Range(fk.columns)
                         /\ ~Composite(fk) => k.referenced = fk.referenced

\* getRelationDetail (introspection.ts:141): a structure read while nobody changed the
\* catalog is the table's, but for what its joins are known to lose: a column in
\* two unique constraints or two foreign keys is listed once for each, and the columns
\* of a key over several are paired by number and not as declared.
QuietStructuresAreRight ==
  shown.status = "ok" /\ shown.since = ddl =>
    LET table == shown.relation IN
    /\ DescribesColumns(shown.parts["columns"], table)
    /\ {i.columns : i \in shown.parts["indexes"]} = {c.columns : c \in On("p", table) \union On("u", table)}
    /\ DescribesKeys(shown.parts["foreignKeys"], table)
    /\ \A other \in exists : (\E c \in On("f", other) : c.references = table) <=> other \in shown.parts["referencedBy"]

\* What the structure of a table promises while constraints are declared.
CatalogPromise ==
  /\ CatalogTypeOK
  /\ QuietStructuresAreRight
=============================================================================
