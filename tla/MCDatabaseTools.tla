-------------------------- MODULE MCDatabaseTools --------------------------
(***************************************************************************)
(* Small instances of what is done with managed databases. The execution   *)
(* of statements, the pages of the editor, of the browser and of the       *)
(* history and what answers them share no variable here, so a behaviour    *)
(* runs one of them and leaves the others as they begin.                   *)
(***************************************************************************)
EXTENDS QueryExecution, SqlTexts, SqlEditor, TableBrowser, Catalog, HistoryPages, TLC

CONSTANTS dba, dev

VARIABLE part

MCEnvironment ==
  [c \in Connections |-> IF c = "shop-production" THEN "production" ELSE "staging"]

\* dba holds database_admin, dev is a developer.
MCUserEnvironments ==
  [u \in Users |-> IF u = dba THEN Environments ELSE Environments \ {"production"}]
MCPermissions ==
  [u \in Users |-> IF u = dba THEN DatabasePermissions ELSE DatabasePermissions \ {"database.admin"}]

MCChunks == {<<"/", "*">>, <<"*", "/">>, <<"/">>, <<"*">>, <<"-", "-">>, <<"newline">>,
             <<"'">>, <<"\"">>, <<"$">>, <<"$", "$">>, <<"$", "a", "$">>, <<"DROP">>}
MCWords == {"SELECT", "WITH", "EXPLAIN", "EXPLAIN(", "ANALYZE", "VERBOSE", "(", ")", "DELETE", "DROP",
            "pg_sleep", ";"}

Item(id, val) == [id |-> id, val |-> val]
MCColumns == [keyed |-> {"id", "val"}, heap |-> {"code"}]
MCFirstRows == [keyed |-> <<Item(3, 1), Item(1, 2), Item(2, 1)>>, heap |-> <<Item(4, 1)>>]

Con(kind, table, columns, references, referenced) ==
  [kind |-> kind, table |-> table, columns |-> columns, references |-> references, referenced |-> referenced]
MCColumnsOf == [parent |-> <<"a", "b">>, child |-> <<"x", "y">>]
MCDeclarable ==
  {Con("p", "parent", <<"a", "b">>, "none", <<>>), Con("p", "child", <<"x">>, "none", <<>>),
   Con("u", "child", <<"y">>, "none", <<>>), Con("u", "child", <<"y", "x">>, "none", <<>>),
   Con("f", "child", <<"x">>, "parent", <<"b">>), Con("f", "child", <<"x">>, "parent", <<"a">>),
   Con("f", "child", <<"y", "x">>, "parent", <<"a", "b">>)}

\* Tabs are alike, and texts are: where a behaviour begins makes no difference.
AnyTab == CHOOSE t \in Tabs : TRUE
AnyText == CHOOSE x \in Texts : TRUE

MCInit ==
  /\ part \in {"execution", "text", "batch", "editor", "browser", "catalog", "history"}
  /\ Init /\ TextInit /\ BatchInit /\ EditorInit /\ BrowserInit /\ CatalogInit /\ HistoryInit
  /\ part # "execution" => \A c \in Connections : overrides[c] = "derived"
  /\ active = AnyTab /\ timer = AnyText

MCNext ==
  \/ part = "execution" /\ Next /\ UNCHANGED <<part, textVars, batchVars, editorVars, browserVars, catalogVars, historyVars>>
  \/ part = "text" /\ TextNext /\ UNCHANGED <<part, vars, batchVars, editorVars, browserVars, catalogVars, historyVars>>
  \/ part = "batch" /\ BatchNext /\ UNCHANGED <<part, vars, textVars, editorVars, browserVars, catalogVars, historyVars>>
  \/ part = "editor" /\ EditorNext /\ UNCHANGED <<part, vars, textVars, batchVars, browserVars, catalogVars, historyVars>>
  \/ part = "browser" /\ BrowserNext /\ UNCHANGED <<part, vars, textVars, batchVars, editorVars, catalogVars, historyVars>>
  \/ part = "catalog" /\ CatalogNext /\ UNCHANGED <<part, vars, textVars, batchVars, editorVars, browserVars, historyVars>>
  \/ part = "history" /\ HistoryNext
                        /\ UNCHANGED <<part, vars, textVars, batchVars, editorVars, browserVars, catalogVars>>

MCSpec == MCInit /\ [][MCNext]_<<part, vars, textVars, batchVars, editorVars, browserVars, catalogVars, historyVars>>
=============================================================================
