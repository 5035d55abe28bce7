--------------------------- MODULE MCConnections ---------------------------
(***************************************************************************)
(* Small instances of what the console is connected to and of the page     *)
(* that sets it up. Provider connections and the form and the dialog of    *)
(* the page share no variable here, so a behaviour runs one of them and    *)
(* leaves the others as they begin. They share their model values, so one  *)
(* set of permutations is a symmetry of all.                               *)
(***************************************************************************)
EXTENDS ProviderConnections, ConnectionForm, ConnectionDialog, TLC

CONSTANT old   \* the value the environment gives every field

VARIABLE part

MCFallback ==
  [source |-> "environment",
   shape |-> [settings |-> [f \in Fields |-> old], secrets |-> [f \in SecretFields |-> old]]]

MCFormTypes == {"digitalocean", "proxmox", "postgres", "redis", "prometheus", "grafana"}

\* The page of connections is looked at twice: with its dialogs and one connection, and
\* with the buttons of several rows and no dialog.
OneConn ==
  LET one == CHOOSE k \in Conns : TRUE
  IN  \A k \in Conns \ {one} : connRows[k] = NoConn

MCInit ==
  /\ part \in {"connections", "form", "dialog", "rows"}
  /\ Init /\ FormInit /\ ConnInit
  /\ part # "connections" => /\ rows = [i \in Ids |-> NoRow]
                             /\ newer = CHOOSE order \in Orders : TRUE
  /\ part \in {"connections", "form"} => \A k \in Conns : connRows[k] = NoConn
  /\ part = "dialog" => OneConn

MCNext ==
  \/ part = "connections" /\ Next /\ UNCHANGED <<part, formVars, connVars>>
  \/ part = "form" /\ FormNext /\ UNCHANGED <<part, vars, connVars>>
  \/ part = "dialog" /\ ConnNext /\ OneConn' /\ UNCHANGED <<part, vars, formVars>>
  \/ part = "rows" /\ ConnNext /\ connPage'.opened = 0 /\ UNCHANGED <<part, vars, formVars>>

MCSpec == MCInit /\ [][MCNext]_<<part, vars, formVars, connVars>>

Symmetry == Permutations(Ids) \union Permutations(Requests) \union Permutations(Lookups)
=============================================================================
