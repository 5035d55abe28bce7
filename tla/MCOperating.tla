---------------------------- MODULE MCOperating ----------------------------
(***************************************************************************)
(* Small instances of running operations and of the pages around them. The *)
(* gateway, a page with its dialog, the table all lists are shown in, the  *)
(* pages of settings and logs and the probes of registered services share  *)
(* no variable here, so a behaviour runs one and leaves the others alone.  *)
(* They share their model values, so one set of permutations is a symmetry *)
(* of all.                                                                 *)
(***************************************************************************)
EXTENDS Operations, OperationDialog, DataTable, SettingsPage, LogPage, ServiceStatus, TLC

CONSTANTS admin, dev, droplet, database

VARIABLE part

MCUserRoles == [u \in Users |-> IF u = dev THEN {"developer", "viewer"} ELSE {"owner"}]
MCKind == [x \in Resources |-> IF x = droplet THEN "droplet" ELSE "database"]

MCResourceLabel == [x |-> "web"]

MCRows ==
  [r1 |-> [values |-> [size |-> 2, name |-> 1], terms |-> {"web"}],
   r2 |-> [values |-> [size |-> 0, name |-> 2], terms |-> {"web", "db"}],
   r3 |-> [values |-> [size |-> 2, name |-> 3], terms |-> {"db"}]]

MCSeeded == ("logs.retention_days" :> "14") @@ ("query.max_rows" :> "14")
MCReads == ("14" :> 14) @@ ("" :> 0) @@ ("true" :> NaN)
MCFallbacks == "logs.retention_days" :> 14

MCInit ==
  /\ part \in {"gateway", "dialog", "table", "settings", "logs", "status"}
  /\ Init /\ OpInit /\ TableInit /\ SettingsInit /\ LogInit /\ StatusInit
  /\ part # "gateway" => \A resource \in Resources : environment[resource] = "staging"
  /\ part # "dialog" => opPage = "services"
  /\ part # "table" => pageSize = 1
  /\ \A s \in Services : registered[s].probed

MCNext ==
  \/ part = "gateway" /\ Next /\ UNCHANGED <<part, opVars, tableVars, settingVars, logVars, statusVars>>
  \/ part = "dialog" /\ OpNext /\ UNCHANGED <<part, vars, tableVars, settingVars, logVars, statusVars>>
  \/ part = "table" /\ TableNext /\ UNCHANGED <<part, vars, opVars, settingVars, logVars, statusVars>>
  \/ part = "settings" /\ SettingsNext /\ UNCHANGED <<part, vars, opVars, tableVars, logVars, statusVars>>
  \/ part = "logs" /\ LogNext /\ UNCHANGED <<part, vars, opVars, tableVars, settingVars, statusVars>>
  \/ part = "status" /\ StatusNext /\ UNCHANGED <<part, vars, opVars, tableVars, settingVars, logVars>>

MCSpec == MCInit /\ [][MCNext]_<<part, vars, opVars, tableVars, settingVars, logVars, statusVars>>

Symmetry == Permutations(Requests)
=============================================================================
