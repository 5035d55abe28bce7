------------------------------ MODULE MCTrail -------------------------------
(***************************************************************************)
(* Small instances of two tables that several requests write: the audit    *)
(* trail, and the managed databases with the pools of sessions on them.    *)
(* They share no variable here, so a behaviour runs one of them and leaves *)
(* the other as it begins. Nothing is a symmetry, since liveness is        *)
(* checked.                                                                *)
(***************************************************************************)
EXTENDS AuditChain, TargetPools

VARIABLE part
mcVars == <<part, vars, poolVars>>

MCInit == part \in {"chain", "pools"} /\ Init /\ PoolsInit

MCNext ==
  \/ part = "chain" /\ Next /\ UNCHANGED <<part, poolVars>>
  \/ part = "pools" /\ PoolsNext /\ UNCHANGED <<part, vars>>

\* The fairness of each part, in the behaviours that run it.
MCFairness ==
  /\ \A w \in Writers :
       /\ WF_vars(part = "chain" /\ (ReadPrevious(w) \/ InsertRow(w) \/ Commit(w)))
       /\ SF_vars(part = "chain" /\ TakeLock(w))
  /\ \A u \in UseSlots : WF_poolVars(part = "pools" /\ UseStep(u))
  /\ \A p \in Pools : WF_poolVars(part = "pools" /\ ExpireSession(p))
  /\ \A a \in Admins : WF_poolVars(part = "pools" /\ AdminStep(a))

MCSpec == MCInit /\ [][MCNext]_mcVars /\ MCFairness

\* Nobody waits for the lock for ever, and what left the map gives its sessions back.
WaitsEnd == EveryWriterEnds /\ AbandonedPoolsDrain
=============================================================================
