----------------------------- MODULE MCConsole ------------------------------
(***************************************************************************)
(* Small instances of what is watched while it happens. The audit trail    *)
(* under tampering, the alerts and the page that shows them, and the logs  *)
(* with their live tail share no variable here, so a behaviour runs one of *)
(* them and leaves the others as they begin. Nothing is a symmetry, since  *)
(* liveness is checked.                                                    *)
(***************************************************************************)
EXTENDS AuditTampering, AlertBoard, LogTail

VARIABLE part
mcVars == <<part, tamperedVars, alertVars, tailVars>>

MCLabel == [a |-> [environment |-> "absent", env |-> "prod", stage |-> "absent"]]
MCSees == [o1 |-> {"production"}]

MCInit ==
  /\ part \in {"tampering", "alerts", "tail"}
  /\ TamperInit /\ AlertInit /\ TailInit
  /\ part # "alerts" => \A a \in Alerts : acks[a] = Nil

MCNext ==
  \/ part = "tampering" /\ TamperNext /\ UNCHANGED <<part, alertVars, tailVars>>
  \/ part = "alerts" /\ AlertNext /\ UNCHANGED <<part, tamperedVars, tailVars>>
  \/ part = "tail" /\ TailNext /\ UNCHANGED <<part, tamperedVars, alertVars>>

\* The fairness of each part, in the behaviours that run it.
MCFairness ==
  /\ WF_alertVars(part = "alerts" /\ ListExpires)
  /\ \A c \in AlertCalls : WF_alertVars(part = "alerts" /\ CallSteps(c))
  /\ \A o \in Operators : /\ WF_alertVars(part = "alerts" /\ Answers(o))
                          /\ WF_alertVars(part = "alerts" /\ \E c \in AlertCalls : PollBoard(o, c))
  /\ \A s \in Streams : WF_tailVars(part = "tail" /\ \E q \in Polls : Tick(s, q))
  /\ SF_tailVars(part = "tail" /\ \E q \in Polls : Search(q))
  /\ WF_tailVars(part = "tail" /\ \E q \in Polls : Deliver(q))

MCSpec == MCInit /\ [][MCNext]_mcVars /\ MCFairness

\* What must happen: a page that asked shows what it may show, for good, and a stream
\* that stays open sends what there is, again and again.
CatchUps == PagesCatchUp /\ StreamsCatchUp
=============================================================================
