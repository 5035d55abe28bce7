---------------------------- MODULE ApprovalGate ----------------------------
(***************************************************************************)
(* What the console promises about one production release, and nothing of  *)
(* how it keeps the promise (docs/deployment.md, "Production deployment is *)
(* gated twice"): a release is requested by one operator, decided once by  *)
(* another one, and out (running or succeeded) only if it was approved.    *)
(***************************************************************************)
CONSTANTS Releases,   \* the production releases that may be requested
          Operators,  \* the people who request and approve them
          Nobody      \* the approver of a release nobody approved

VARIABLE gate         \* release -> what has been decided about it

Decisions == {"absent", "requested", "approved", "refused"}

Verdict(decision, requester, approver, out) ==
  [decision |-> decision, requester |-> requester, approver |-> approver, out |-> out]

Absent == Verdict("absent", Nobody, Nobody, FALSE)

Init == gate = [r \in Releases |-> Absent]

Request(r, u) ==
  /\ gate[r] = Absent
  /\ gate' = [gate EXCEPT ![r] = Verdict("requested", u, Nobody, FALSE)]

Approve(r, u) ==
  /\ gate[r].decision = "requested"
  /\ u # gate[r].requester
  /\ gate' = [gate EXCEPT ![r] = Verdict("approved", @.requester, u, FALSE)]

Refuse(r) ==
  /\ gate[r].decision = "requested"
  /\ gate' = [gate EXCEPT ![r] = Verdict("refused", @.requester, Nobody, FALSE)]

\* An approved release goes out, ends, and may be reported as running again.
Report(r) ==
  /\ gate[r].decision = "approved"
  /\ \E out \in BOOLEAN :
       gate' = [gate EXCEPT ![r] = Verdict("approved", @.requester, @.approver, out)]

Next ==
  \E r \in Releases :
    \/ \E u \in Operators : Request(r, u) \/ Approve(r, u)
    \/ Refuse(r)
    \/ Report(r)

Spec == Init /\ [][Next]_gate
=============================================================================
