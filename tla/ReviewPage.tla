----------------------------- MODULE ReviewPage ----------------------------
(***************************************************************************)
(* The page that reviews production deployments (deployments/page.tsx): the *)
(* list, polled and fetched anew after a decision, and the dialog in which   *)
(* an operator approves or rejects. Others request and decide as well. What  *)
(* the API does with a decision is module Deployments; here it takes it      *)
(* while the deployment awaits one, and may refuse. The list is one page     *)
(* long.                                                                    *)
(***************************************************************************)
EXTENDS Naturals, FiniteSets

CONSTANTS
  Releases,      \* deployments
  Remarks,       \* notes
  NoReview,
  MaxVerdicts    \* bound on requests and decisions

VARIABLES
  verdicts,      \* the table deployments
  review,        \* the page: its dialog, note, busy flag and error
  decision,      \* its call
  history,       \* its list: shown, and the fetch on its way
  verdictCount   \* a clock: requests and decisions so far

reviewVars == <<verdicts, review, decision, history, verdictCount>>

Statuses == {"none", "awaiting_approval", "approved", "rejected"}

\* A note; on is the deployment whose dialog it was written in.
Note == [text : Remarks, on : Releases]
Verdict == [status : Statuses, note : Note \union {NoReview}, ours : BOOLEAN, at : 0..MaxVerdicts]
Decision == [on : Releases, approve : BOOLEAN, note : Note \union {NoReview}, step : {"sent", "done", "refused", "refreshing"}]
History == [shown : [Releases -> Statuses], at : 0..MaxVerdicts]

\* NoReview stands for what is not there.
ASSUME ReviewAssumption ==
  MaxVerdicts \in Nat /\ NoReview \notin Releases \union Note \union Decision \union History

ReviewTypeOK ==
  /\ verdicts \in [Releases -> Verdict]
  /\ review \in [dialog : Releases \union {NoReview}, note : Note \union {NoReview},
                 busy : BOOLEAN, error : Releases \union {NoReview}]
  /\ decision \in Decision \union {NoReview} /\ review.busy = (decision # NoReview)
  /\ history \in [list : History, fetching : BOOLEAN, fetched : History \union {NoReview}]
  /\ verdictCount \in 0..MaxVerdicts

ReviewInit ==
  /\ verdicts = [d \in Releases |-> [status |-> "none", note |-> NoReview, ours |-> FALSE, at |-> 0]]
  /\ review = [dialog |-> NoReview, note |-> NoReview, busy |-> FALSE, error |-> NoReview]
  /\ decision = NoReview
  /\ history = [list |-> [shown |-> [d \in Releases |-> "none"], at |-> 0], fetching |-> FALSE, fetched |-> NoReview]
  /\ verdictCount = 0

----------------------------------------------------------------------------

Happens(d, verdict) ==
  /\ verdictCount < MaxVerdicts /\ verdictCount' = verdictCount + 1
  /\ verdicts' = [verdicts EXCEPT ![d] = verdict]

RequestedForReview(d) ==
  /\ verdicts[d].status = "none"
  /\ Happens(d, [verdicts[d] EXCEPT !.status = "awaiting_approval"])
  /\ UNCHANGED <<review, decision, history>>

DecidedElsewhere(d, status) ==
  /\ verdicts[d].status = "awaiting_approval"
  /\ Happens(d, [verdicts[d] EXCEPT !.status = status])
  /\ UNCHANGED <<review, decision, history>>

PollHistory ==
  /\ ~history.fetching /\ history' = [history EXCEPT !.fetching = TRUE]
  /\ UNCHANGED <<verdicts, review, decision, verdictCount>>

ReadHistory ==
  /\ history.fetching /\ history.fetched = NoReview
  /\ history' = [history EXCEPT !.fetched = [shown |-> [d \in Releases |-> verdicts[d].status], at |-> verdictCount]]
  /\ UNCHANGED <<verdicts, review, decision, verdictCount>>

\* The decision that waits for the list is over.
HistoryArrives ==
  /\ history.fetched # NoReview
  /\ history' = [list |-> history.fetched, fetching |-> FALSE, fetched |-> NoReview]
  /\ IF decision # NoReview /\ decision.step = "refreshing"
     THEN decision' = NoReview /\ review' = [review EXCEPT !.busy = FALSE]
     ELSE UNCHANGED <<decision, review>>
  /\ UNCHANGED <<verdicts, verdictCount>>

----------------------------------------------------------------------------
\* The dialog covers the page.

\* Seeded bug: the note stays.
OpenWithNote(d) == [review EXCEPT !.dialog = d, !.error = NoReview]

\* Seeded bug: a dialog that is opened waits for nothing.
OpenAtRest(d) == [review EXCEPT !.dialog = d, !.note = NoReview, !.error = NoReview, !.busy = FALSE]

Open(d) == [review EXCEPT !.dialog = d, !.note = NoReview, !.error = NoReview]

OpenReview(d) ==
  /\ review.dialog = NoReview /\ history.list.shown[d] = "awaiting_approval"
  /\ review' = Open(d)
  /\ UNCHANGED <<verdicts, decision, history, verdictCount>>

TypeNote(text) ==
  /\ review.dialog # NoReview
  /\ review' = [review EXCEPT !.note = [text |-> text, on |-> review.dialog]]
  /\ UNCHANGED <<verdicts, decision, history, verdictCount>>

\* Seeded bug: the dialog can be left at any time.
LeaveAlways == TRUE

MayLeave == ~review.busy

CloseReview ==
  /\ review.dialog # NoReview /\ MayLeave
  /\ review' = [review EXCEPT !.dialog = NoReview]
  /\ UNCHANGED <<verdicts, decision, history, verdictCount>>

SubmitDecision(approve) ==
  /\ review.dialog # NoReview /\ ~review.busy
  /\ review' = [review EXCEPT !.busy = TRUE, !.error = NoReview]
  /\ decision' = [on |-> review.dialog, approve |-> approve, note |-> review.note, step |-> "sent"]
  /\ UNCHANGED <<verdicts, history, verdictCount>>

DecisionTaken ==
  /\ decision # NoReview /\ decision.step = "sent" /\ verdicts[decision.on].status = "awaiting_approval"
  /\ Happens(decision.on, [status |-> IF decision.approve THEN "approved" ELSE "rejected",
                           note |-> decision.note, ours |-> TRUE, at |-> verdictCount + 1])
  /\ decision' = [decision EXCEPT !.step = "done"]
  /\ UNCHANGED <<review, history>>

\* Somebody else has decided, the operator may not, or the call or its answer is lost.
DecisionLost ==
  /\ decision # NoReview /\ decision.step \in {"sent", "done"}
  /\ decision' = [decision EXCEPT !.step = "refused"]
  /\ UNCHANGED <<verdicts, review, history, verdictCount>>

\* Seeded bug: a fetch on its way will do.
JoinHistory == [history EXCEPT !.fetching = TRUE]

FetchHistory == [history EXCEPT !.fetching = TRUE, !.fetched = NoReview]

DecisionEnds ==
  /\ decision # NoReview /\ decision.step = "done"
  /\ review' = [review EXCEPT !.dialog = NoReview, !.note = NoReview]
  /\ decision' = [decision EXCEPT !.step = "refreshing"]
  /\ history' = FetchHistory
  /\ UNCHANGED <<verdicts, verdictCount>>

DecisionRefused ==
  /\ decision # NoReview /\ decision.step = "refused"
  /\ review' = [review EXCEPT !.busy = FALSE, !.error = decision.on]
  /\ decision' = NoReview
  /\ UNCHANGED <<verdicts, history, verdictCount>>

ReviewNext ==
  \/ \E d \in Releases : RequestedForReview(d) \/ OpenReview(d) \/ \E status \in {"approved", "rejected"} : DecidedElsewhere(d, status)
  \/ PollHistory \/ ReadHistory \/ HistoryArrives \/ CloseReview
  \/ \E text \in Remarks : TypeNote(text)
  \/ \E approve \in BOOLEAN : SubmitDecision(approve)
  \/ DecisionTaken \/ DecisionLost \/ DecisionEnds \/ DecisionRefused

ReviewSpec == ReviewInit /\ [][ReviewNext]_reviewVars

----------------------------------------------------------------------------
\* "Note (recorded in the audit trail)" (page.tsx:311): the note recorded with a decision was
\* written in the dialog of its deployment, whichever dialogs were left before.
NotesAreTheirOwn ==
  \A d \in Releases : verdicts[d].note # NoReview => verdicts[d].note.on = d

\* decide (page.tsx:69): a refusal is shown in the dialog of the deployment it is about, and
\* in no other.
RefusalsFindTheirDialog ==
  review.dialog # NoReview /\ review.error # NoReview => review.error = review.dialog

\* decide (page.tsx:67): a decision the page has been told of is in its list when the call is
\* over, so that it is not offered again.
OwnDecisionsAreShown ==
  [][decision # NoReview /\ decision.step = "refreshing" /\ decision' = NoReview =>
       history'.list.at >= verdicts[decision.on].at]_reviewVars

\* What the page promises one who reviews: notes, refusals and decisions are of the
\* release they are shown with, however dialogs, answers and refetches overlap.
ReviewPromise ==
  /\ []ReviewTypeOK
  /\ []NotesAreTheirOwn
  /\ []RefusalsFindTheirDialog
  /\ OwnDecisionsAreShown

\* The invariant behind it. A note is of the dialog it stands in, and a call is of the
\* dialog that waits for it until its decision is taken.
DialogsKeepTheirOwn ==
  /\ review.dialog # NoReview /\ review.note # NoReview => review.note.on = review.dialog
  /\ decision # NoReview =>
       /\ decision.note # NoReview => decision.note.on = decision.on
       /\ decision.step # "refreshing" => review.dialog = decision.on

\* The list a decision waits for was read after it.
AwaitedListsAreLater ==
  /\ \A d \in Releases : verdicts[d].at <= verdictCount
  /\ decision # NoReview /\ decision.step = "refreshing" /\ history.fetched # NoReview =>
       history.fetched.at >= verdicts[decision.on].at

ReviewInvariant ==
  /\ ReviewTypeOK
  /\ NotesAreTheirOwn
  /\ RefusalsFindTheirDialog
  /\ DialogsKeepTheirOwn
  /\ AwaitedListsAreLater
=============================================================================
