----------------------------- MODULE AlertBoard -----------------------------
(***************************************************************************)
(* Alerts: app/monitoring/alerts/page.tsx in the console, the routes of    *)
(* routes/observability.ts, and providers/alertmanager/service.ts, which   *)
(* joins what Alertmanager says is firing with the console's rows of who   *)
(* acknowledged and resolved it, and caches the join.                      *)
(*                                                                         *)
(* Alertmanager is external: alerts begin and end. Rows are never deleted. *)
(***************************************************************************)
EXTENDS Naturals, FiniteSets

CONSTANTS
  Alerts,
  Label,        \* alert -> its labels environment, env and stage, "absent" where there is none
  Operators,
  Nil,          \* nothing there
  Sees,         \* operator -> the environments of its role
  AlertCalls,   \* requests of the pages
  MaxEpisodes,  \* bound on how often an alert fires
  MaxSubmits,   \* bound on what operators submit
  MaxOutages    \* bound on failures of Alertmanager

VARIABLES
  firing,   \* alert -> [up, episode]
  acks,     \* the table alert_acknowledgements
  served,   \* the cache's entry "am:alerts"; overtaken, a history: the world changed during its load
  calls,
  boards,   \* operator -> the page in its browser
  submits,
  outages,
  changes   \* history: how often firing or acks changed

alertVars == <<firing, acks, served, calls, boards, submits, outages, changes>>

\* noted, a history: the episode the resolution was about.
AckRow == [by : Operators, resolved : BOOLEAN, noted : 0..MaxEpisodes]

\* A list has the alerts that were firing, each with its start and its acknowledgement.
Entry == [episode : 1..MaxEpisodes, ack : AckRow \union {Nil}]
Lists == UNION {[listed -> Entry] : listed \in SUBSET Alerts}

\* since, a history: what had changed when the call read the world.
CallFor(kinds, alerts) ==
  [operator : Operators, kind : kinds, alert : alerts,
   step : {"fetching", "joining", "joined", "loaded", "written", "done", "refused", "failed"},
   since : Nat, old : BOOLEAN, list : Lists \union {Nil}]
Call == CallFor({"list"}, {Nil}) \union CallFor({"ack", "resolve"}, Alerts)

Dialog == [alert : Alerts, kind : {"ack", "resolve"}, episode : 1..MaxEpisodes]
Board == [list : Lists \union {Nil}, error : BOOLEAN, fetch : AlertCalls \union {Nil}, submit : AlertCalls \union {Nil},
          dialog : Dialog \union {Nil}, busy : BOOLEAN, refused : BOOLEAN]

ASSUME AlertAssumption ==
  /\ MaxEpisodes \in Nat /\ MaxSubmits \in Nat /\ MaxOutages \in Nat
  /\ Nil \notin AlertCalls \union AckRow \union Lists \union Call \union Dialog

AlertTypeOK ==
  /\ firing \in [Alerts -> [up : BOOLEAN, episode : 0..MaxEpisodes]]
  /\ \A a \in Alerts : firing[a].up => firing[a].episode # 0
  /\ acks \in [Alerts -> AckRow \union {Nil}]
  /\ served \in [list : Lists \union {Nil}, fresh : BOOLEAN, overtaken : BOOLEAN]
  /\ calls \in [AlertCalls -> Call \union {Nil}]
  /\ boards \in [Operators -> Board]
  /\ submits \in 0..MaxSubmits /\ outages \in 0..MaxOutages /\ changes \in Nat

\* The rows of earlier days are there.
AlertInit ==
  /\ firing = [a \in Alerts |-> [up |-> FALSE, episode |-> 0]]
  /\ acks \in [Alerts -> {Nil} \union [by : Operators, resolved : BOOLEAN, noted : {0}]]
  /\ served = [list |-> Nil, fresh |-> FALSE, overtaken |-> FALSE]
  /\ calls = [c \in AlertCalls |-> Nil]
  /\ boards = [o \in Operators |-> [list |-> Nil, error |-> FALSE, fetch |-> Nil, submit |-> Nil,
                                    dialog |-> Nil, busy |-> FALSE, refused |-> FALSE]]
  /\ submits = 0 /\ outages = 0 /\ changes = 0

----------------------------------------------------------------------------
\* environmentFromLabels, and who sees an alert: one that names no environment is
\* everybody's.

Candidate(label) ==
  IF label.environment # "absent" THEN label.environment
  ELSE IF label.env # "absent" THEN label.env ELSE label.stage

EnvironmentOf(a) ==
  LET candidate == Candidate(Label[a])
  IN  CASE candidate \in {"production", "prod"} -> "production"
        [] candidate \in {"development", "dev"} -> "development"
        [] candidate \in {"staging", "stage", "stg"} -> "staging"
        [] candidate \in {"testing", "test", "qa"} -> "testing"
        [] OTHER -> "none"

MayTouch(o, a) == EnvironmentOf(a) \in Sees[o] \union {"none"}

Visible(o, list) == [a \in {b \in DOMAIN list : MayTouch(o, b)} |-> list[a]]

----------------------------------------------------------------------------
\* The cached join: every call begins by asking for it.

Lookup(o, kind, alert) ==
  [operator |-> o, kind |-> kind, alert |-> alert, since |-> 0, old |-> served.fresh /\ served.overtaken,
   step |-> IF served.fresh THEN "loaded" ELSE "fetching",
   list |-> IF served.fresh THEN served.list ELSE Nil]

Advance(c, step, list) == calls' = [calls EXCEPT ![c].step = step, ![c].list = list]

Up == {a \in Alerts : firing[a].up}

FetchAlerts(c) ==
  /\ calls[c] # Nil /\ calls[c].step = "fetching"
  /\ calls' = [calls EXCEPT ![c].step = "joining", ![c].since = changes, 
                            ![c].list = [a \in Up |-> [episode |-> firing[a].episode, ack |-> Nil]]]
  /\ UNCHANGED <<firing, acks, served, boards, submits, outages, changes>>

AttachAcknowledgements(c) ==
  /\ calls[c] # Nil /\ calls[c].step = "joining"
  /\ Advance(c, "joined", [a \in DOMAIN calls[c].list |-> [calls[c].list[a] EXCEPT !.ack = acks[a]]])
  /\ UNCHANGED <<firing, acks, served, boards, submits, outages, changes>>

StoreList(c) ==
  /\ calls[c] # Nil /\ calls[c].step = "joined"
  /\ served' = [list |-> calls[c].list, fresh |-> TRUE, overtaken |-> calls[c].since # changes]
  /\ calls' = [calls EXCEPT ![c].step = "loaded", ![c].since = 0, ![c].old = calls[c].since # changes]
  /\ UNCHANGED <<firing, acks, boards, submits, outages, changes>>

\* A failure falls back to the last list there was.
LoadFails(c) ==
  /\ calls[c] # Nil /\ calls[c].step \in {"fetching", "joining"}
  /\ outages < MaxOutages
  /\ outages' = outages + 1
  /\ calls' = [calls EXCEPT ![c].step = IF served.list = Nil THEN "failed" ELSE "loaded",
                            ![c].list = served.list, ![c].since = 0, ![c].old = TRUE]
  /\ UNCHANGED <<firing, acks, served, boards, submits, changes>>

\* The time to live passes.
ListExpires ==
  /\ served.fresh
  /\ served' = [served EXCEPT !.fresh = FALSE]
  /\ UNCHANGED <<firing, acks, calls, boards, submits, outages, changes>>

----------------------------------------------------------------------------
\* POST /alerts/acknowledge and /alerts/resolve.

Listed(call) == call.alert \in DOMAIN call.list

Refused(call) ==
  \/ call.kind = "ack" /\ ~Listed(call)
  \/ Listed(call) /\ ~MayTouch(call.operator, call.alert)
  \/ call.kind = "resolve" /\ acks[call.alert] = Nil

Refuse(c) ==
  /\ calls[c] # Nil /\ calls[c].kind # "list" /\ calls[c].step = "loaded"
  /\ Refused(calls[c])
  /\ Advance(c, "refused", Nil)
  /\ UNCHANGED <<firing, acks, served, boards, submits, outages, changes>>

Written(call, row) ==
  IF call.kind = "ack" THEN [by |-> call.operator, resolved |-> FALSE, noted |-> 0]
  ELSE [row EXCEPT !.resolved = TRUE, !.noted = firing[call.alert].episode]

WriteRow(c) ==
  /\ calls[c] # Nil /\ calls[c].kind # "list" /\ calls[c].step = "loaded"
  /\ ~Refused(calls[c])
  /\ acks' = [acks EXCEPT ![calls[c].alert] = Written(calls[c], @)]
  /\ Advance(c, "written", Nil)
  /\ changes' = changes + 1
  /\ UNCHANGED <<firing, served, boards, submits, outages>>

\* Seeded bug: the cached list is left to expire.
LeaveList == UNCHANGED served

InvalidateList == served' = [served EXCEPT !.fresh = FALSE]

AnswerWrite(c) ==
  /\ calls[c] # Nil /\ calls[c].step = "written"
  /\ InvalidateList
  /\ Advance(c, "done", Nil)
  /\ UNCHANGED <<firing, acks, boards, submits, outages, changes>>

----------------------------------------------------------------------------
\* The page. A call of its own that nobody waits for any more has its answer dropped. The
\* retries of a fetch that failed are its next polls.

Free(c) == calls[c] = Nil

DropAnswer(c) ==
  /\ calls[c] # Nil
  /\ calls[c].step \in {"done", "refused", "failed"} \/ (calls[c].kind = "list" /\ calls[c].step = "loaded")
  /\ c \notin {boards[calls[c].operator].fetch, boards[calls[c].operator].submit}
  /\ calls' = [calls EXCEPT ![c] = Nil]
  /\ UNCHANGED <<firing, acks, served, boards, submits, outages, changes>>

\* Seeded bug: asked for until there is a list.
AsksAgainOnce(board) == board.list = Nil

AsksAgain(board) == board.fetch = Nil

PollBoard(o, c) ==
  /\ AsksAgain(boards[o]) /\ boards[o].fetch = Nil
  /\ Free(c)
  /\ calls' = [calls EXCEPT ![c] = Lookup(o, "list", Nil)]
  /\ boards' = [boards EXCEPT ![o].fetch = c]
  /\ UNCHANGED <<firing, acks, served, submits, outages, changes>>

\* The answer to the fetch ends the wait of a submit for it.
ListArrives(o) ==
  /\ boards[o].fetch # Nil
  /\ LET call == calls[boards[o].fetch] IN
       /\ call.step \in {"loaded", "failed"}
       /\ boards' = [boards EXCEPT ![o].fetch = Nil, ![o].error = call.step = "failed",
                                   ![o].list = IF call.step = "failed" THEN @ ELSE Visible(o, call.list),
                                   ![o].busy = @ /\ boards[o].submit # Nil]
       /\ calls' = [calls EXCEPT ![boards[o].fetch] = Nil]
  /\ UNCHANGED <<firing, acks, served, submits, outages, changes>>

\* Seeded bug: both buttons on every row.
OfferedAlways(ack) == {"ack", "resolve"}

\* The button of a row, as the row is shown.
Offered(ack) == IF ack = Nil THEN {"ack"} ELSE IF ack.resolved THEN {} ELSE {"resolve"}

OpenDialog(o, a, kind) ==
  /\ boards[o].list # Nil /\ ~boards[o].error /\ boards[o].dialog = Nil
  /\ a \in DOMAIN boards[o].list /\ kind \in Offered(boards[o].list[a].ack)
  /\ boards' = [boards EXCEPT ![o].dialog = [alert |-> a, kind |-> kind, episode |-> boards[o].list[a].episode],
                              ![o].refused = FALSE]
  /\ UNCHANGED <<firing, acks, served, calls, submits, outages, changes>>

CloseDialog(o) ==
  /\ boards[o].dialog # Nil /\ ~boards[o].busy
  /\ boards' = [boards EXCEPT ![o].dialog = Nil, ![o].refused = FALSE]
  /\ UNCHANGED <<firing, acks, served, calls, submits, outages, changes>>

Submit(o, c) ==
  /\ boards[o].dialog # Nil /\ ~boards[o].busy
  /\ Free(c) /\ submits < MaxSubmits
  /\ submits' = submits + 1
  /\ calls' = [calls EXCEPT ![c] = Lookup(o, boards[o].dialog.kind, boards[o].dialog.alert)]
  /\ boards' = [boards EXCEPT ![o].busy = TRUE, ![o].refused = FALSE, ![o].submit = c]
  /\ UNCHANGED <<firing, acks, served, outages, changes>>

\* The dialog closes and the list is fetched anew, a fetch under way being given up.
SubmitSucceeds(o, c) ==
  /\ boards[o].submit # Nil /\ calls[boards[o].submit].step = "done"
  /\ c = boards[o].submit
  /\ calls' = [calls EXCEPT ![c] = Lookup(o, "list", Nil)]
  /\ boards' = [boards EXCEPT ![o].dialog = Nil, ![o].submit = Nil, ![o].fetch = c]
  /\ UNCHANGED <<firing, acks, served, submits, outages, changes>>

SubmitFails(o) ==
  /\ boards[o].submit # Nil /\ calls[boards[o].submit].step \in {"refused", "failed"}
  /\ boards' = [boards EXCEPT ![o].busy = FALSE, ![o].submit = Nil,
                              ![o].refused = calls[boards[o].submit].step = "refused" /\ ~calls[boards[o].submit].old]
  /\ calls' = [calls EXCEPT ![boards[o].submit] = Nil]
  /\ UNCHANGED <<firing, acks, served, submits, outages, changes>>

----------------------------------------------------------------------------
\* Alertmanager.

Fires(a) ==
  /\ ~firing[a].up /\ firing[a].episode < MaxEpisodes
  /\ firing' = [firing EXCEPT ![a] = [up |-> TRUE, episode |-> @.episode + 1]]
  /\ changes' = changes + 1
  /\ UNCHANGED <<acks, served, calls, boards, submits, outages>>

Ends(a) ==
  /\ firing[a].up
  /\ firing' = [firing EXCEPT ![a] = [up |-> FALSE, episode |-> @.episode]]
  /\ changes' = changes + 1
  /\ UNCHANGED <<acks, served, calls, boards, submits, outages>>

CallSteps(c) ==
  \/ FetchAlerts(c) \/ AttachAcknowledgements(c) \/ StoreList(c)
  \/ Refuse(c) \/ WriteRow(c) \/ AnswerWrite(c) \/ DropAnswer(c)

Answers(o) == ListArrives(o) \/ SubmitFails(o) \/ \E c \in AlertCalls : SubmitSucceeds(o, c)

AlertNext ==
  \/ \E c \in AlertCalls : CallSteps(c) \/ LoadFails(c)
  \/ ListExpires
  \/ \E o \in Operators : Answers(o) \/ CloseDialog(o)
  \/ \E o \in Operators, c \in AlertCalls : PollBoard(o, c) \/ Submit(o, c)
  \/ \E o \in Operators, a \in Alerts, kind \in {"ack", "resolve"} : OpenDialog(o, a, kind)
  \/ \E a \in Alerts : Fires(a) \/ Ends(a)

AlertSpec == AlertInit /\ [][AlertNext]_alertVars

----------------------------------------------------------------------------
\* attachAcknowledgements inside the cached load (alertmanager/service.ts:133): a list
\* that is served without a load shows who owns an alert as the table has it, but
\* for one whose load overlapped a change, and while a writer has not come to invalidate.
ServedOwnershipIsCurrent ==
  served.fresh /\ ~served.overtaken /\ (\A c \in AlertCalls : calls[c] # Nil => calls[c].step # "written") =>
    \A a \in DOMAIN served.list : served.list[a].ack = acks[a]

\* Acknowledging and resolving from the page (routes/observability.ts:122): an operator
\* whose role has not changed is refused only if the alert ended since the row it
\* acted on was read, or the refusal is of an old list.
RefusalsAreOfEndedAlerts ==
  \A o \in Operators :
    boards[o].refused /\ boards[o].dialog # Nil =>
      LET alert == firing[boards[o].dialog.alert] IN ~alert.up \/ alert.episode # boards[o].dialog.episode

\* refetchInterval (alerts/page.tsx:68): once nothing more happens, every page that has
\* ever asked comes to show every firing alert its operator sees, with its owner,
\* whatever loads overlapped a change before.
Shows(board, o) ==
  /\ board.list # Nil /\ DOMAIN board.list = {a \in Up : MayTouch(o, a)}
  /\ \A a \in DOMAIN board.list : board.list[a].ack = acks[a]

PagesCatchUp == \A o \in Operators : boards[o].fetch # Nil ~> []Shows(boards[o], o)

\* What the alerts promise those who own and watch them, however lists, answers and
\* ends overlap.
AlertPromise ==
  /\ AlertTypeOK
  /\ ServedOwnershipIsCurrent
  /\ RefusalsAreOfEndedAlerts
=============================================================================
