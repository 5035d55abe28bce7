--------------------------- MODULE ServiceStatus ----------------------------
(***************************************************************************)
(* The state of the registered services (services/applications.ts and      *)
(* routes/applications.ts): the list of one viewer, which is cached, and a  *)
(* service's own page, which is not. Either probes the services, and every  *)
(* probe is recorded, so that a service that fails still shows when it last *)
(* worked. Two loads of one list, two pages, and an edit of the registry    *)
(* run side by side.                                                       *)
(*                                                                         *)
(* The services are external: a probe is answered in any way. Filters,      *)
(* containers and the newest deployment of a row are left out.             *)
(***************************************************************************)
EXTENDS Naturals, FiniteSetsExt

CONSTANTS
  Services,
  StatusCalls,   \* requests
  Missing,       \* nothing there
  MaxPulse,      \* bound on time
  MaxUpsets      \* bound on edits of the registry and statements that fail, together

VARIABLES
  registered,    \* the table applications: whether a service has a health endpoint, and its edition
  checks,        \* the table application_health_checks
  statusEntry,   \* the cached list; overtaken, a history: the registry changed since it was read
  statusCalls,
  pulse,         \* the time
  edits,         \* history: how often the registry was edited
  mishaps,
  outcomes       \* history: what every probe found

statusVars == <<registered, checks, statusEntry, statusCalls, pulse, edits, mishaps, outcomes>>

ServiceRow == [probed : BOOLEAN, edition : 0..MaxUpsets]
Check == [at : 1..MaxPulse, healthy : BOOLEAN]

\* What a probe finds, but for the state itself: degraded and down both count as a failure.
\* 0 is no time.
Found == [at : 1..MaxPulse, lastSuccess : 0..MaxPulse, lastFailure : 0..MaxPulse]
Item == [row : ServiceRow, health : Found]

\* Of a call, overlapped and since are histories: another list was stored while it loaded;
\* the edits there were when it read the registry.
Probe == [step : {"begun", "asked", "worked", "broke", "recorded"}, health : Found]
Probes == UNION {[probed -> Probe] : probed \in SUBSET Services}
StatusCall ==
  [kind : {"list", "page", "edit"}, step : {"listed", "probing", "failed", "written"},
   rows : [Services -> ServiceRow], since : 0..MaxUpsets, overlapped : BOOLEAN, probes : Probes]

ASSUME StatusAssumption ==
  /\ MaxPulse \in Nat \ {0} /\ MaxUpsets \in Nat
  /\ Missing \notin StatusCall /\ Missing \notin [Services -> Item]

StatusTypeOK ==
  /\ registered \in [Services -> ServiceRow]
  /\ checks \in [Services -> SUBSET Check] /\ outcomes \in [Services -> SUBSET Check]
  /\ statusEntry \in [list : [Services -> Item] \union {Missing}, fresh : BOOLEAN, overtaken : BOOLEAN]
  /\ statusCalls \in [StatusCalls -> StatusCall \union {Missing}]
  /\ pulse \in 1..MaxPulse /\ edits \in 0..MaxUpsets /\ mishaps \in 0..MaxUpsets

StatusInit ==
  /\ registered \in [Services -> {row \in ServiceRow : row.edition = 0}]
  /\ checks = [s \in Services |-> {}] /\ outcomes = checks
  /\ statusEntry = [list |-> Missing, fresh |-> FALSE, overtaken |-> FALSE]
  /\ statusCalls = [c \in StatusCalls |-> Missing]
  /\ pulse = 1 /\ edits = 0 /\ mishaps = 0

Upsettable == edits + mishaps < MaxUpsets

Call(kind, step, rows, since, probed) ==
  [kind |-> kind, step |-> step, rows |-> rows, since |-> since, overlapped |-> FALSE,
   probes |-> [s \in probed |->
                 [step |-> "begun", health |-> [at |-> pulse, lastSuccess |-> 0, lastFailure |-> 0]]]]

----------------------------------------------------------------------------
\* A probe: what was known of the service is read, the service is asked, the check stored.

\* Seeded bug: the newest check whatever it found.
LastOfAny(s, healthy) == Max({0} \union {check.at : check \in checks[s]})

\* Seeded bug: the newest check, if it found that.
LastIfNewest(s, healthy) ==
  Max({0} \union {check.at : check \in {k \in checks[s] : k.healthy = healthy /\ \A j \in checks[s] : j.at <= k.at}})

LastCheck(s, healthy) == Max({0} \union {check.at : check \in {k \in checks[s] : k.healthy = healthy}})

Probing(c, s, step) ==
  /\ statusCalls[c] # Missing /\ statusCalls[c].step \in {"probing", "failed"}
  /\ s \in DOMAIN statusCalls[c].probes /\ statusCalls[c].probes[s].step = step

MoveProbe(c, s, probe) == statusCalls' = [statusCalls EXCEPT ![c].probes[s] = probe]

ReadLast(c, s) ==
  /\ Probing(c, s, "begun")
  /\ MoveProbe(c, s, [step |-> IF statusCalls[c].rows[s].probed THEN "asked" ELSE "recorded",
                      health |-> [at |-> statusCalls[c].probes[s].health.at,
                                  lastSuccess |-> LastCheck(s, TRUE), lastFailure |-> LastCheck(s, FALSE)]])
  /\ UNCHANGED <<registered, checks, statusEntry, pulse, edits, mishaps, outcomes>>

ProbeAnswered(c, s, healthy) ==
  LET health == statusCalls[c].probes[s].health IN
  /\ Probing(c, s, "asked")
  /\ MoveProbe(c, s, IF healthy THEN [step |-> "worked", health |-> [health EXCEPT !.lastSuccess = health.at]]
                     ELSE [step |-> "broke", health |-> [health EXCEPT !.lastFailure = health.at]])
  /\ outcomes' = [outcomes EXCEPT ![s] = @ \union {[at |-> health.at, healthy |-> healthy]}]
  /\ UNCHANGED <<registered, checks, statusEntry, pulse, edits, mishaps>>

\* A check that cannot be stored is let go.
PersistCheck(c, s, healthy, stored) ==
  LET health == statusCalls[c].probes[s].health IN
  /\ Probing(c, s, IF healthy THEN "worked" ELSE "broke")
  /\ checks' = IF stored THEN [checks EXCEPT ![s] = @ \union {[at |-> health.at, healthy |-> healthy]}] ELSE checks
  /\ stored \/ Upsettable
  /\ mishaps' = IF stored THEN mishaps ELSE mishaps + 1
  /\ MoveProbe(c, s, [step |-> "recorded", health |-> health])
  /\ UNCHANGED <<registered, statusEntry, pulse, edits, outcomes>>

\* The first statement of one probe fails: the load ends, the other probes go on.
ProbeFails(c, s) ==
  /\ Probing(c, s, "begun") /\ Upsettable
  /\ mishaps' = mishaps + 1
  /\ statusCalls' = [statusCalls EXCEPT ![c].step = "failed", ![c].probes[s].step = "recorded"]
  /\ UNCHANGED <<registered, checks, statusEntry, pulse, edits, outcomes>>

----------------------------------------------------------------------------
\* statuses: the registry is read before the cache is asked.

ListApplications(c) ==
  /\ statusCalls[c] = Missing
  /\ statusCalls' = [statusCalls EXCEPT ![c] = Call("list", "listed", registered, edits, {})]
  /\ UNCHANGED <<registered, checks, statusEntry, pulse, edits, mishaps, outcomes>>

AnswerFromCache(c) ==
  /\ statusCalls[c] # Missing /\ statusCalls[c].step = "listed" /\ statusEntry.fresh
  /\ statusCalls' = [statusCalls EXCEPT ![c] = Missing]
  /\ UNCHANGED <<registered, checks, statusEntry, pulse, edits, mishaps, outcomes>>

BeginLoad(c) ==
  /\ statusCalls[c] # Missing /\ statusCalls[c].step = "listed" /\ ~statusEntry.fresh
  /\ statusCalls' = [statusCalls EXCEPT ![c] = Call("list", "probing", statusCalls[c].rows, statusCalls[c].since, Services)]
  /\ UNCHANGED <<registered, checks, statusEntry, pulse, edits, mishaps, outcomes>>

RequireApplication(c, s) ==
  /\ statusCalls[c] = Missing
  /\ statusCalls' = [statusCalls EXCEPT ![c] = Call("page", "probing", registered, edits, {s})]
  /\ UNCHANGED <<registered, checks, statusEntry, pulse, edits, mishaps, outcomes>>

Recorded(c) ==
  /\ statusCalls[c] # Missing /\ statusCalls[c].step \in {"probing", "failed"}
  /\ \A s \in DOMAIN statusCalls[c].probes : statusCalls[c].probes[s].step = "recorded"

StoreStatuses(c) ==
  /\ Recorded(c) /\ statusCalls[c].kind = "list" /\ statusCalls[c].step = "probing"
  /\ statusEntry' = [fresh |-> TRUE, overtaken |-> statusCalls[c].since # edits,
                     list |-> [s \in Services |-> [row |-> statusCalls[c].rows[s],
                                                   health |-> statusCalls[c].probes[s].health]]]
  /\ statusCalls' = [d \in StatusCalls |->
                       IF d = c THEN Missing
                       ELSE IF statusCalls[d] # Missing /\ statusCalls[d].kind = "list" /\ statusCalls[d].step = "probing"
                       THEN [statusCalls[d] EXCEPT !.overlapped = TRUE] ELSE statusCalls[d]]
  /\ UNCHANGED <<registered, checks, pulse, edits, mishaps, outcomes>>

\* A page is answered; a load that failed was, with the list there was before or an error.
EndCall(c) ==
  /\ Recorded(c) /\ (statusCalls[c].kind = "page" \/ statusCalls[c].step = "failed")
  /\ statusCalls' = [statusCalls EXCEPT ![c] = Missing]
  /\ UNCHANGED <<registered, checks, statusEntry, pulse, edits, mishaps, outcomes>>

----------------------------------------------------------------------------

Upsert(c, s, probed) ==
  /\ statusCalls[c] = Missing /\ Upsettable
  /\ registered' = [registered EXCEPT ![s] = [probed |-> probed, edition |-> edits + 1]]
  /\ edits' = edits + 1
  /\ statusCalls' = [statusCalls EXCEPT ![c] = Call("edit", "written", registered, edits, {})]
  /\ UNCHANGED <<checks, statusEntry, pulse, mishaps, outcomes>>

\* Seeded bug: what is dropped is the entry of that very name, which there is none of.
InvalidateName == UNCHANGED statusEntry

InvalidateStatuses == statusEntry' = [statusEntry EXCEPT !.fresh = FALSE]

UpsertAnswered(c) ==
  /\ statusCalls[c] # Missing /\ statusCalls[c].step = "written"
  /\ InvalidateStatuses
  /\ statusCalls' = [statusCalls EXCEPT ![c] = Missing]
  /\ UNCHANGED <<registered, checks, pulse, edits, mishaps, outcomes>>

\* runRetention. Checks are kept for days and a probe takes seconds: none is old before it is stored.
PruneChecks(cutoff) ==
  /\ cutoff <= pulse /\ \E s \in Services : \E check \in checks[s] : check.at < cutoff
  /\ \A c \in StatusCalls : statusCalls[c] # Missing =>
       \A s \in DOMAIN statusCalls[c].probes : cutoff <= statusCalls[c].probes[s].health.at
  /\ checks' = [s \in Services |-> {check \in checks[s] : check.at >= cutoff}]
  /\ UNCHANGED <<registered, statusEntry, statusCalls, pulse, edits, mishaps, outcomes>>

StatusesExpire ==
  /\ statusEntry.fresh
  /\ statusEntry' = [statusEntry EXCEPT !.fresh = FALSE]
  /\ UNCHANGED <<registered, checks, statusCalls, pulse, edits, mishaps, outcomes>>

Pulse ==
  /\ pulse < MaxPulse
  /\ pulse' = pulse + 1
  /\ UNCHANGED <<registered, checks, statusEntry, statusCalls, edits, mishaps, outcomes>>

StatusNext ==
  \/ \E c \in StatusCalls :
       \/ ListApplications(c) \/ AnswerFromCache(c) \/ BeginLoad(c) \/ StoreStatuses(c) \/ EndCall(c) \/ UpsertAnswered(c)
       \/ \E s \in Services :
            \/ RequireApplication(c, s) \/ ReadLast(c, s) \/ ProbeFails(c, s)
            \/ \E flag \in BOOLEAN : ProbeAnswered(c, s, flag) \/ Upsert(c, s, flag)
            \/ \E healthy, stored \in BOOLEAN : PersistCheck(c, s, healthy, stored)
  \/ \E cutoff \in 2..MaxPulse : PruneChecks(cutoff)
  \/ StatusesExpire \/ Pulse

StatusSpec == StatusInit /\ [][StatusNext]_statusVars

----------------------------------------------------------------------------
\* statuses and upsertApplication (services/applications.ts:298, 489): a list that is served
\* without a load has the registry as it is, but for one whose load overlapped an edit, and
\* while an editor has not come to invalidate.
ServedListsFollowTheRegistry ==
  statusEntry.fresh /\ ~statusEntry.overtaken /\ (\A c \in StatusCalls : statusCalls[c] # Missing => statusCalls[c].step # "written") =>
    \A s \in Services : statusEntry.list[s].row = registered[s]

\* lastCheck and probe (services/applications.ts:120, 275): when a service is said to have
\* worked or failed last, a probe did find that then, however probes overlapped.
HealthsOf(s) ==
  {statusCalls[c].probes[s].health : c \in {d \in StatusCalls : statusCalls[d] # Missing /\ s \in DOMAIN statusCalls[d].probes}}
    \union (IF statusEntry.list = Missing THEN {} ELSE {statusEntry.list[s].health})

LastTimesHappened ==
  \A s \in Services : \A health \in HealthsOf(s) :
    /\ health.lastSuccess # 0 => [at |-> health.lastSuccess, healthy |-> TRUE] \in outcomes[s]
    /\ health.lastFailure # 0 => [at |-> health.lastFailure, healthy |-> FALSE] \in outcomes[s]

\* services/applications.ts:114: "Each result is persisted so the UI can show 'last
\* successful check' even while a service is failing": the last success of a service never
\* goes back from one list to the next, unless a statement failed or its check has been
\* pruned, or the later list was being loaded when the earlier one was stored.
SuccessesAreRemembered ==
  [][statusEntry.list # Missing /\ statusEntry'.list # statusEntry.list =>
       \A s \in Services :
         LET before == statusEntry.list[s].health.lastSuccess IN
           \/ statusEntry'.list[s].health.lastSuccess >= before
           \/ mishaps > 0 \/ [at |-> before, healthy |-> TRUE] \notin checks[s]
           \/ \E c \in StatusCalls : statusCalls[c] # Missing /\ statusCalls'[c] = Missing /\ statusCalls[c].overlapped]_statusVars

\* What the status of services promises while they are edited and probed.
StatusPromise ==
  /\ []StatusTypeOK
  /\ []ServedListsFollowTheRegistry
  /\ []LastTimesHappened
  /\ SuccessesAreRemembered
=============================================================================
