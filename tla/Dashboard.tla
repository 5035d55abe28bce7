----------------------------- MODULE Dashboard -----------------------------
(***************************************************************************)
(* The overview (services/dashboard.ts): what the health function of each  *)
(* provider says of its system, and what the page makes of the nine        *)
(* answers. The calls run side by side; here they see one moment. Times,    *)
(* latencies and wording are left out, and the lists beside the score are   *)
(* those of the other modules.                                             *)
(***************************************************************************)
EXTENDS Integers, FiniteSets

CONSTANT Views   \* subsystem -> what there can be of it

VARIABLE estate   \* what there is of each subsystem

dashVars == <<estate>>

\* set: it is configured. answers: it can be reached, or for what the console keeps in its
\* own database, can be asked about. parts: the states of its parts (nodes, scrape targets,
\* containers, applications, databases).
View == [set : BOOLEAN, answers : BOOLEAN, parts : SUBSET {"healthy", "degraded", "down", "unknown"}]

Subsystems == {"console_database", "digitalocean", "proxmox", "applications", "docker", "databases",
               "redis", "prometheus", "alertmanager"}

\* The states that the health functions tell apart of the parts.
PartStates(s) ==
  CASE s = "applications" -> {"healthy", "degraded", "down", "unknown"}
    [] s \in {"proxmox", "databases", "prometheus", "docker"} -> {"healthy", "down"}
    [] OTHER -> {}

\* What the console keeps in its own database is there to be asked about.
Possible(s, view) ==
  /\ view \in View /\ view.parts \subseteq PartStates(s)
  /\ s \in {"applications", "databases"} => view.set /\ view.answers

ASSUME ViewsAssumption == \A s \in Subsystems : \A view \in Views[s] : Possible(s, view)

DashTypeOK == estate \in [Subsystems -> View]

\* A new console; the first three are its own.
DashInit ==
  estate = [s \in Subsystems |-> [set |-> s \in {"console_database", "applications", "databases"},
                                 answers |-> TRUE, parts |-> {}]]

Changes(s, view) ==
  /\ view \in Views[s] \ {estate[s]}
  /\ estate' = [estate EXCEPT ![s] = view]

DashNext == \E s \in Subsystems : \E view \in Views[s] : Changes(s, view)

DashSpec == DashInit /\ [][DashNext]_dashVars

----------------------------------------------------------------------------
\* The health functions, and safe, which makes a call that throws a subsystem that is down.

Report(state, configured) == [state |-> state, configured |-> configured]

Holds(s, state) == state \in estate[s].parts

PingDatabase == Report(IF estate["console_database"].answers THEN "healthy" ELSE "down", TRUE)

\* DigitalOcean, Alertmanager, Redis: reached or not.
Reached(s) == IF estate[s].answers THEN "healthy" ELSE "down"

ProxmoxState ==
  CASE ~estate["proxmox"].answers \/ ~Holds("proxmox", "healthy") -> "down"
    [] estate["proxmox"].answers /\ estate["proxmox"].parts = {"healthy"} -> "healthy"
    [] OTHER -> "degraded"

\* Seeded bug: it is enough to be reached.
WatchedReached(s) == Reached(s)

\* Prometheus and Docker: degraded by one part of them that is down.
WatchedState(s) == IF ~estate[s].answers THEN "down" ELSE IF Holds(s, "down") THEN "degraded" ELSE "healthy"

ProviderHealth(s) ==
  IF ~estate[s].set THEN Report("unknown", FALSE)
  ELSE Report(CASE s = "proxmox" -> ProxmoxState
                [] s \in {"prometheus", "docker"} -> WatchedState(s)
                [] OTHER -> Reached(s), TRUE)

Asked == estate["console_database"].answers

ApplicationsHealth ==
  IF ~Asked THEN Report("unknown", TRUE)
  ELSE Report(CASE Holds("applications", "down") -> "down"
                [] Holds("applications", "degraded") /\ ~Holds("applications", "down") -> "degraded"
                [] estate["applications"].parts = {} -> "unknown"
                [] OTHER -> "healthy", estate["applications"].parts # {})

DatabasesHealth ==
  IF ~Asked THEN Report("unknown", TRUE)
  ELSE CASE estate["databases"].parts = {} -> Report("unknown", FALSE)
         [] estate["databases"].parts = {"healthy"} -> Report("healthy", TRUE)
         [] OTHER -> Report(IF Holds("databases", "healthy") THEN "degraded" ELSE "down", TRUE)

Health(s) ==
  CASE s = "console_database" -> PingDatabase
    [] s = "applications" -> ApplicationsHealth
    [] s = "databases" -> DatabasesHealth
    [] OTHER -> ProviderHealth(s)

----------------------------------------------------------------------------
\* overview.

\* Seeded bug: what is down has not reported.
ReportedUp == {s \in Subsystems : Health(s).configured /\ Health(s).state \notin {"unknown", "down"}}

Reported == {s \in Subsystems : Health(s).configured /\ Health(s).state # "unknown"}

Unreported == Subsystems \ Reported

ReportedAs(state) == {s \in Reported : Health(s).state = state}

\* The mean of 1, a half and 0, in percent, rounded to the nearest.
HealthScore ==
  LET n == Cardinality(Reported)
      points == 2 * Cardinality(ReportedAs("healthy")) + Cardinality(ReportedAs("degraded"))
  IN  IF n = 0 THEN 0 ELSE (100 * points + n) \div (2 * n)

----------------------------------------------------------------------------
\* dashboard.ts:27: "no single provider outage can fail the page. A subsystem that cannot
\* be reached reports down": one that is lost, or a part of one, never raises the score.
\* The console's own database may: with it the applications and databases can no longer be
\* asked about, and what was down of them leaves the mean.
Lost(before, after) ==
  /\ before.set /\ before.answers /\ after.set
  /\ \/ ~after.answers
     \/ "down" \in after.parts \ before.parts /\ after.parts \subseteq before.parts \union {"down"}

LossesLowerTheScore ==
  [][\A s \in Subsystems \ {"console_database"} :
       Lost(estate[s], estate'[s]) => HealthScore' <= HealthScore]_dashVars

\* dashboard.ts:30: "computed only over subsystems that actually reported": a full score is
\* one where whatever is set up is in order or named as unreported. Applications nobody
\* probes count as healthy; that is the exception.
FullScoresAreEarned ==
  HealthScore = 100 =>
    \A s \in Subsystems \ Unreported : estate[s].answers /\ estate[s].parts \subseteq {"healthy", "unknown"}

\* What the score promises, named by its parts: no outage is hidden behind a better
\* one.
DashPromise ==
  /\ []DashTypeOK
  /\ []FullScoresAreEarned
  /\ LossesLowerTheScore
=============================================================================
