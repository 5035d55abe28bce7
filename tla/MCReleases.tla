----------------------------- MODULE MCReleases -----------------------------
(***************************************************************************)
(* Small instances of what is released and of those who look at it.        *)
(* Deployments, the dashboard and the review page share no variable here,  *)
(* so a behaviour runs one of them and leaves the others as they begin.    *)
(* They share their model values, so one set of permutations is a symmetry *)
(* of all.                                                                 *)
(***************************************************************************)
EXTENDS Deployments, Dashboard, ReviewPage, TLC

CONSTANTS alice, bob, carol,
          Parts       \* which of the parts below the instance has

Staging == "shop-staging"
Production == "shop-production"

MCEnvironment == [a \in Applications |-> IF a = Production THEN "production" ELSE "staging"]
MCKey == [a \in Applications |-> "shop"]

\* alice and bob hold infrastructure_admin; carol, when present, is a developer.
MCUserEnvironments ==
  [u \in Users |-> IF u = carol THEN Environments \ {"production"} ELSE Environments]
MCProductionDeployers == Users \ {carol}

Symmetry == Permutations(DeploymentIds) \union Permutations(Requests)
              \union Permutations(Callbacks) \union Permutations(Versions)

VARIABLE part

\* What there can be of a subsystem.
Standing(set, answers, parts) == [set |-> set, answers |-> answers, parts |-> parts]
Absent == Standing(FALSE, TRUE, {})
Out == Standing(TRUE, FALSE, {})
Alone == {Absent, Out, Standing(TRUE, TRUE, {})}
Fleet(first) == {Standing(TRUE, TRUE, healths) :
                   healths \in {{}, {first}, {"healthy"}, {"healthy", "down"}, {"down"}}}

MCViews == [s \in Subsystems |->
  CASE s = "console_database" -> Alone \ {Absent}
    [] s \in {"digitalocean", "alertmanager"} -> Alone
    [] s = "redis" -> {Absent}
    [] s \in {"prometheus", "docker"} -> Alone \union {Standing(TRUE, TRUE, {"down"})}
    [] s = "proxmox" -> {Absent, Out} \union Fleet("healthy")
    [] s = "databases" -> Fleet("healthy")
    [] OTHER -> Fleet("unknown") \union {Standing(TRUE, TRUE, {"healthy", "degraded"})}]

MCInit ==
  /\ part \in Parts
  /\ Init /\ DashInit /\ ReviewInit
  /\ part # "deployments" => \A a \in Applications : operationsEnabled[a]

MCNext ==
  \/ part = "deployments" /\ Next /\ UNCHANGED <<part, dashVars, reviewVars>>
  \/ part = "dashboard" /\ DashNext /\ UNCHANGED <<part, vars, reviewVars>>
  \/ part = "review" /\ ReviewNext /\ UNCHANGED <<part, vars, dashVars>>

MCSpec == MCInit /\ [][MCNext]_<<part, vars, dashVars, reviewVars>>
=============================================================================
