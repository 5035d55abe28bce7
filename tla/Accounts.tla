------------------------------ MODULE Accounts ------------------------------
(***************************************************************************)
(* Console accounts, their roles and their sessions: auth/session.ts,      *)
(* services/users.ts and the user routes of routes/admin.ts.               *)
(*                                                                         *)
(* Signing in is a transaction that mirrors the identity, a read of its    *)
(* roles and an insert of its session. A request of an administrator       *)
(* resolves its session, reads the roles of its user, counts the other     *)
(* active owners, changes the target and then revokes its sessions, each   *)
(* at an await of its own. assignRoles does the middle part in one READ    *)
(* COMMITTED transaction, whose DELETE sees the rows committed when it     *)
(* starts, waits for those another transaction is deleting, and skips the  *)
(* ones that are gone by then.                                             *)
(***************************************************************************)
EXTENDS FiniteSets

CONSTANTS Users, Roles,
          Sessions,   \* primary keys of sessions
          Requests,   \* requests of administrators, each served once
          Logins      \* sign-ins served at once

\* Of the roles' permissions only users.manage counts here, and only owner carries it.
ASSUME AccountsAssumption == "owner" \in Roles

VARIABLES
  users,      \* user -> account, or NoAccount before the first sign-in
  sessions,   \* session -> its row, or NoRow
  requests,   \* the administrators' requests
  logins      \* the sign-ins

vars == <<users, sessions, requests, logins>>

Account == [active : BOOLEAN, roles : SUBSET Roles]
NoAccount == [active |-> FALSE]

\* `live` is un-revoked, unexpired and not idle too long; `stale` that the user's roles
\* or activity changed since the session was inserted (no column: for the properties).
Session == [user : Users, live : BOOLEAN, stale : BOOLEAN]
NoRow == [live |-> FALSE]

\* What an administrator asks: PUT roles, POST active, POST revoke-sessions.
Intent ==
  [kind : {"roles"}, target : Users, roles : SUBSET Roles \ {{}}]
    \union [kind : {"active"}, target : Users, active : BOOLEAN]
    \union [kind : {"revoke"}, target : Users]

\* `seen` holds the active owners when the others were counted, `doomed` the role rows
\* a DELETE has found.
Ended == {"refused", "ended", "died", "unrevoked"}
Request == [step : {"authorised", "checked", "deleting", "deleted", "landed"} \union Ended,
            actor : Users, intent : Intent, seen : SUBSET Users, doomed : SUBSET Roles]
Resolved == [step : {"resolved"}, actor : Users]

Login == [step : {"mirrored", "authorised"}, user : Users]

Idle == [step |-> "idle"]

TypeOK ==
  /\ users \in [Users -> Account \union {NoAccount}]
  /\ sessions \in [Sessions -> Session \union {NoRow}]
  /\ requests \in [Requests -> Request \union Resolved \union {Idle}]
  /\ logins \in [Logins -> Login \union {Idle}]

Known == {u \in Users : users[u] # NoAccount}

ActiveOwners == {u \in Known : users[u].active /\ "owner" \in users[u].roles}

Init ==
  /\ users \in [Users -> Account \union {NoAccount}]
  /\ ActiveOwners # {}
  /\ sessions = [s \in Sessions |-> NoRow]
  /\ requests = [r \in Requests |-> Idle]
  /\ logins = [l \in Logins |-> Idle]

----------------------------------------------------------------------------
\* Signing in: createSession.

\* upsertUser: an unknown identity gets an account, a deactivated one is refused, and
\* roles the identity provider asserts are taken only by an account without any.
Upsert(l, u, asserted) ==
  /\ logins[l] = Idle
  /\ u \in Known => users[u].active
  /\ users' = [users EXCEPT ![u] =
       [active |-> TRUE,
        roles |-> IF u \in Known /\ users[u].roles # {} THEN users[u].roles ELSE asserted]]
  /\ logins' = [logins EXCEPT ![l] = [step |-> "mirrored", user |-> u]]
  /\ UNCHANGED <<sessions, requests>>

ReadRoles(l) ==
  /\ logins[l].step = "mirrored"
  /\ logins' = [logins EXCEPT ![l] =
       IF users[logins[l].user].roles = {} THEN Idle ELSE [logins[l] EXCEPT !.step = "authorised"]]
  /\ UNCHANGED <<users, sessions, requests>>

InsertSession(l, s) ==
  /\ logins[l].step = "authorised"
  /\ sessions[s] = NoRow
  /\ sessions' = [sessions EXCEPT ![s] = [user |-> logins[l].user, live |-> TRUE, stale |-> FALSE]]
  /\ logins' = [logins EXCEPT ![l] = Idle]
  /\ UNCHANGED <<users, requests>>

AbandonLogin(l) ==
  /\ logins[l] # Idle
  /\ logins' = [logins EXCEPT ![l] = Idle]
  /\ UNCHANGED <<users, sessions, requests>>

\* revokeSession (logout, one's own devices, the idle timeout) or the absolute expiry.
EndSession(s) ==
  /\ sessions[s].live
  /\ sessions' = [sessions EXCEPT ![s].live = FALSE]
  /\ UNCHANGED <<users, requests, logins>>

----------------------------------------------------------------------------
\* An administrator's request, up to the change.

\* resolveSession: its first statement checks the session and the account.
Resolve(r, s) ==
  /\ requests[r] = Idle
  /\ sessions[s].live
  /\ users[sessions[s].user].active
  /\ requests' = [requests EXCEPT ![r] = [step |-> "resolved", actor |-> sessions[s].user]]
  /\ UNCHANGED <<users, sessions, logins>>

\* Its second reads the roles; the route asks for users.manage, then for the target.
Authorise(r, intent) ==
  /\ requests[r].step = "resolved"
  /\ "owner" \in users[requests[r].actor].roles
  /\ intent.target \in Known
  /\ requests' = [requests EXCEPT ![r] =
       [step |-> IF intent.kind = "revoke" THEN "landed" ELSE "authorised",
        actor |-> requests[r].actor, intent |-> intent, seen |-> {}, doomed |-> {}]]
  /\ UNCHANGED <<users, sessions, logins>>

\* Seeded bug: deactivated owners count too.
OtherOwners(u) == {v \in Known \ {u} : "owner" \in users[v].roles}

OtherActiveOwners(u) == {v \in Known \ {u} : users[v].active /\ "owner" \in users[v].roles}

TakesOwner(intent) ==
  \/ intent.kind = "roles" /\ "owner" \notin intent.roles
  \/ intent.kind = "active" /\ ~intent.active

\* assignRoles and setActive refuse to take the last active owner; setActive refuses,
\* before that, to deactivate its own caller.
Check(r) ==
  LET intent == requests[r].intent IN
  /\ requests[r].step = "authorised"
  /\ requests' = [requests EXCEPT
       ![r].seen = ActiveOwners,
       ![r].step =
         IF /\ TakesOwner(intent) => OtherActiveOwners(intent.target) # {}
            /\ intent.kind = "active" /\ ~intent.active => intent.target # requests[r].actor
         THEN "checked" ELSE "refused"]
  /\ UNCHANGED <<users, sessions, logins>>

----------------------------------------------------------------------------
\* The change.

\* Seeded bug: only the sessions of u are kept.
AgedOnly(u) ==
  [s \in {t \in Sessions : sessions[t] # NoRow /\ sessions[t].user = u} |->
     [sessions[s] EXCEPT !.stale = TRUE]]

\* Sessions of u become older than a change of u.
Aged(u) ==
  [s \in Sessions |-> IF sessions[s] # NoRow /\ sessions[s].user = u
                        THEN [sessions[s] EXCEPT !.stale = TRUE] ELSE sessions[s]]

\* The DELETE of assignRoles starts: it sees the rows committed now.
BeginDelete(r) ==
  /\ requests[r].step = "checked"
  /\ requests[r].intent.kind = "roles"
  /\ requests' = [requests EXCEPT ![r].step = "deleting",
                                  ![r].doomed = users[requests[r].intent.target].roles]
  /\ UNCHANGED <<users, sessions, logins>>

\* Another transaction has locked one of the rows by deleting it.
Waits(r) ==
  \E other \in Requests \ {r} :
    /\ requests[other].step = "deleted"
    /\ requests[other].intent.target = requests[r].intent.target
    /\ requests[other].doomed \intersect requests[r].doomed # {}

Delete(r) ==
  /\ requests[r].step = "deleting"
  /\ ~Waits(r)
  /\ requests' = [requests EXCEPT ![r].step = "deleted"]
  /\ UNCHANGED <<users, sessions, logins>>

\* Seeded bug: the roles a user had are kept.
RolesAdded(r) == users[requests[r].intent.target].roles \union requests[r].intent.roles

RolesReplaced(r) ==
  (users[requests[r].intent.target].roles \ requests[r].doomed) \union requests[r].intent.roles

\* The primary key of user_roles refuses a role the DELETE did not see.
Duplicate(r) ==
  requests[r].intent.roles
    \intersect (users[requests[r].intent.target].roles \ requests[r].doomed) # {}

\* Rows deleted here are skipped by the DELETEs still waiting for them.
CommitRoles(r) ==
  LET target == requests[r].intent.target IN
  /\ requests[r].step = "deleted"
  /\ ~Duplicate(r)
  /\ users' = [users EXCEPT ![target].roles = RolesReplaced(r)]
  /\ sessions' = Aged(target)
  /\ requests' = [other \in Requests |->
       IF other = r THEN [requests[r] EXCEPT !.step = "landed"]
       ELSE IF requests[other].step = "deleting" /\ requests[other].intent.target = target
              THEN [requests[other] EXCEPT !.doomed = @ \ requests[r].doomed]
              ELSE requests[other]]
  /\ UNCHANGED logins

SetActive(r) ==
  LET intent == requests[r].intent IN
  /\ requests[r].step = "checked"
  /\ intent.kind = "active"
  /\ users' = [users EXCEPT ![intent.target].active = intent.active]
  /\ sessions' = IF intent.active THEN sessions ELSE Aged(intent.target)
  /\ requests' = [requests EXCEPT ![r].step = IF intent.active THEN "ended" ELSE "landed"]
  /\ UNCHANGED logins

\* Seeded bug: the sessions the change found stale are left to expire.
RevokedFresh(u) ==
  [s \in Sessions |-> IF sessions[s].live /\ sessions[s].user = u /\ ~sessions[s].stale
                        THEN [sessions[s] EXCEPT !.live = FALSE] ELSE sessions[s]]

Revoked(u) ==
  [s \in Sessions |-> IF sessions[s].live /\ sessions[s].user = u
                        THEN [sessions[s] EXCEPT !.live = FALSE] ELSE sessions[s]]

\* revokeAllSessionsForUser, after the change has been committed.
Revoke(r) ==
  /\ requests[r].step = "landed"
  /\ sessions' = Revoked(requests[r].intent.target)
  /\ requests' = [requests EXCEPT ![r].step = "ended"]
  /\ UNCHANGED <<users, logins>>

\* A refusal of the session's roles or the target, a duplicate key, a statement that
\* fails or the death of the process: transactions roll back, changes stay unrevoked.
Die(r) ==
  /\ requests[r].step \in {"resolved", "authorised", "checked", "deleting", "deleted", "landed"}
  /\ requests' = [requests EXCEPT
       ![r] = IF requests[r].step = "resolved" THEN Idle
              ELSE [requests[r] EXCEPT
                      !.step = IF requests[r].step = "landed" THEN "unrevoked" ELSE "died"]]
  /\ UNCHANGED <<users, sessions, logins>>

Next ==
  \/ \E l \in Logins, u \in Users, asserted \in SUBSET Roles : Upsert(l, u, asserted)
  \/ \E l \in Logins : ReadRoles(l) \/ AbandonLogin(l)
  \/ \E l \in Logins, s \in Sessions : InsertSession(l, s)
  \/ \E s \in Sessions : EndSession(s)
  \/ \E r \in Requests, s \in Sessions : Resolve(r, s)
  \/ \E r \in Requests, intent \in Intent : Authorise(r, intent)
  \/ \E r \in Requests : \/ Check(r) \/ BeginDelete(r) \/ Delete(r) \/ CommitRoles(r)
                         \/ SetActive(r) \/ Revoke(r) \/ Die(r)

Spec == Init /\ [][Next]_vars

----------------------------------------------------------------------------
\* Properties.

\* services/users.ts:15-16: "the console refuses to leave itself with zero owners".
OwnersRemain == ActiveOwners # {}

\* What the check does give: a request whose change leaves no active owner had seen
\* another one when it counted, whom a second request has taken in between.
LastOwnerWasNotAlone ==
  [][ActiveOwners # {} /\ ActiveOwners' = {} =>
       \E r \in Requests :
         /\ requests'[r] # requests[r]
         /\ requests[r].seen \ {requests[r].intent.target} # {}]_vars

\* An assignment leaves exactly the roles it names, unless another assignment of the
\* same user was committed too, or the user's first roles came in while it was deleting.
RolesAreReplaced ==
  [][\A r \in Requests :
       requests[r].step = "deleted" /\ requests'[r].step = "landed" =>
         \/ users'[requests[r].intent.target].roles = requests[r].intent.roles
         \/ requests[r].doomed = {}
         \/ \E other \in Requests \ {r} :
              /\ requests[other].step \in {"landed", "ended", "unrevoked"}
              /\ requests[other].intent.kind = "roles"
              /\ requests[other].intent.target = requests[r].intent.target]_vars

\* security.md:184, "Revocation is immediate on role change or deactivation": a session
\* older than a change of its user's roles or activity is live only while the request
\* that made the change has not revoked it yet, or when that request died first.
StaleSessionsAreRevoked ==
  \A s \in Sessions :
    sessions[s].live /\ sessions[s].stale =>
      \E r \in Requests : /\ requests[r].step \in {"landed", "unrevoked"}
                          /\ requests[r].intent.target = sessions[s].user

\* runbook.md:204: "Security -> Users -> deactivate. Sessions are revoked immediately."
DeactivationEndsSessions ==
  \A s \in Sessions :
    sessions[s].live =>
      \/ users[sessions[s].user].active
      \/ \E r \in Requests : /\ requests[r].step \in {"landed", "unrevoked"}
                             /\ requests[r].intent.target = sessions[s].user

\* The tables keep their types and a session does not outlive what it was opened on.
AccountsInvariant == TypeOK /\ StaleSessionsAreRevoked
=============================================================================
