--------------------------- MODULE AccountsProofs ---------------------------
(***************************************************************************)
(* Proofs about accounts, roles and sessions, about the life of a          *)
(* session's row, and about the two ways to sign in, for every value of    *)
(* the constants.                                                          *)
(***************************************************************************)
EXTENDS Accounts, LocalSignIn, SsoSignIn, SessionRows, TLAPS

\* Accounts, rows and requests differ from the values that stand for their absence, and a
\* request's step tells its kind.
LEMMA Sentinels ==
  /\ \A account \in Account : account # NoAccount
  /\ \A row \in Session : row # NoRow
  /\ \A login \in Login : login # Idle
  /\ NoRow.live = FALSE
  /\ Idle.step = "idle"
BY DEF Account, NoAccount, Session, NoRow, Login, Idle

LEMMA StepTellsKind ==
  ASSUME NEW request \in Request \union Resolved \union {Idle}
  PROVE  /\ request.step = "idle" => request = Idle
         /\ request.step = "resolved" => request \in Resolved
         /\ request.step \notin {"idle", "resolved"} => request \in Request
         /\ request \in Request => request.step \notin {"idle", "resolved"} /\ request # Idle
         /\ request \in Resolved => request.step = "resolved"
BY DEF Request, Resolved, Idle, Ended

\* Typing needs two facts more: a request past its authorisation has found its target,
\* and only an assignment deletes roles.
RequestFact(request) ==
  request \in Request =>
    /\ request.intent.target \in Known
    /\ request.step \in {"deleting", "deleted"} => request.intent.kind = "roles"

TypeInv == TypeOK /\ \A r \in Requests : RequestFact(requests[r])

LEMMA IntentKinds ==
  ASSUME NEW intent \in Intent
  PROVE  /\ intent.target \in Users
         /\ intent.kind = "roles" => intent.roles \in SUBSET Roles
         /\ intent.kind = "active" => intent.active \in BOOLEAN
         /\ intent.kind \in {"roles", "active", "revoke"}
BY DEF Intent

LEMMA TypeInit == Init => TypeInv
BY StepTellsKind DEF Init, TypeInv, TypeOK, RequestFact, Idle

----------------------------------------------------------------------------
\* Accounts stay.

UsersStay ==
  /\ users' \in [Users -> Account \union {NoAccount}]
  /\ Known \subseteq Known'

LEMMA UsersUnchanged == ASSUME TypeInv, UNCHANGED users PROVE UsersStay
BY DEF UsersStay, Known, TypeInv, TypeOK

LEMMA UsersChanged ==
  ASSUME TypeInv, NEW u \in Users, NEW account \in Account,
         users' = [users EXCEPT ![u] = account]
  PROVE  UsersStay
BY Sentinels DEF UsersStay, Known, TypeInv, TypeOK

LEMMA UpsertTyped ==
  ASSUME TypeInv, NEW l \in Logins, NEW u \in Users, NEW asserted \in SUBSET Roles,
         Upsert(l, u, asserted)
  PROVE  UsersStay
<1> DEFINE account ==
      [active |-> TRUE,
       roles |-> IF u \in Known /\ users[u].roles # {} THEN users[u].roles ELSE asserted]
<1>1. u \in Known => users[u] \in Account
  BY DEF Known, TypeInv, TypeOK
<1>2. account \in Account
  BY <1>1 DEF Account
<1>3. users' = [users EXCEPT ![u] = account]
  BY DEF Upsert
<1> HIDE DEF account
<1> QED BY <1>2, <1>3, UsersChanged

LEMMA CommitTyped ==
  ASSUME TypeInv, NEW r \in Requests, CommitRoles(r)
  PROVE  UsersStay
<1> DEFINE u == requests[r].intent.target
           account == [users[u] EXCEPT !.roles = RolesReplaced(r)]
<1>1. requests[r] \in Request /\ u \in Known /\ requests[r].intent.kind = "roles"
  BY StepTellsKind DEF CommitRoles, TypeInv, TypeOK, RequestFact
<1>2. requests[r].intent.roles \in SUBSET Roles
  BY <1>1, IntentKinds DEF Request
<1>3. u \in Users /\ users[u] \in Account
  BY <1>1 DEF Known, TypeInv, TypeOK
<1>4. RolesReplaced(r) \in SUBSET Roles
  BY <1>2, <1>3 DEF RolesReplaced, Account
<1>5. account \in Account
  BY <1>3, <1>4 DEF Account
<1>6. users' = [users EXCEPT ![u] = account]
  BY DEF CommitRoles
<1> HIDE DEF u, account
<1> QED BY <1>3, <1>5, <1>6, UsersChanged

LEMMA SetActiveTyped ==
  ASSUME TypeInv, NEW r \in Requests, SetActive(r)
  PROVE  UsersStay
<1> DEFINE u == requests[r].intent.target
           account == [users[u] EXCEPT !.active = requests[r].intent.active]
<1>1. requests[r] \in Request /\ u \in Known /\ requests[r].intent.kind = "active"
  BY StepTellsKind DEF SetActive, TypeInv, TypeOK, RequestFact
<1>2. requests[r].intent.active \in BOOLEAN
  BY <1>1, IntentKinds DEF Request
<1>3. u \in Users /\ users[u] \in Account
  BY <1>1 DEF Known, TypeInv, TypeOK
<1>5. account \in Account
  BY <1>2, <1>3 DEF Account
<1>6. users' = [users EXCEPT ![u] = account]
  BY DEF SetActive
<1> HIDE DEF u, account
<1> QED BY <1>3, <1>5, <1>6, UsersChanged

LEMMA EveryStepKeepsUsers == TypeInv /\ [Next]_vars => UsersStay
<1> SUFFICES ASSUME TypeInv, [Next]_vars PROVE UsersStay
  OBVIOUS
<1>1. ASSUME NEW l \in Logins, ReadRoles(l) \/ AbandonLogin(l)
                                 \/ \E s \in Sessions : InsertSession(l, s)
      PROVE  UNCHANGED users
  BY <1>1 DEF ReadRoles, AbandonLogin, InsertSession
<1>2. ASSUME NEW s \in Sessions, EndSession(s) PROVE UNCHANGED users
  BY <1>2 DEF EndSession
<1>3. ASSUME NEW r \in Requests,
             \/ \E s \in Sessions : Resolve(r, s)
             \/ \E intent \in Intent : Authorise(r, intent)
             \/ Check(r) \/ BeginDelete(r) \/ Delete(r) \/ Revoke(r) \/ Die(r)
      PROVE  UNCHANGED users
  BY <1>3 DEF Resolve, Authorise, Check, BeginDelete, Delete, Revoke, Die
<1> QED BY <1>1, <1>2, <1>3, UsersUnchanged, UpsertTyped, CommitTyped, SetActiveTyped DEF Next, vars

----------------------------------------------------------------------------
\* Requests stay requests.

RequestsStay ==
  /\ requests' \in [Requests -> Request \union Resolved \union {Idle}]
  /\ \A r \in Requests : RequestFact(requests[r])'

LEMMA RequestsUnchanged ==
  ASSUME TypeInv, UsersStay, UNCHANGED requests PROVE RequestsStay
BY DEF RequestsStay, UsersStay, RequestFact, TypeInv, TypeOK

LEMMA RequestChanged ==
  ASSUME TypeInv, UsersStay, NEW r \in Requests,
         NEW request \in Request \union Resolved \union {Idle}, RequestFact(request),
         requests' = [requests EXCEPT ![r] = request]
  PROVE  RequestsStay
BY DEF RequestsStay, UsersStay, RequestFact, TypeInv, TypeOK

\* A request that only moves on keeps its type.
LEMMA RequestMoved ==
  ASSUME TypeInv, UsersStay, NEW r \in Requests, requests[r] \in Request,
         NEW step \in {"authorised", "checked", "deleted", "landed"} \union Ended,
         step = "deleted" => requests[r].intent.kind = "roles",
         requests' = [requests EXCEPT ![r] = [requests[r] EXCEPT !.step = step]]
  PROVE  RequestsStay
<1> DEFINE request == [requests[r] EXCEPT !.step = step]
<1>1. /\ request \in Request /\ request.intent = requests[r].intent
      /\ request.step = step
  BY DEF Request, Ended
<1>2. RequestFact(requests[r])
  BY DEF TypeInv
<1>3. requests' = [requests EXCEPT ![r] = request]
  OBVIOUS
<1>4. step # "deleting"
  BY DEF Ended
<1> HIDE DEF request
<1>5. RequestFact(request)
  BY <1>1, <1>2, <1>4 DEF RequestFact
<1> QED BY <1>1, <1>3, <1>5, RequestChanged

LEMMA ResolveTyped ==
  ASSUME TypeInv, UsersStay, NEW r \in Requests, NEW s \in Sessions, Resolve(r, s)
  PROVE  RequestsStay
<1> DEFINE request == [step |-> "resolved", actor |-> sessions[s].user]
<1>1. sessions[s] \in Session
  BY Sentinels DEF Resolve, TypeInv, TypeOK
<1>2. request \in Resolved
  BY <1>1 DEF Session, Resolved
<1>3. requests' = [requests EXCEPT ![r] = request] /\ request.step = "resolved"
  BY DEF Resolve
<1> HIDE DEF request
<1>4. RequestFact(request)
  BY <1>2, <1>3, StepTellsKind DEF RequestFact
<1> QED BY <1>2, <1>3, <1>4, RequestChanged

LEMMA AuthoriseTyped ==
  ASSUME TypeInv, UsersStay, NEW r \in Requests, NEW intent \in Intent, Authorise(r, intent)
  PROVE  RequestsStay
<1> DEFINE step == IF intent.kind = "revoke" THEN "landed" ELSE "authorised"
           request == [step |-> step, actor |-> requests[r].actor, intent |-> intent,
                       seen |-> {}, doomed |-> {}]
<1>1. requests[r] \in Resolved
  BY StepTellsKind DEF Authorise, TypeInv, TypeOK
<1>2. request \in Request
  BY <1>1 DEF Request, Resolved
<1>3. requests' = [requests EXCEPT ![r] = request] /\ intent.target \in Known
  BY DEF Authorise
<1>4. request.intent = intent /\ request.step \in {"landed", "authorised"}
  OBVIOUS
<1> HIDE DEF request
<1>5. RequestFact(request)
  BY <1>3, <1>4 DEF RequestFact
<1> QED BY <1>2, <1>3, <1>5, RequestChanged

LEMMA CheckTyped ==
  ASSUME TypeInv, UsersStay, NEW r \in Requests, Check(r)
  PROVE  RequestsStay
<1>1. requests[r] \in Request /\ RequestFact(requests[r])
  BY StepTellsKind DEF Check, TypeInv, TypeOK
<1>2. PICK step \in {"checked", "refused"} :
        requests' = [requests EXCEPT ![r].seen = ActiveOwners, ![r].step = step]
  BY DEF Check
<1> DEFINE request == [requests[r] EXCEPT !.seen = ActiveOwners, !.step = step]
<1>3. requests' = [requests EXCEPT ![r] = request]
  BY <1>2
<1>4. ActiveOwners \in SUBSET Users
  BY DEF ActiveOwners, Known
<1>5. request \in Request /\ request.intent = requests[r].intent /\ request.step = step
  BY <1>1, <1>4 DEF Request, Ended
<1> HIDE DEF request
<1>6. RequestFact(request)
  BY <1>1, <1>5 DEF RequestFact
<1> QED BY <1>3, <1>5, <1>6, RequestChanged

LEMMA BeginDeleteTyped ==
  ASSUME TypeInv, UsersStay, NEW r \in Requests, BeginDelete(r)
  PROVE  RequestsStay
<1> DEFINE u == requests[r].intent.target
           request == [requests[r] EXCEPT !.step = "deleting", !.doomed = users[u].roles]
<1>1. /\ requests[r] \in Request /\ RequestFact(requests[r])
      /\ requests[r].intent.kind = "roles"
  BY StepTellsKind DEF BeginDelete, TypeInv, TypeOK
<1>2. users[u].roles \in SUBSET Roles
  BY <1>1 DEF RequestFact, Known, Account, TypeInv, TypeOK
<1>3. requests' = [requests EXCEPT ![r] = request]
  BY DEF BeginDelete
<1> HIDE DEF u
<1>4. request \in Request /\ request.intent = requests[r].intent
  BY <1>1, <1>2 DEF Request
<1> HIDE DEF request
<1>5. RequestFact(request)
  BY <1>1, <1>4 DEF RequestFact
<1> QED BY <1>3, <1>4, <1>5, RequestChanged

\* A commit touches the other requests too, but only what their DELETE still has to do.
LEMMA CommitRequestsTyped ==
  ASSUME TypeInv, UsersStay, NEW r \in Requests, CommitRoles(r)
  PROVE  RequestsStay
<1>1. requests[r] \in Request
  BY StepTellsKind DEF CommitRoles, TypeInv, TypeOK
<1>2. ASSUME NEW other \in Requests
      PROVE  /\ requests'[other] \in Request \union Resolved \union {Idle}
             /\ RequestFact(requests[other])'
  <2> USE DEF TypeInv, TypeOK
  <2>1. CASE other = r
    <3>1. requests'[r] = [requests[r] EXCEPT !.step = "landed"]
      BY DEF CommitRoles
    <3>2. [requests[r] EXCEPT !.step = "landed"] \in Request
          /\ [requests[r] EXCEPT !.step = "landed"].intent = requests[r].intent
          /\ [requests[r] EXCEPT !.step = "landed"].step = "landed"
      BY <1>1 DEF Request
    <3> QED BY <1>1, <2>1, <3>1, <3>2 DEF RequestFact, UsersStay
  <2>2. CASE requests'[other] = requests[other]
    BY <2>2 DEF RequestFact, UsersStay
  <2>3. CASE /\ requests'[other] = [requests[other] EXCEPT !.doomed = @ \ requests[r].doomed]
             /\ requests[other].step = "deleting"
    <3>1. requests[other] \in Request
      BY <2>3, StepTellsKind
    <3>2. /\ requests'[other] \in Request
          /\ requests'[other].intent = requests[other].intent
          /\ requests'[other].step = requests[other].step
      BY <2>3, <3>1 DEF Request
    <3> QED BY <3>1, <3>2 DEF RequestFact, UsersStay
  <2> QED BY <2>1, <2>2, <2>3 DEF CommitRoles
<1>3. requests' \in [Requests -> Request \union Resolved \union {Idle}]
  BY <1>2 DEF CommitRoles
<1> QED BY <1>2, <1>3 DEF RequestsStay

LEMMA EveryStepKeepsRequests == TypeInv /\ [Next]_vars => RequestsStay
<1> SUFFICES ASSUME TypeInv, [Next]_vars PROVE RequestsStay
  OBVIOUS
<1>0. UsersStay
  BY EveryStepKeepsUsers
<1>1. ASSUME NEW l \in Logins,
             \/ ReadRoles(l) \/ AbandonLogin(l)
             \/ \E s \in Sessions : InsertSession(l, s)
             \/ \E u \in Users, asserted \in SUBSET Roles : Upsert(l, u, asserted)
      PROVE  UNCHANGED requests
  BY <1>1 DEF ReadRoles, AbandonLogin, InsertSession, Upsert
<1>2. ASSUME NEW s \in Sessions, EndSession(s) PROVE UNCHANGED requests
  BY <1>2 DEF EndSession
<1>3. ASSUME NEW r \in Requests, SetActive(r) PROVE RequestsStay
  <2>1. requests[r] \in Request
    BY <1>3, StepTellsKind DEF SetActive, TypeInv, TypeOK
  <2>2. PICK step \in {"ended", "landed"} :
          requests' = [requests EXCEPT ![r] = [requests[r] EXCEPT !.step = step]]
    BY <1>3 DEF SetActive
  <2> QED BY <1>0, <2>1, <2>2, RequestMoved DEF Ended
<1>4. ASSUME NEW r \in Requests, Delete(r) \/ Revoke(r) PROVE RequestsStay
  <2>1. requests[r] \in Request /\ RequestFact(requests[r])
    BY <1>4, StepTellsKind DEF Delete, Revoke, TypeInv, TypeOK
  <2>2. PICK step \in {"deleted", "ended"} :
          /\ requests' = [requests EXCEPT ![r] = [requests[r] EXCEPT !.step = step]]
          /\ step = "deleted" => requests[r].step = "deleting"
    BY <1>4 DEF Delete, Revoke
  <2> QED BY <1>0, <2>1, <2>2, RequestMoved DEF Ended, RequestFact
<1>5. ASSUME NEW r \in Requests, Die(r) PROVE RequestsStay
  <2>1. CASE requests' = [requests EXCEPT ![r] = Idle]
    <3>1. RequestFact(Idle)
      BY StepTellsKind, Sentinels DEF RequestFact
    <3> QED BY <1>0, <2>1, <3>1, RequestChanged
  <2>2. CASE requests[r].step # "resolved"
    <3>1. requests[r] \in Request
      BY <1>5, <2>2, StepTellsKind DEF Die, TypeInv, TypeOK
    <3>2. PICK step \in {"unrevoked", "died"} :
            requests' = [requests EXCEPT ![r] = [requests[r] EXCEPT !.step = step]]
      BY <1>5, <2>2 DEF Die
    <3> QED BY <1>0, <3>1, <3>2, RequestMoved DEF Ended
  <2> QED BY <1>5, <2>1, <2>2 DEF Die
<1> QED BY <1>0, <1>1, <1>2, <1>3, <1>4, <1>5, RequestsUnchanged, ResolveTyped, AuthoriseTyped,
           CheckTyped, BeginDeleteTyped, CommitRequestsTyped
        DEF Next, vars

----------------------------------------------------------------------------
\* Sessions and sign-ins.

\* Ageing and revoking touch only `stale` and `live`.
LEMMA SessionsAged ==
  ASSUME TypeOK, NEW u
  PROVE  /\ Aged(u) \in [Sessions -> Session \union {NoRow}]
         /\ \A s \in Sessions :
              Aged(u)[s].live =>
                /\ sessions[s].live
                /\ Aged(u)[s].user = sessions[s].user
                /\ Aged(u)[s].stale => sessions[s].stale \/ sessions[s].user = u
<1>1. ASSUME NEW s \in Sessions
      PROVE  /\ Aged(u)[s] \in Session \union {NoRow}
             /\ Aged(u)[s].live =>
                  /\ sessions[s].live
                  /\ Aged(u)[s].user = sessions[s].user
                  /\ Aged(u)[s].stale => sessions[s].stale \/ sessions[s].user = u
  <2>1. sessions[s] \in Session \union {NoRow}
    BY DEF TypeOK
  <2>2. CASE sessions[s] # NoRow /\ sessions[s].user = u
    <3>1. Aged(u)[s] = [sessions[s] EXCEPT !.stale = TRUE]
      BY <2>2 DEF Aged
    <3> QED BY <2>1, <2>2, <3>1 DEF Session
  <2>3. CASE ~(sessions[s] # NoRow /\ sessions[s].user = u)
    BY <2>1, <2>3 DEF Aged
  <2> QED BY <2>2, <2>3
<1> QED BY <1>1 DEF Aged

LEMMA SessionsRevoked ==
  ASSUME TypeOK, NEW u
  PROVE  /\ Revoked(u) \in [Sessions -> Session \union {NoRow}]
         /\ \A s \in Sessions :
              Revoked(u)[s].live => Revoked(u)[s] = sessions[s] /\ sessions[s].user # u
<1>1. ASSUME NEW s \in Sessions
      PROVE  /\ Revoked(u)[s] \in Session \union {NoRow}
             /\ Revoked(u)[s].live => Revoked(u)[s] = sessions[s] /\ sessions[s].user # u
  <2>1. sessions[s] \in Session \union {NoRow}
    BY DEF TypeOK
  <2>2. CASE sessions[s].live /\ sessions[s].user = u
    <3>1. Revoked(u)[s] = [sessions[s] EXCEPT !.live = FALSE]
      BY <2>2 DEF Revoked
    <3>2. sessions[s] \in Session
      BY <2>1, <2>2, Sentinels
    <3> QED BY <3>1, <3>2 DEF Session
  <2>3. CASE ~(sessions[s].live /\ sessions[s].user = u)
    BY <2>1, <2>3 DEF Revoked
  <2> QED BY <2>2, <2>3
<1> QED BY <1>1 DEF Revoked

LEMMA SessionsStayTyped ==
  TypeInv /\ [Next]_vars => sessions' \in [Sessions -> Session \union {NoRow}]
<1> SUFFICES ASSUME TypeInv, [Next]_vars
             PROVE  sessions' \in [Sessions -> Session \union {NoRow}]
  OBVIOUS
<1> USE DEF TypeInv
<1>1. CASE UNCHANGED sessions
  BY <1>1 DEF TypeOK
<1>2. ASSUME NEW r \in Requests, CommitRoles(r) \/ SetActive(r) \/ Revoke(r)
      PROVE  sessions' \in [Sessions -> Session \union {NoRow}]
  BY <1>2, SessionsAged, SessionsRevoked DEF CommitRoles, SetActive, Revoke, TypeOK
<1>3. ASSUME NEW s \in Sessions, EndSession(s)
      PROVE  sessions' \in [Sessions -> Session \union {NoRow}]
  <2>1. sessions[s] \in Session
    BY <1>3, Sentinels DEF EndSession, TypeOK
  <2>2. [sessions[s] EXCEPT !.live = FALSE] \in Session
    BY <2>1 DEF Session
  <2> QED BY <1>3, <2>2 DEF EndSession, TypeOK
<1>4. ASSUME NEW l \in Logins, NEW s \in Sessions, InsertSession(l, s)
      PROVE  sessions' \in [Sessions -> Session \union {NoRow}]
  <2>1. logins[l] \in Login
    BY <1>4, Sentinels DEF InsertSession, TypeOK
  <2>2. [user |-> logins[l].user, live |-> TRUE, stale |-> FALSE] \in Session
    BY <2>1 DEF Session, Login
  <2> QED BY <1>4, <2>2 DEF InsertSession, TypeOK
<1>5. ASSUME NEW r \in Requests,
             \/ \E s \in Sessions : Resolve(r, s)
             \/ \E intent \in Intent : Authorise(r, intent)
             \/ Check(r) \/ BeginDelete(r) \/ Delete(r) \/ Die(r)
      PROVE  UNCHANGED sessions
  BY <1>5 DEF Resolve, Authorise, Check, BeginDelete, Delete, Die
<1>6. ASSUME NEW l \in Logins,
             \/ ReadRoles(l) \/ AbandonLogin(l)
             \/ \E u \in Users, asserted \in SUBSET Roles : Upsert(l, u, asserted)
      PROVE  UNCHANGED sessions
  BY <1>6 DEF ReadRoles, AbandonLogin, Upsert
<1> QED BY <1>1, <1>2, <1>3, <1>4, <1>5, <1>6 DEF Next, vars

LEMMA LoginsStayTyped ==
  TypeInv /\ [Next]_vars => logins' \in [Logins -> Login \union {Idle}]
<1> SUFFICES ASSUME TypeInv, [Next]_vars
             PROVE  logins' \in [Logins -> Login \union {Idle}]
  OBVIOUS
<1> USE DEF TypeInv, TypeOK
<1>1. CASE UNCHANGED logins
  BY <1>1
<1>2. ASSUME NEW l \in Logins, NEW u \in Users, NEW asserted \in SUBSET Roles,
             Upsert(l, u, asserted)
      PROVE  logins' \in [Logins -> Login \union {Idle}]
  BY <1>2 DEF Upsert, Login
<1>3. ASSUME NEW l \in Logins, logins' = [logins EXCEPT ![l] = Idle]
      PROVE  logins' \in [Logins -> Login \union {Idle}]
  BY <1>3
<1>4. ASSUME NEW l \in Logins, ReadRoles(l)
      PROVE  logins' \in [Logins -> Login \union {Idle}]
  <2>1. logins[l] \in Login
    BY <1>4, Sentinels DEF ReadRoles
  <2>2. [logins[l] EXCEPT !.step = "authorised"] \in Login
    BY <2>1 DEF Login
  <2> QED BY <1>4, <2>2 DEF ReadRoles
<1>5. ASSUME NEW r \in Requests,
             \/ \E s \in Sessions : Resolve(r, s)
             \/ \E intent \in Intent : Authorise(r, intent)
             \/ Check(r) \/ BeginDelete(r) \/ Delete(r) \/ CommitRoles(r) \/ SetActive(r)
             \/ Revoke(r) \/ Die(r)
      PROVE  UNCHANGED logins
  BY <1>5 DEF Resolve, Authorise, Check, BeginDelete, Delete, CommitRoles, SetActive, Revoke, Die
<1>6. ASSUME NEW s \in Sessions, EndSession(s) PROVE UNCHANGED logins
  BY <1>6 DEF EndSession
<1> QED BY <1>1, <1>2, <1>3, <1>4, <1>5, <1>6 DEF Next, vars, AbandonLogin, InsertSession

LEMMA TypeStep == TypeInv /\ [Next]_vars => TypeInv'
BY EveryStepKeepsUsers, EveryStepKeepsRequests, SessionsStayTyped, LoginsStayTyped
   DEF TypeInv, TypeOK, UsersStay, RequestsStay

LEMMA TypeInvariant == Spec => []TypeInv
BY TypeInit, TypeStep, PTL DEF Spec

\* Accounts, sessions, requests and sign-ins keep their types.
THEOREM TypeCorrect == Spec => []TypeOK
<1>1. TypeInv => TypeOK
  BY DEF TypeInv
<1> QED BY <1>1, TypeInvariant, PTL

----------------------------------------------------------------------------
\* Stale sessions.

Changing(request, u) ==
  /\ request.step \in {"landed", "unrevoked"}
  /\ request.intent.target = u

\* Only Revoke takes a request out of the states in which it may have sessions to revoke.
LEMMA ChangingLasts ==
  ASSUME TypeInv, [Next]_vars, NEW r \in Requests, NEW u, Changing(requests[r], u)
  PROVE  Revoke(r) \/ Changing(requests'[r], u)
<1> USE DEF TypeInv, TypeOK, Changing
<1>1. requests[r] \in Request
  BY StepTellsKind
<1>2. CASE requests'[r] = requests[r]
  BY <1>2
<1>3. CASE Die(r)
  <2>1. requests'[r] = [requests[r] EXCEPT
                          !.step = IF requests[r].step = "landed" THEN "unrevoked" ELSE "died"]
    BY <1>3 DEF Die
  <2>2. requests[r].step = "landed"
    BY <1>3 DEF Die
  <2> QED BY <1>1, <2>1, <2>2 DEF Request
<1>4. ASSUME NEW other \in Requests, CommitRoles(other) PROVE requests'[r] = requests[r]
  BY <1>4 DEF CommitRoles
<1>5. ASSUME NEW other \in Requests,
             \/ \E s \in Sessions : Resolve(other, s)
             \/ \E intent \in Intent : Authorise(other, intent)
             \/ Check(other) \/ BeginDelete(other) \/ Delete(other) \/ SetActive(other)
      PROVE  requests'[r] = requests[r]
  BY <1>5, Sentinels DEF Resolve, Authorise, Check, BeginDelete, Delete, SetActive
<1>6. ASSUME NEW other \in Requests, other # r, Revoke(other) \/ Die(other)
      PROVE  requests'[r] = requests[r]
  BY <1>6 DEF Revoke, Die
<1>7. ASSUME NEW l \in Logins,
             \/ ReadRoles(l) \/ AbandonLogin(l)
             \/ \E s \in Sessions : InsertSession(l, s)
             \/ \E v \in Users, asserted \in SUBSET Roles : Upsert(l, v, asserted)
      PROVE  requests'[r] = requests[r]
  BY <1>7 DEF ReadRoles, AbandonLogin, InsertSession, Upsert
<1>8. ASSUME NEW s \in Sessions, EndSession(s) PROVE requests'[r] = requests[r]
  BY <1>8 DEF EndSession
<1> QED BY <1>2, <1>3, <1>4, <1>5, <1>6, <1>7, <1>8 DEF Next, vars

\* Where a live stale session of the next state comes from.
LEMMA StaleComesFrom ==
  ASSUME TypeInv, [Next]_vars, NEW s \in Sessions, sessions'[s].live, sessions'[s].stale
  PROVE  \/ /\ sessions[s].live /\ sessions[s].stale /\ sessions'[s].user = sessions[s].user
            /\ \A r \in Requests : Revoke(r) => requests[r].intent.target # sessions[s].user
         \/ \E r \in Requests : Changing(requests'[r], sessions'[s].user)
<1> USE DEF TypeInv
<1>1. ASSUME NEW r \in Requests, Revoke(r)
      PROVE  /\ sessions[s].live /\ sessions[s].stale /\ sessions'[s].user = sessions[s].user
             /\ requests[r].intent.target # sessions[s].user
  BY <1>1, SessionsRevoked DEF Revoke
<1>2. ASSUME \A r \in Requests : ~Revoke(r)
      PROVE  \/ /\ sessions[s].live /\ sessions[s].stale /\ sessions'[s].user = sessions[s].user
             \/ \E r \in Requests : Changing(requests'[r], sessions'[s].user)
  <2>1. CASE sessions'[s] = sessions[s]
    BY <2>1
  <2>2. ASSUME NEW r \in Requests, CommitRoles(r) \/ SetActive(r),
               sessions' = Aged(requests[r].intent.target), requests'[r].step = "landed",
               requests'[r].intent = requests[r].intent
        PROVE  \/ /\ sessions[s].live /\ sessions[s].stale /\ sessions'[s].user = sessions[s].user
               \/ \E q \in Requests : Changing(requests'[q], sessions'[s].user)
    BY <2>2, SessionsAged DEF Changing
  <2>3. ASSUME NEW r \in Requests, CommitRoles(r)
        PROVE  /\ sessions' = Aged(requests[r].intent.target)
               /\ requests'[r].step = "landed" /\ requests'[r].intent = requests[r].intent
    <3>1. requests[r] \in Request
      BY <2>3, StepTellsKind DEF CommitRoles, TypeOK
    <3>2. requests'[r] = [requests[r] EXCEPT !.step = "landed"]
      BY <2>3 DEF CommitRoles
    <3> QED BY <2>3, <3>1, <3>2 DEF CommitRoles, Request
  <2>4. ASSUME NEW r \in Requests, SetActive(r), ~UNCHANGED sessions
        PROVE  /\ sessions' = Aged(requests[r].intent.target)
               /\ requests'[r].step = "landed" /\ requests'[r].intent = requests[r].intent
    <3>1. requests[r] \in Request
      BY <2>4, StepTellsKind DEF SetActive, TypeOK
    <3>2. requests'[r] = [requests[r] EXCEPT !.step = "landed"]
      BY <2>4 DEF SetActive, TypeOK
    <3> QED BY <2>4, <3>1, <3>2 DEF SetActive, Request
  <2>5. ASSUME NEW l \in Logins, NEW t \in Sessions, InsertSession(l, t)
        PROVE  sessions'[s] = sessions[s]
    BY <2>5 DEF InsertSession, TypeOK
  <2>6. ASSUME NEW t \in Sessions, EndSession(t) PROVE sessions'[s] = sessions[s]
    <3>1. sessions[t] \in Session
      BY <2>6, Sentinels DEF EndSession, TypeOK
    <3>2. s # t
      BY <2>6, <3>1 DEF EndSession, Session, TypeOK
    <3> QED BY <2>6, <3>2 DEF EndSession, TypeOK
  <2>7. ASSUME NEW r \in Requests,
               \/ \E t \in Sessions : Resolve(r, t)
               \/ \E intent \in Intent : Authorise(r, intent)
               \/ Check(r) \/ BeginDelete(r) \/ Delete(r) \/ Die(r)
        PROVE  sessions'[s] = sessions[s]
    BY <2>7 DEF Resolve, Authorise, Check, BeginDelete, Delete, Die
  <2>8. ASSUME NEW l \in Logins,
               \/ ReadRoles(l) \/ AbandonLogin(l)
               \/ \E u \in Users, asserted \in SUBSET Roles : Upsert(l, u, asserted)
        PROVE  sessions'[s] = sessions[s]
    BY <2>8 DEF ReadRoles, AbandonLogin, Upsert
  <2> QED BY <1>2, <2>1, <2>2, <2>3, <2>4, <2>5, <2>6, <2>7, <2>8 DEF Next, vars
<1> QED BY <1>1, <1>2

LEMMA StaleByChanging ==
  StaleSessionsAreRevoked <=>
    \A s \in Sessions : sessions[s].live /\ sessions[s].stale =>
      \E r \in Requests : Changing(requests[r], sessions[s].user)
BY DEF StaleSessionsAreRevoked, Changing

LEMMA StaleStep ==
  TypeInv /\ StaleSessionsAreRevoked /\ [Next]_vars => StaleSessionsAreRevoked'
<1> SUFFICES ASSUME TypeInv, StaleSessionsAreRevoked, [Next]_vars,
                    NEW s \in Sessions, sessions'[s].live, sessions'[s].stale
             PROVE  \E r \in Requests : Changing(requests'[r], sessions'[s].user)
  BY DEF StaleSessionsAreRevoked, Changing
<1>1. CASE \E r \in Requests : Changing(requests'[r], sessions'[s].user)
  BY <1>1
<1>2. CASE /\ sessions[s].live /\ sessions[s].stale /\ sessions'[s].user = sessions[s].user
           /\ \A r \in Requests : Revoke(r) => requests[r].intent.target # sessions[s].user
  <2>1. PICK r \in Requests : Changing(requests[r], sessions[s].user)
    BY <1>2, StaleByChanging
  <2>2. ~Revoke(r)
    BY <1>2, <2>1 DEF Changing
  <2> QED BY <1>2, <2>1, <2>2, ChangingLasts
<1> QED BY <1>1, <1>2, StaleComesFrom

\* A session older than a change of its user's roles or activity lives only until the
\* request that made the change revokes it.
THEOREM StaleSessionsAreRevokedHolds == Spec => []StaleSessionsAreRevoked
<1>1. Init => StaleSessionsAreRevoked
  BY DEF Init, StaleSessionsAreRevoked, NoRow
<1> QED BY <1>1, StaleStep, TypeInvariant, PTL DEF Spec

----------------------------------------------------------------------------
\* Owners.

\* A request allowed to take an owner had seen another one.
SawAnother(request) ==
  request.step \in {"checked", "deleting", "deleted"} /\ TakesOwner(request.intent) =>
    request.seen \ {request.intent.target} # {}

OwnersCounted == \A r \in Requests : SawAnother(requests[r])

\* The roles an assignment has found are the ones its user has, or there were none, or
\* another assignment of that user has been committed.
AnotherAssigned(r) ==
  \E other \in Requests \ {r} :
    /\ requests[other].step \in {"landed", "ended", "unrevoked"}
    /\ requests[other].intent.kind = "roles"
    /\ requests[other].intent.target = requests[r].intent.target

FoundRoles(r) ==
  requests[r].step \in {"deleting", "deleted"} =>
    \/ requests[r].doomed = users[requests[r].intent.target].roles
    \/ requests[r].doomed = {}
    \/ AnotherAssigned(r)

RolesFound == \A r \in Requests : FoundRoles(r)

LEMMA OwnersCountedStep ==
  TypeInv /\ OwnersCounted /\ [Next]_vars => OwnersCounted'
<1> SUFFICES ASSUME TypeInv, OwnersCounted, [Next]_vars, NEW r \in Requests
             PROVE  SawAnother(requests[r])'
  BY DEF OwnersCounted
<1>0. SawAnother(requests[r]) /\ requests[r] \in Request \union Resolved \union {Idle}
  BY DEF OwnersCounted, TypeInv, TypeOK
<1> USE DEF TypeInv, TypeOK
<1>1. CASE requests'[r] = requests[r]
  BY <1>0, <1>1 DEF SawAnother
<1>2. ASSUME NEW s \in Sessions, Resolve(r, s) PROVE SawAnother(requests[r])'
  BY <1>2 DEF Resolve, SawAnother
<1>3. ASSUME NEW intent \in Intent, Authorise(r, intent) PROVE SawAnother(requests[r])'
  BY <1>3 DEF Authorise, SawAnother
<1>4. CASE Check(r)
  <2> DEFINE intent == requests[r].intent
  <2>1. requests[r] \in Request
    BY <1>4, <1>0, StepTellsKind DEF Check
  <2>2. PICK step \in {"checked", "refused"} :
          /\ requests'[r] = [requests[r] EXCEPT !.seen = ActiveOwners, !.step = step]
          /\ step = "checked" /\ TakesOwner(intent) => OtherActiveOwners(intent.target) # {}
    BY <1>4 DEF Check
  <2>3. /\ requests'[r].intent = intent /\ requests'[r].seen = ActiveOwners
        /\ requests'[r].step = step
    BY <2>1, <2>2 DEF Request
  <2>4. OtherActiveOwners(intent.target) = ActiveOwners \ {intent.target}
    BY DEF OtherActiveOwners, ActiveOwners
  <2> HIDE DEF intent
  <2> QED BY <2>2, <2>3, <2>4 DEF SawAnother, TakesOwner
<1>5. ASSUME NEW step, NEW doomed,
             \/ requests'[r] = [requests[r] EXCEPT !.step = step]
             \/ requests'[r] = [requests[r] EXCEPT !.step = step, !.doomed = doomed],
             \/ step \notin {"checked", "deleting", "deleted"}
             \/ requests[r].step \in {"checked", "deleting", "deleted"},
             requests[r] \in Request
      PROVE  SawAnother(requests[r])'
  <2>1. /\ requests'[r].intent = requests[r].intent /\ requests'[r].seen = requests[r].seen
        /\ requests'[r].step = step
    BY <1>5 DEF Request
  <2> QED BY <1>0, <1>5, <2>1 DEF SawAnother, TakesOwner
<1>6. CASE BeginDelete(r)
  BY <1>0, <1>5, <1>6, StepTellsKind DEF BeginDelete
<1>7. CASE Delete(r)
  <2>1. PICK step \in {"deleted"} : requests'[r] = [requests[r] EXCEPT !.step = step]
    BY <1>7 DEF Delete
  <2> QED BY <1>0, <1>5, <1>7, <2>1, StepTellsKind DEF Delete
<1>8. CASE Revoke(r)
  <2>1. PICK step \in {"ended"} : requests'[r] = [requests[r] EXCEPT !.step = step]
    BY <1>8 DEF Revoke
  <2> QED BY <1>0, <1>5, <1>8, <2>1, StepTellsKind DEF Revoke
<1>9. CASE SetActive(r)
  <2>1. PICK step \in {"ended", "landed"} : requests'[r] = [requests[r] EXCEPT !.step = step]
    BY <1>9 DEF SetActive
  <2> QED BY <1>0, <1>5, <1>9, <2>1, StepTellsKind DEF SetActive
<1>10. CASE Die(r)
  <2>1. CASE requests'[r] = Idle
    BY <2>1, Sentinels DEF SawAnother
  <2>2. CASE requests[r].step # "resolved"
    <3>1. PICK step \in {"unrevoked", "died"} : requests'[r] = [requests[r] EXCEPT !.step = step]
      BY <1>10, <2>2 DEF Die
    <3> QED BY <1>0, <1>5, <1>10, <2>2, <3>1, StepTellsKind DEF Die
  <2> QED BY <1>10, <2>1, <2>2 DEF Die
<1>11. ASSUME NEW other \in Requests, CommitRoles(other) PROVE SawAnother(requests[r])'
  <2>1. CASE other = r
    <3>1. requests'[r] = [requests[r] EXCEPT !.step = "landed"]
      BY <1>11, <2>1 DEF CommitRoles
    <3> QED BY <1>0, <1>5, <1>11, <2>1, <3>1, StepTellsKind DEF CommitRoles
  <2>2. CASE other # r /\ requests[r].step = "deleting"
    <3>1. requests[r] \in Request
      BY <1>0, <2>2, StepTellsKind
    <3>2. requests'[r] = [requests[r] EXCEPT !.doomed = @ \ requests[other].doomed]
          \/ requests'[r] = requests[r]
      BY <1>11, <2>2 DEF CommitRoles
    <3>3. /\ requests'[r].intent = requests[r].intent /\ requests'[r].seen = requests[r].seen
          /\ requests'[r].step = requests[r].step
      BY <3>1, <3>2 DEF Request
    <3> QED BY <1>0, <3>3 DEF SawAnother, TakesOwner
  <2>3. CASE other # r /\ requests[r].step # "deleting"
    BY <1>1, <1>11, <2>3 DEF CommitRoles
  <2> QED BY <2>1, <2>2, <2>3
<1>12. ASSUME NEW other \in Requests, other # r,
              \/ \E s \in Sessions : Resolve(other, s)
              \/ \E intent \in Intent : Authorise(other, intent)
              \/ Check(other) \/ BeginDelete(other) \/ Delete(other) \/ SetActive(other)
              \/ Revoke(other) \/ Die(other)
       PROVE  requests'[r] = requests[r]
  BY <1>12 DEF Resolve, Authorise, Check, BeginDelete, Delete, SetActive, Revoke, Die
<1>13. ASSUME NEW l \in Logins,
              \/ ReadRoles(l) \/ AbandonLogin(l)
              \/ \E s \in Sessions : InsertSession(l, s)
              \/ \E v \in Users, asserted \in SUBSET Roles : Upsert(l, v, asserted)
       PROVE  requests'[r] = requests[r]
  BY <1>13 DEF ReadRoles, AbandonLogin, InsertSession, Upsert
<1>14. ASSUME NEW s \in Sessions, EndSession(s) PROVE requests'[r] = requests[r]
  BY <1>14 DEF EndSession
<1> QED BY <1>1, <1>2, <1>3, <1>4, <1>6, <1>7, <1>8, <1>9, <1>10, <1>11, <1>12, <1>13, <1>14
        DEF Next, vars

LEMMA OwnersCountedInvariant == Spec => []OwnersCounted
<1>1. Init => OwnersCounted
  BY DEF Init, OwnersCounted, SawAnother, Idle
<1> QED BY <1>1, OwnersCountedStep, TypeInvariant, PTL DEF Spec

\* A step that leaves no active owner is the change of a request allowed to take one.
LEMMA OwnersTaken ==
  ASSUME TypeInv, [Next]_vars, ActiveOwners # {}, ActiveOwners' = {}
  PROVE  \E r \in Requests :
           /\ requests'[r] # requests[r]
           /\ requests[r].step \in {"checked", "deleting", "deleted"}
           /\ TakesOwner(requests[r].intent)
<1> USE DEF TypeInv, TypeOK
<1>1. PICK v \in Users : v \in ActiveOwners
  BY DEF ActiveOwners, Known
<1>2. users[v] \in Account /\ users[v].active /\ "owner" \in users[v].roles
  BY <1>1 DEF ActiveOwners, Known
<1>3. ~(users'[v] \in Account /\ users'[v].active /\ "owner" \in users'[v].roles)
  BY Sentinels DEF ActiveOwners, Known
<1>4. users'[v] # users[v]
  BY <1>2, <1>3
<1>5. ASSUME NEW r \in Requests, CommitRoles(r)
      PROVE  /\ requests'[r] # requests[r]
             /\ requests[r].step \in {"checked", "deleting", "deleted"}
             /\ TakesOwner(requests[r].intent)
  <2>1. requests[r] \in Request /\ requests[r].intent.kind = "roles"
    BY <1>5, StepTellsKind DEF CommitRoles, RequestFact
  <2>2. v = requests[r].intent.target
    BY <1>4, <1>5 DEF CommitRoles
  <2>3. users'[v] = [users[v] EXCEPT !.roles = RolesReplaced(r)]
    BY <1>5, <2>2 DEF CommitRoles
  <2>4. requests[r].intent.roles \in SUBSET Roles
    BY <2>1, IntentKinds DEF Request
  <2>5. users'[v] \in Account /\ users'[v].active = users[v].active
        /\ users'[v].roles = RolesReplaced(r)
    BY <1>2, <2>2, <2>3, <2>4 DEF Account, RolesReplaced
  <2>6. "owner" \notin requests[r].intent.roles
    BY <1>2, <1>3, <2>5 DEF RolesReplaced
  <2>7. requests'[r] = [requests[r] EXCEPT !.step = "landed"]
    BY <1>5 DEF CommitRoles
  <2>8. requests'[r].step = "landed"
    BY <2>1, <2>7 DEF Request
  <2> QED BY <1>5, <2>1, <2>6, <2>8 DEF CommitRoles, TakesOwner
<1>6. ASSUME NEW r \in Requests, SetActive(r)
      PROVE  /\ requests'[r] # requests[r]
             /\ requests[r].step \in {"checked", "deleting", "deleted"}
             /\ TakesOwner(requests[r].intent)
  <2>1. requests[r] \in Request /\ requests[r].intent.kind = "active"
    BY <1>6, StepTellsKind DEF SetActive
  <2>2. v = requests[r].intent.target
    BY <1>4, <1>6 DEF SetActive
  <2>3. users'[v] = [users[v] EXCEPT !.active = requests[r].intent.active]
    BY <1>6, <2>2 DEF SetActive
  <2>4. requests[r].intent.active \in BOOLEAN
    BY <2>1, IntentKinds DEF Request
  <2>5. users'[v] \in Account /\ users'[v].active = requests[r].intent.active
        /\ users'[v].roles = users[v].roles
    BY <1>2, <2>3, <2>4 DEF Account
  <2>6. ~requests[r].intent.active
    BY <1>2, <1>3, <2>5
  <2>7. PICK step \in {"ended", "landed"} : requests'[r] = [requests[r] EXCEPT !.step = step]
    BY <1>6 DEF SetActive
  <2>8. requests'[r].step \in {"ended", "landed"}
    BY <2>1, <2>7 DEF Request
  <2> QED BY <1>6, <2>1, <2>6, <2>8 DEF SetActive, TakesOwner
<1>7. ASSUME NEW l \in Logins, NEW u \in Users, NEW asserted \in SUBSET Roles,
             Upsert(l, u, asserted)
      PROVE  FALSE
  <2>1. u = v
    BY <1>4, <1>7 DEF Upsert
  <2>2. v \in Known /\ users[v].roles # {}
    BY <1>1, <1>2 DEF ActiveOwners
  <2>3. users'[v] = [active |-> TRUE, roles |-> users[v].roles]
    BY <1>7, <2>1, <2>2 DEF Upsert
  <2> QED BY <1>2, <1>3, <2>3 DEF Account
<1>8. ASSUME NEW r \in Requests,
             \/ \E s \in Sessions : Resolve(r, s)
             \/ \E intent \in Intent : Authorise(r, intent)
             \/ Check(r) \/ BeginDelete(r) \/ Delete(r) \/ Revoke(r) \/ Die(r)
      PROVE  FALSE
  BY <1>4, <1>8 DEF Resolve, Authorise, Check, BeginDelete, Delete, Revoke, Die
<1>9. ASSUME NEW l \in Logins,
             \/ ReadRoles(l) \/ AbandonLogin(l)
             \/ \E s \in Sessions : InsertSession(l, s)
      PROVE  FALSE
  BY <1>4, <1>9 DEF ReadRoles, AbandonLogin, InsertSession
<1>10. ASSUME NEW s \in Sessions, EndSession(s) PROVE FALSE
  BY <1>4, <1>10 DEF EndSession
<1>11. Next
  BY <1>4 DEF vars
<1> QED BY <1>5, <1>6, <1>7, <1>8, <1>9, <1>10, <1>11 DEF Next

\* The check works for a request alone: a change that leaves no active owner was allowed
\* because there was another one when it was made.
THEOREM LastOwnerWasNotAloneHolds == Spec => LastOwnerWasNotAlone
<1>1. TypeInv /\ OwnersCounted /\ [Next]_vars =>
        (ActiveOwners # {} /\ ActiveOwners' = {} =>
           \E r \in Requests :
             /\ requests'[r] # requests[r]
             /\ requests[r].seen \ {requests[r].intent.target} # {})
  BY OwnersTaken DEF OwnersCounted, SawAnother
<1>2. UNCHANGED vars => ~(ActiveOwners # {} /\ ActiveOwners' = {})
  BY DEF vars, ActiveOwners, Known
<1> QED BY <1>1, <1>2, TypeInvariant, OwnersCountedInvariant, PTL DEF Spec, LastOwnerWasNotAlone

----------------------------------------------------------------------------
\* Role replacement.

\* A request whose change is committed stays so.
LEMMA CommittedLasts ==
  ASSUME TypeInv, [Next]_vars, NEW r \in Requests,
         requests[r].step \in {"landed", "ended", "unrevoked"}
  PROVE  /\ requests'[r].step \in {"landed", "ended", "unrevoked"}
         /\ requests'[r].intent = requests[r].intent
<1> USE DEF TypeInv, TypeOK
<1>1. requests[r] \in Request
  BY StepTellsKind
<1>2. CASE requests'[r] = requests[r]
  BY <1>2
<1>3. CASE Revoke(r) \/ Die(r)
  <2>1. PICK step \in {"ended", "unrevoked"} : requests'[r] = [requests[r] EXCEPT !.step = step]
    BY <1>3 DEF Revoke, Die
  <2> QED BY <1>1, <2>1 DEF Request
<1>4. ASSUME NEW other \in Requests, CommitRoles(other) PROVE requests'[r] = requests[r]
  BY <1>4 DEF CommitRoles
<1>5. ASSUME NEW other \in Requests,
             \/ \E s \in Sessions : Resolve(other, s)
             \/ \E intent \in Intent : Authorise(other, intent)
             \/ Check(other) \/ BeginDelete(other) \/ Delete(other) \/ SetActive(other)
      PROVE  requests'[r] = requests[r]
  BY <1>5, Sentinels DEF Resolve, Authorise, Check, BeginDelete, Delete, SetActive
<1>6. ASSUME NEW other \in Requests, other # r, Revoke(other) \/ Die(other)
      PROVE  requests'[r] = requests[r]
  BY <1>6 DEF Revoke, Die
<1>7. ASSUME NEW l \in Logins,
             \/ ReadRoles(l) \/ AbandonLogin(l)
             \/ \E s \in Sessions : InsertSession(l, s)
             \/ \E v \in Users, asserted \in SUBSET Roles : Upsert(l, v, asserted)
      PROVE  requests'[r] = requests[r]
  BY <1>7 DEF ReadRoles, AbandonLogin, InsertSession, Upsert
<1>8. ASSUME NEW s \in Sessions, EndSession(s) PROVE requests'[r] = requests[r]
  BY <1>8 DEF EndSession
<1> QED BY <1>2, <1>3, <1>4, <1>5, <1>6, <1>7, <1>8 DEF Next, vars

\* How an assignment is found deleting: it was before, or it begins now.
LEMMA DeletingComesFrom ==
  ASSUME TypeInv, [Next]_vars, NEW r \in Requests, requests'[r].step \in {"deleting", "deleted"}
  PROVE  \/ BeginDelete(r)
         \/ /\ requests[r].step \in {"deleting", "deleted"}
            /\ requests'[r].intent = requests[r].intent
            /\ \/ requests'[r].doomed = requests[r].doomed
               \/ \E other \in Requests \ {r} :
                    /\ CommitRoles(other)
                    /\ requests[other].intent.target = requests[r].intent.target
<1> USE DEF TypeInv, TypeOK
<1>1. CASE requests'[r] = requests[r]
  BY <1>1
<1>2. CASE Delete(r)
  <2>1. requests[r] \in Request /\ requests'[r] = [requests[r] EXCEPT !.step = "deleted"]
    BY <1>2, StepTellsKind DEF Delete
  <2> QED BY <1>2, <2>1 DEF Delete, Request
<1>3. ASSUME NEW s \in Sessions, Resolve(r, s) PROVE FALSE
  BY <1>3 DEF Resolve
<1>4. ASSUME NEW intent \in Intent, Authorise(r, intent) PROVE FALSE
  BY <1>4 DEF Authorise
<1>5. ASSUME Check(r) \/ SetActive(r) \/ Revoke(r) \/ Die(r) PROVE FALSE
  <2>1. CASE requests'[r] = Idle
    BY <2>1, Sentinels
  <2>2. CASE requests'[r] # Idle
    <3>1. requests[r] \in Request
      BY <1>5, <2>2, StepTellsKind DEF Check, SetActive, Revoke, Die
    <3>2. PICK step \in {"checked", "landed"} \union Ended :
            \/ requests'[r] = [requests[r] EXCEPT !.step = step]
            \/ requests'[r] = [requests[r] EXCEPT !.seen = ActiveOwners, !.step = step]
      BY <1>5, <2>2 DEF Check, SetActive, Revoke, Die, Ended
    <3>3. requests'[r].step = step
      BY <3>1, <3>2 DEF Request
    <3> QED BY <3>3 DEF Ended
  <2> QED BY <2>1, <2>2
<1>6. ASSUME NEW other \in Requests, CommitRoles(other)
      PROVE  \/ /\ requests[r].step \in {"deleting", "deleted"}
                /\ requests'[r].intent = requests[r].intent
                /\ \/ requests'[r].doomed = requests[r].doomed
                   \/ other # r /\ requests[other].intent.target = requests[r].intent.target
  <2>1. CASE other = r
    <3>1. requests[r] \in Request /\ requests'[r] = [requests[r] EXCEPT !.step = "landed"]
      BY <1>6, <2>1, StepTellsKind DEF CommitRoles
    <3> QED BY <3>1 DEF Request
  <2>2. CASE /\ other # r /\ requests[r].step = "deleting"
             /\ requests[r].intent.target = requests[other].intent.target
    <3>1. requests[r] \in Request
          /\ requests'[r] = [requests[r] EXCEPT !.doomed = @ \ requests[other].doomed]
      BY <1>6, <2>2, StepTellsKind DEF CommitRoles
    <3>2. requests'[r].intent = requests[r].intent
      BY <3>1 DEF Request
    <3> QED BY <2>2, <3>2
  <2>3. CASE other # r /\ ~(/\ requests[r].step = "deleting"
                            /\ requests[r].intent.target = requests[other].intent.target)
    <3>1. requests'[r] = requests[r]
      BY <1>6, <2>3 DEF CommitRoles
    <3> QED BY <3>1
  <2> QED BY <2>1, <2>2, <2>3
<1>7. ASSUME NEW other \in Requests, other # r,
             \/ \E s \in Sessions : Resolve(other, s)
             \/ \E intent \in Intent : Authorise(other, intent)
             \/ Check(other) \/ BeginDelete(other) \/ Delete(other) \/ SetActive(other)
             \/ Revoke(other) \/ Die(other)
      PROVE  requests'[r] = requests[r]
  BY <1>7 DEF Resolve, Authorise, Check, BeginDelete, Delete, SetActive, Revoke, Die
<1>8. ASSUME NEW l \in Logins,
             \/ ReadRoles(l) \/ AbandonLogin(l)
             \/ \E s \in Sessions : InsertSession(l, s)
             \/ \E v \in Users, asserted \in SUBSET Roles : Upsert(l, v, asserted)
      PROVE  requests'[r] = requests[r]
  BY <1>8 DEF ReadRoles, AbandonLogin, InsertSession, Upsert
<1>9. ASSUME NEW s \in Sessions, EndSession(s) PROVE requests'[r] = requests[r]
  BY <1>9 DEF EndSession
<1> QED BY <1>1, <1>2, <1>3, <1>4, <1>5, <1>6, <1>7, <1>8, <1>9 DEF Next, vars

\* The roles of a user change only by a commit, or when there were none.
LEMMA RolesChange ==
  ASSUME TypeInv, [Next]_vars, NEW u \in Known, users'[u].roles # users[u].roles
  PROVE  \/ users[u].roles = {}
         \/ \E r \in Requests : CommitRoles(r) /\ requests[r].intent.target = u
<1> USE DEF TypeInv, TypeOK
<1>1. u \in Users /\ users[u] \in Account
  BY DEF Known
<1>2. ASSUME NEW r \in Requests, SetActive(r) PROVE FALSE
  <2>1. requests[r] \in Request
    BY <1>2, StepTellsKind DEF SetActive
  <2>2. requests[r].intent.target = u
    BY <1>1, <1>2 DEF SetActive
  <2>3. users'[u] = [users[u] EXCEPT !.active = requests[r].intent.active]
    BY <1>1, <1>2, <2>2 DEF SetActive
  <2> QED BY <1>1, <2>3 DEF Account
<1>3. ASSUME NEW l \in Logins, NEW v \in Users, NEW asserted \in SUBSET Roles,
             Upsert(l, v, asserted)
      PROVE  users[u].roles = {}
  BY <1>1, <1>3 DEF Upsert
<1>4. ASSUME NEW r \in Requests, CommitRoles(r) PROVE requests[r].intent.target = u
  BY <1>1, <1>4 DEF CommitRoles
<1>5. ASSUME NEW r \in Requests,
             \/ \E s \in Sessions : Resolve(r, s)
             \/ \E intent \in Intent : Authorise(r, intent)
             \/ Check(r) \/ BeginDelete(r) \/ Delete(r) \/ Revoke(r) \/ Die(r)
      PROVE  FALSE
  BY <1>5 DEF Resolve, Authorise, Check, BeginDelete, Delete, Revoke, Die
<1>6. ASSUME NEW l \in Logins,
             \/ ReadRoles(l) \/ AbandonLogin(l)
             \/ \E s \in Sessions : InsertSession(l, s)
      PROVE  FALSE
  BY <1>6 DEF ReadRoles, AbandonLogin, InsertSession
<1>7. ASSUME NEW s \in Sessions, EndSession(s) PROVE FALSE
  BY <1>7 DEF EndSession
<1> QED BY <1>2, <1>3, <1>4, <1>5, <1>6, <1>7 DEF Next, vars

LEMMA RolesFoundStep ==
  TypeInv /\ RolesFound /\ [Next]_vars => RolesFound'
<1> SUFFICES ASSUME TypeInv, RolesFound, [Next]_vars, NEW r \in Requests,
                    requests'[r].step \in {"deleting", "deleted"}
             PROVE  \/ requests'[r].doomed = users'[requests'[r].intent.target].roles
                    \/ requests'[r].doomed = {}
                    \/ AnotherAssigned(r)'
  BY DEF RolesFound, FoundRoles
<1> USE DEF TypeInv, TypeOK
<1>1. CASE BeginDelete(r)
  <2>1. requests[r] \in Request
    BY <1>1, StepTellsKind DEF BeginDelete
  <2>2. requests'[r] = [requests[r] EXCEPT !.step = "deleting",
                                           !.doomed = users[requests[r].intent.target].roles]
    BY <1>1 DEF BeginDelete
  <2>3. /\ requests'[r].intent = requests[r].intent
        /\ requests'[r].doomed = users[requests[r].intent.target].roles
    BY <2>1, <2>2 DEF Request
  <2> QED BY <1>1, <2>3 DEF BeginDelete
<1>2. ASSUME NEW other \in Requests \ {r}, CommitRoles(other),
             requests'[r].intent = requests[r].intent,
             requests[other].intent.target = requests[r].intent.target
      PROVE  AnotherAssigned(r)'
  <2>1. requests[other] \in Request /\ requests[other].intent.kind = "roles"
    BY <1>2, StepTellsKind DEF CommitRoles, RequestFact
  <2>2. requests'[other] = [requests[other] EXCEPT !.step = "landed"]
    BY <1>2 DEF CommitRoles
  <2>3. requests'[other].step = "landed" /\ requests'[other].intent = requests[other].intent
    BY <2>1, <2>2 DEF Request
  <2> QED BY <1>2, <2>1, <2>3 DEF AnotherAssigned
<1>3. CASE /\ requests[r].step \in {"deleting", "deleted"}
           /\ requests'[r].intent = requests[r].intent
           /\ requests'[r].doomed = requests[r].doomed
  <2> DEFINE u == requests[r].intent.target
  <2>1. u \in Known
    BY <1>3, StepTellsKind DEF RequestFact
  <2>2. CASE AnotherAssigned(r)
    <3>1. PICK other \in Requests \ {r} :
            /\ requests[other].step \in {"landed", "ended", "unrevoked"}
            /\ requests[other].intent.kind = "roles"
            /\ requests[other].intent.target = u
      BY <2>2 DEF AnotherAssigned
    <3>2. /\ requests'[other].step \in {"landed", "ended", "unrevoked"}
          /\ requests'[other].intent = requests[other].intent
      BY <3>1, CommittedLasts
    <3> QED BY <1>3, <3>1, <3>2 DEF AnotherAssigned
  <2>3. CASE requests[r].doomed = {}
    BY <1>3, <2>3
  <2>4. CASE requests[r].doomed = users[u].roles
    <3>1. CASE users'[u].roles = users[u].roles
      BY <1>3, <2>4, <3>1
    <3>2. CASE users[u].roles = {}
      BY <1>3, <2>4, <3>2
    <3>3. ASSUME NEW other \in Requests, CommitRoles(other), requests[other].intent.target = u
          PROVE  AnotherAssigned(r)'
      <4>1. other # r
        <5>1. CASE other = r
          <6>1. requests[r] \in Request /\ requests'[r] = [requests[r] EXCEPT !.step = "landed"]
            BY <3>3, <5>1, StepTellsKind DEF CommitRoles
          <6> QED BY <6>1 DEF Request
        <5> QED BY <5>1
      <4> QED BY <1>2, <1>3, <3>3, <4>1
    <3> QED BY <2>1, <3>1, <3>2, <3>3, RolesChange
  <2> QED BY <1>3, <2>2, <2>3, <2>4 DEF RolesFound, FoundRoles
<1> QED BY <1>1, <1>2, <1>3, DeletingComesFrom

LEMMA RolesFoundInvariant == Spec => []RolesFound
<1>1. Init => RolesFound
  BY DEF Init, RolesFound, FoundRoles, Idle
<1> QED BY <1>1, RolesFoundStep, TypeInvariant, PTL DEF Spec

\* Only its own commit takes a request from deleting to committed.
LEMMA OnlyCommitLands ==
  ASSUME TypeInv, [Next]_vars, NEW r \in Requests,
         requests[r].step = "deleted", requests'[r].step = "landed"
  PROVE  CommitRoles(r)
<1> USE DEF TypeInv, TypeOK
<1>2. CASE Die(r)
  <2>1. requests[r] \in Request /\ requests'[r] = [requests[r] EXCEPT !.step = "died"]
    BY <1>2, StepTellsKind DEF Die
  <2> QED BY <2>1 DEF Request
<1>3. ASSUME NEW other \in Requests, other # r, CommitRoles(other) PROVE FALSE
  BY <1>3 DEF CommitRoles
<1>4. ASSUME NEW other \in Requests, other # r,
             \/ \E s \in Sessions : Resolve(other, s)
             \/ \E intent \in Intent : Authorise(other, intent)
             \/ Check(other) \/ BeginDelete(other) \/ Delete(other) \/ SetActive(other)
             \/ Revoke(other) \/ Die(other)
      PROVE  FALSE
  BY <1>4 DEF Resolve, Authorise, Check, BeginDelete, Delete, SetActive, Revoke, Die
<1>5. ASSUME NEW l \in Logins,
             \/ ReadRoles(l) \/ AbandonLogin(l)
             \/ \E s \in Sessions : InsertSession(l, s)
             \/ \E v \in Users, asserted \in SUBSET Roles : Upsert(l, v, asserted)
      PROVE  FALSE
  BY <1>5 DEF ReadRoles, AbandonLogin, InsertSession, Upsert
<1>6. ASSUME NEW s \in Sessions, EndSession(s) PROVE FALSE
  BY <1>6 DEF EndSession
<1>7. ASSUME NEW s \in Sessions, Resolve(r, s) PROVE FALSE
  BY <1>7, Sentinels DEF Resolve
<1>8. ASSUME NEW intent \in Intent, Authorise(r, intent) PROVE FALSE
  BY <1>8 DEF Authorise
<1>9. ASSUME Check(r) \/ BeginDelete(r) \/ Delete(r) \/ SetActive(r) \/ Revoke(r) PROVE FALSE
  BY <1>9 DEF Check, BeginDelete, Delete, SetActive, Revoke
<1>10. Next
  BY DEF vars
<1> QED BY <1>2, <1>3, <1>4, <1>5, <1>6, <1>7, <1>8, <1>9, <1>10 DEF Next

\* An assignment leaves exactly its roles unless another one of the same user has been
\* committed, or the user's first roles came in while it was deleting.
THEOREM RolesAreReplacedHolds == Spec => RolesAreReplaced
<1>1. ASSUME TypeInv, RolesFound, [Next]_vars, NEW r \in Requests,
             requests[r].step = "deleted", requests'[r].step = "landed"
      PROVE  \/ users'[requests[r].intent.target].roles = requests[r].intent.roles
             \/ requests[r].doomed = {}
             \/ AnotherAssigned(r)
  <2> DEFINE u == requests[r].intent.target
  <2>1. CommitRoles(r)
    BY <1>1, OnlyCommitLands
  <2>2. u \in Known /\ u \in Users /\ users[u] \in Account
    BY <1>1, StepTellsKind DEF TypeInv, TypeOK, RequestFact, Known
  <2>3. users'[u] = [users[u] EXCEPT !.roles = RolesReplaced(r)]
    BY <1>1, <2>1, <2>2 DEF CommitRoles, TypeInv, TypeOK
  <2>4. users'[u].roles = (users[u].roles \ requests[r].doomed) \union requests[r].intent.roles
    BY <2>2, <2>3 DEF Account, RolesReplaced
  <2>5. \/ requests[r].doomed = users[u].roles
        \/ requests[r].doomed = {}
        \/ AnotherAssigned(r)
    BY <1>1 DEF RolesFound, FoundRoles
  <2> QED BY <2>4, <2>5
<1>2. TypeInv /\ RolesFound /\ [Next]_vars =>
        \A r \in Requests :
          requests[r].step = "deleted" /\ requests'[r].step = "landed" =>
            \/ users'[requests[r].intent.target].roles = requests[r].intent.roles
            \/ requests[r].doomed = {}
            \/ \E other \in Requests \ {r} :
                 /\ requests[other].step \in {"landed", "ended", "unrevoked"}
                 /\ requests[other].intent.kind = "roles"
                 /\ requests[other].intent.target = requests[r].intent.target
  BY <1>1 DEF AnotherAssigned
<1> QED BY <1>2, TypeInvariant, RolesFoundInvariant, PTL DEF Spec, RolesAreReplaced

\* The tables keep their types, and a session older than a change of its user is
\* revoked or about to be.
THEOREM AccountsCorrect == Spec => []AccountsInvariant
<1>1. TypeOK /\ StaleSessionsAreRevoked => AccountsInvariant
  BY DEF AccountsInvariant
<1> QED BY <1>1, TypeCorrect, StaleSessionsAreRevokedHolds, PTL

----------------------------------------------------------------------------
\* The rows of sessions (SessionRows).

\* A request that has a session, and the one it looked up to end, have rows' ids.
HandlersHaveSessions ==
  \A r \in Handlers : /\ handling[r].step # "idle" \/ handling[r].touching => handling[r].session \in SessionIds
                      /\ handling[r].step = "listed" => handling[r].victim \in SessionIds

\* A session that was idle too long while nobody could touch it still is: the row, if it is
\* there, says so, and no request has it and may touch it.
QuietStayOut == \A s \in quiet : Untouched(s) /\ (Exists(s) => Overslept(s))

RowsInvariant == RowsTypeOK /\ HandlersHaveSessions /\ QuietStayOut

LEMMA RowsTyped ==
  ASSUME RowsTypeOK
  PROVE  /\ moment \in Int /\ 0 <= moment
         /\ \A s \in SessionIds : /\ sessionRows[s] \in SessionRow
                                  /\ sessionRows[s].lastSeenAt \in Int /\ sessionRows[s].expiresAt \in Int
                                  /\ sessionRows[s].revokedAt \in Int
         /\ \A r \in Handlers : handling[r] \in Handler
         /\ NoHandler \in Handler /\ NoHandler.step = "idle" /\ ~NoHandler.touching
         /\ NoHandler.session = NoSession
         /\ Gone \in SessionRow /\ Gone.revokedAt = Unrevoked /\ Gone.expiresAt = 0
BY RowsAssumption DEF RowsTypeOK, SessionRow, Handler, NoHandler, Gone, Reasons, Unrevoked

\* What may become of a row in a step that neither inserts nor prunes it: it stays, is revoked
\* for the first time, or is seen.
RevokedNow(s) ==
  /\ Exists(s) /\ sessionRows[s].revokedAt = Unrevoked
  /\ sessionRows'[s].expiresAt = sessionRows[s].expiresAt
  /\ sessionRows'[s].lastSeenAt = sessionRows[s].lastSeenAt
  /\ sessionRows'[s].revokedAt = moment

SeenNow(s) ==
  /\ Exists(s)
  /\ sessionRows'[s].expiresAt = sessionRows[s].expiresAt
  /\ sessionRows'[s].revokedAt = sessionRows[s].revokedAt
  /\ sessionRows'[s].revokedReason = sessionRows[s].revokedReason
  /\ sessionRows'[s].lastSeenAt = moment

LEMMA RevokedRow ==
  ASSUME RowsTypeOK, NEW s \in SessionIds, NEW reason \in Reasons,
         NEW row, row = [sessionRows[s] EXCEPT !.revokedAt = moment, !.revokedReason = reason]
  PROVE  /\ row \in SessionRow /\ row.expiresAt = sessionRows[s].expiresAt
         /\ row.lastSeenAt = sessionRows[s].lastSeenAt /\ row.revokedAt = moment
<1>1. sessionRows[s] \in SessionRow /\ moment \in 0 .. MaxNow
  BY RowsTyped DEF RowsTypeOK
<1> QED BY <1>1 DEF SessionRow

LEMMA RowsRevokingKinds ==
  ASSUME RowsTypeOK, NEW s \in SessionIds, NEW reason \in Reasons, sessionRows' = RowsRevoking(s, reason)
  PROVE  /\ sessionRows' \in [SessionIds -> SessionRow]
         /\ \A t \in SessionIds : sessionRows'[t] = sessionRows[t] \/ RevokedNow(t)
<1>1. PICK row : row = [sessionRows[s] EXCEPT !.revokedAt = moment, !.revokedReason = reason]
  OBVIOUS
<1>2. /\ row \in SessionRow /\ row.expiresAt = sessionRows[s].expiresAt
      /\ row.lastSeenAt = sessionRows[s].lastSeenAt /\ row.revokedAt = moment
  BY <1>1, RevokedRow, Zenon
<1>3. \/ sessionRows' = sessionRows
      \/ /\ Exists(s) /\ sessionRows[s].revokedAt = Unrevoked
         /\ sessionRows' = [sessionRows EXCEPT ![s] = row]
  BY <1>1 DEF RowsRevoking, RowsTypeOK
<1> QED BY <1>2, <1>3 DEF RowsTypeOK, RevokedNow

LEMMA RevokeAllKinds ==
  ASSUME RowsTypeOK, RevokeAll
  PROVE  /\ sessionRows' \in [SessionIds -> SessionRow]
         /\ \A t \in SessionIds : sessionRows'[t] = sessionRows[t] \/ RevokedNow(t)
<1> SUFFICES ASSUME NEW t \in SessionIds
             PROVE  sessionRows'[t] \in SessionRow /\ (sessionRows'[t] = sessionRows[t] \/ RevokedNow(t))
  BY DEF RevokeAll
<1>1. PICK row : row = [sessionRows[t] EXCEPT !.revokedAt = moment, !.revokedReason = "deactivated"]
  OBVIOUS
<1>2. /\ row \in SessionRow /\ row.expiresAt = sessionRows[t].expiresAt
      /\ row.lastSeenAt = sessionRows[t].lastSeenAt /\ row.revokedAt = moment
  <2>1. "deactivated" \in Reasons
    BY DEF Reasons
  <2> QED BY <1>1, <2>1, RevokedRow, Zenon
<1>3. sessionRows'[t] = RowsRevoking(t, "deactivated")[t]
  BY DEF RevokeAll
<1>4. \/ sessionRows'[t] = sessionRows[t]
      \/ Exists(t) /\ sessionRows[t].revokedAt = Unrevoked /\ sessionRows'[t] = row
  BY <1>1, <1>3 DEF RowsRevoking, RowsTypeOK
<1> QED BY <1>2, <1>4, RowsTyped DEF RevokedNow

LEMMA AnsweredKinds ==
  ASSUME RowsTypeOK, NEW r \in Handlers, handling' = Answered(r)
  PROVE  /\ handling' \in [Handlers -> Handler]
         /\ \A q \in Handlers \ {r} : handling'[q] = handling[q]
         /\ handling'[r].step = "idle" /\ handling'[r].touching = handling[r].touching
         /\ handling'[r].session \in {handling[r].session, NoSession}
         /\ handling[r].touching => handling'[r].session = handling[r].session
<1>1. PICK new : new = IF handling[r].touching
                         THEN [NoHandler EXCEPT !.session = handling[r].session, !.touching = TRUE]
                         ELSE NoHandler
  OBVIOUS
<1>2. handling[r] \in Handler /\ NoHandler \in Handler /\ NoHandler.step = "idle" /\ ~NoHandler.touching
      /\ NoHandler.session = NoSession
  BY RowsTyped
<1>3. /\ new \in Handler /\ new.step = "idle" /\ new.touching = handling[r].touching
      /\ new.session \in {handling[r].session, NoSession}
      /\ handling[r].touching => new.session = handling[r].session
  <2>1. CASE handling[r].touching
    BY <1>1, <1>2, <2>1 DEF Handler
  <2>2. CASE ~handling[r].touching
    BY <1>1, <1>2, <2>2 DEF Handler
  <2> QED BY <2>1, <2>2
<1>4. handling' = [handling EXCEPT ![r] = new]
  BY <1>1 DEF Answered
<1>5. handling'[r] = new /\ \A q \in Handlers \ {r} : handling'[q] = handling[q]
  BY <1>4 DEF RowsTypeOK
<1> QED BY <1>3, <1>4, <1>5 DEF RowsTypeOK

LEMMA TouchKinds ==
  ASSUME RowsTypeOK, NEW r \in Handlers,
         handling' = [handling EXCEPT ![r] =
           IF handling[r].step = "idle" THEN NoHandler ELSE [handling[r] EXCEPT !.touching = FALSE]]
  PROVE  /\ handling' \in [Handlers -> Handler]
         /\ \A q \in Handlers \ {r} : handling'[q] = handling[q]
         /\ handling'[r].step = handling[r].step /\ ~handling'[r].touching
         /\ handling'[r].session \in {handling[r].session, NoSession}
         /\ handling[r].step # "idle" => /\ handling'[r].session = handling[r].session
                                         /\ handling'[r].victim = handling[r].victim
<1>1. PICK new : new = IF handling[r].step = "idle" THEN NoHandler ELSE [handling[r] EXCEPT !.touching = FALSE]
  OBVIOUS
<1>2. handling[r] \in Handler /\ NoHandler \in Handler /\ NoHandler.step = "idle" /\ ~NoHandler.touching
      /\ NoHandler.session = NoSession
  BY RowsTyped
<1>3. /\ new \in Handler /\ new.step = handling[r].step /\ ~new.touching
      /\ new.session \in {handling[r].session, NoSession}
      /\ handling[r].step # "idle" => new.session = handling[r].session /\ new.victim = handling[r].victim
  <2>1. CASE handling[r].step = "idle"
    BY <1>1, <1>2, <2>1
  <2>2. CASE handling[r].step # "idle"
    BY <1>1, <1>2, <2>2 DEF Handler
  <2> QED BY <2>1, <2>2
<1>4. handling' = [handling EXCEPT ![r] = new]
  BY <1>1
<1>5. handling'[r] = new /\ \A q \in Handlers \ {r} : handling'[q] = handling[q]
  BY <1>4 DEF RowsTypeOK
<1> QED BY <1>3, <1>4, <1>5 DEF RowsTypeOK

LEMMA SeenKinds ==
  ASSUME RowsTypeOK, NEW s \in SessionIds,
         sessionRows' = IF Exists(s) THEN [sessionRows EXCEPT ![s].lastSeenAt = moment] ELSE sessionRows
  PROVE  /\ sessionRows' \in [SessionIds -> SessionRow]
         /\ \A t \in SessionIds : sessionRows'[t] = sessionRows[t] \/ (t = s /\ SeenNow(t))
<1>1. PICK row : row = [sessionRows[s] EXCEPT !.lastSeenAt = moment]
  OBVIOUS
<1>2. sessionRows[s] \in SessionRow /\ moment \in 0 .. MaxNow
  BY RowsTyped DEF RowsTypeOK
<1>3. /\ row \in SessionRow /\ row.expiresAt = sessionRows[s].expiresAt
      /\ row.revokedAt = sessionRows[s].revokedAt /\ row.revokedReason = sessionRows[s].revokedReason
      /\ row.lastSeenAt = moment
  BY <1>1, <1>2 DEF SessionRow
<1> QED BY <1>1, <1>3 DEF RowsTypeOK, SeenNow

\* What a request that is served, or ends, leaves of the quiet sessions.
LEMMA QuietKept ==
  ASSUME RowsInvariant, quiet' \subseteq quiet, UNCHANGED moment,
         \A s \in quiet : \A r \in Handlers : handling'[r].session = s =>
           handling'[r] = handling[r] \/ (handling'[r].step # "resolved" /\ ~handling'[r].touching),
         \A s \in quiet' : sessionRows'[s] = sessionRows[s] \/ RevokedNow(s) \/ sessionRows'[s] = Gone
  PROVE  QuietStayOut'
<1> SUFFICES ASSUME NEW s \in quiet' PROVE Untouched(s)' /\ (Exists(s)' => Overslept(s)')
  BY DEF QuietStayOut
<1>1. Untouched(s) /\ (Exists(s) => Overslept(s)) /\ s \in quiet
  BY DEF QuietStayOut, RowsInvariant
<1>2. Untouched(s)'
  BY <1>1 DEF Untouched
<1>3. Exists(s)' => Overslept(s)'
  BY <1>1 DEF Exists, Overslept, RevokedNow
<1> QED BY <1>2, <1>3

\* A request that ends a session, its own or another one, or just ends.
LEMMA EndingKeeps ==
  ASSUME RowsInvariant, NEW r \in Handlers, handling' = Answered(r), UNCHANGED <<moment, quiet>>,
         \/ UNCHANGED sessionRows
         \/ \E s \in SessionIds, reason \in Reasons : sessionRows' = RowsRevoking(s, reason)
  PROVE  RowsInvariant'
<1>0. RowsTypeOK
  BY DEF RowsInvariant
<1>1. /\ handling' \in [Handlers -> Handler]
      /\ \A q \in Handlers \ {r} : handling'[q] = handling[q]
      /\ handling'[r].step = "idle" /\ handling'[r].touching = handling[r].touching
      /\ handling'[r].session \in {handling[r].session, NoSession}
      /\ handling[r].touching => handling'[r].session = handling[r].session
  BY <1>0, AnsweredKinds
<1>2. /\ sessionRows' \in [SessionIds -> SessionRow]
      /\ \A t \in SessionIds : sessionRows'[t] = sessionRows[t] \/ RevokedNow(t)
  BY <1>0, RowsRevokingKinds DEF RowsTypeOK
<1>3. RowsTypeOK'
  BY <1>0, <1>1, <1>2 DEF RowsTypeOK
<1>4. HandlersHaveSessions'
  BY <1>1 DEF HandlersHaveSessions, RowsInvariant
<1>5. \A s \in quiet : s \in SessionIds /\ Untouched(s) /\ s # NoSession
  BY RowsAssumption DEF RowsInvariant, QuietStayOut, RowsTypeOK
<1>6. \A s \in quiet : \A q \in Handlers : handling'[q].session = s =>
        handling'[q] = handling[q] \/ (handling'[q].step # "resolved" /\ ~handling'[q].touching)
  BY <1>1, <1>5 DEF Untouched
<1>7. QuietStayOut'
  BY <1>2, <1>5, <1>6, QuietKept
<1> QED BY <1>3, <1>4, <1>7 DEF RowsInvariant

LEMMA TickKeeps == RowsInvariant /\ Tick => RowsInvariant'
<1> SUFFICES ASSUME RowsInvariant, Tick PROVE RowsInvariant'
  OBVIOUS
<1>1. RowsTypeOK /\ QuietStayOut /\ moment \in Int /\ moment' = moment + 1
      /\ \A s \in SessionIds : sessionRows[s].lastSeenAt \in Int
  BY RowsTyped DEF RowsInvariant, Tick
<1>2. RowsTypeOK'
  BY <1>1, RowsAssumption DEF Tick, RowsTypeOK
<1>3. HandlersHaveSessions'
  BY DEF Tick, HandlersHaveSessions, RowsInvariant
<1>4. QuietStayOut'
  <2> SUFFICES ASSUME NEW s \in quiet' PROVE Untouched(s)' /\ (Exists(s)' => Overslept(s)')
    BY DEF QuietStayOut
  <2>1. s \in SessionIds /\ (Exists(s)' = Exists(s)) /\ (Untouched(s)' = Untouched(s))
    BY <1>2 DEF RowsTypeOK, Tick, Exists, Untouched
  <2>2. CASE s \in quiet
    BY <1>1, <2>1, <2>2, RowsAssumption DEF QuietStayOut, Overslept, Tick
  <2>3. CASE s \notin quiet
    BY <2>1, <2>3 DEF Tick, Overslept
  <2> QED BY <2>2, <2>3
<1> QED BY <1>2, <1>3, <1>4 DEF RowsInvariant

LEMMA SessionInsertKeeps ==
  ASSUME RowsInvariant, NEW s \in SessionIds, InsertSessionRow(s)
  PROVE  RowsInvariant'
<1>0. RowsTypeOK /\ moment \in 0 .. MaxNow
  BY DEF RowsInvariant, RowsTypeOK
<1>1. PICK row : row = [expiresAt |-> moment + Ttl, lastSeenAt |-> moment,
                        revokedAt |-> Unrevoked, revokedReason |-> "none"]
  OBVIOUS
<1>2. row \in SessionRow
  <2>1. moment + Ttl \in 0 .. MaxNow + Ttl
    BY <1>0, RowsAssumption
  <2> QED BY <1>0, <1>1, <2>1 DEF SessionRow, Reasons
<1>3. sessionRows' = [sessionRows EXCEPT ![s] = row] /\ UNCHANGED <<moment, handling>> /\ quiet' = quiet \ {s}
  BY <1>1 DEF InsertSessionRow
<1>4. RowsTypeOK'
  BY <1>0, <1>2, <1>3 DEF RowsTypeOK
<1>5. HandlersHaveSessions'
  BY <1>3 DEF HandlersHaveSessions, RowsInvariant
<1>6. \A t \in quiet' : sessionRows'[t] = sessionRows[t]
  BY <1>0, <1>3 DEF RowsTypeOK
<1>7. QuietStayOut'
  BY <1>3, <1>6, QuietKept
<1> QED BY <1>4, <1>5, <1>7 DEF RowsInvariant

LEMMA ReadKeeps ==
  ASSUME RowsInvariant, NEW r \in Handlers, NEW s \in SessionIds, ReadSession(r, s)
  PROVE  /\ RowsInvariant'
         /\ handling'[r].step = "resolved" => handling'[r].session \notin quiet
<1>0. RowsTypeOK
  BY DEF RowsInvariant
<1>1. PICK new : new = [step |-> IF Overslept(s) THEN "overslept" ELSE "resolved",
                        session |-> s, victim |-> NoSession, touching |-> FALSE]
  OBVIOUS
<1>2. handling'[r] = new /\ (\A q \in Handlers \ {r} : handling'[q] = handling[q])
      /\ handling' = [handling EXCEPT ![r] = new]
  BY <1>0, <1>1 DEF ReadSession, Touches, RowsTypeOK
<1>3. new \in Handler /\ new.session = s /\ ~new.touching /\ new.step \in {"overslept", "resolved"}
  BY <1>1 DEF Handler
<1>4. new.step = "resolved" => s \notin quiet
  BY <1>1 DEF ReadSession, LiveRow, RowsInvariant, QuietStayOut
<1>5. UNCHANGED <<moment, sessionRows, quiet>>
  BY DEF ReadSession
<1>6. RowsTypeOK'
  BY <1>0, <1>2, <1>3, <1>5 DEF RowsTypeOK
<1>7. HandlersHaveSessions'
  BY <1>2, <1>3 DEF HandlersHaveSessions, RowsInvariant
<1>8. QuietStayOut'
  BY <1>2, <1>3, <1>4, <1>5, QuietKept
<1> QED BY <1>2, <1>3, <1>4, <1>6, <1>7, <1>8 DEF RowsInvariant

LEMMA ServingKeeps ==
  ASSUME RowsInvariant, NEW r \in Handlers, Serve(r) \/ \E s \in SessionIds : ListOwn(r, s)
  PROVE  /\ RowsInvariant' /\ handling'[r].step # "resolved"
         /\ \A q \in Handlers \ {r} : handling'[q] = handling[q]
<1>0. RowsTypeOK /\ handling[r] \in Handler
  BY RowsTyped DEF RowsInvariant
<1>1. PICK new \in Handler :
        /\ handling' = [handling EXCEPT ![r] = new]
        /\ new.step \in {"serving", "listed"} /\ new.session = handling[r].session
        /\ new.step = "listed" => new.victim \in SessionIds
        /\ new.touching => handling[r].touching \/ handling[r].step = "resolved"
  <2>1. CASE Serve(r)
    <3>1. PICK new : new = [handling[r] EXCEPT !.step = "serving", !.touching = TRUE]
      OBVIOUS
    <3>2. new \in Handler /\ new.step = "serving" /\ new.session = handling[r].session
      BY <1>0, <3>1 DEF Handler
    <3>3. handling' = [handling EXCEPT ![r] = new] /\ handling[r].step = "resolved"
      BY <1>0, <2>1, <3>1 DEF Serve, RowsTypeOK
    <3> QED BY <3>2, <3>3
  <2>2. ASSUME NEW s \in SessionIds, ListOwn(r, s)
        PROVE  \E new \in Handler :
                 /\ handling' = [handling EXCEPT ![r] = new]
                 /\ new.step \in {"serving", "listed"} /\ new.session = handling[r].session
                 /\ new.step = "listed" => new.victim \in SessionIds
                 /\ new.touching => handling[r].touching \/ handling[r].step = "resolved"
    <3>1. PICK new : new = [handling[r] EXCEPT !.step = "listed", !.victim = s]
      OBVIOUS
    <3>2. /\ new \in Handler /\ new.step = "listed" /\ new.session = handling[r].session
          /\ new.victim = s /\ new.touching = handling[r].touching
      BY <1>0, <3>1 DEF Handler
    <3>3. handling' = [handling EXCEPT ![r] = new]
      <4>1. handling' = [handling EXCEPT ![r].step = "listed", ![r].victim = s]
        BY <2>2 DEF ListOwn
      <4> QED BY <1>0, <3>1, <4>1 DEF RowsTypeOK
    <3> QED BY <3>2, <3>3
  <2> QED BY <2>1, <2>2
<1>4. handling'[r] = new /\ \A q \in Handlers \ {r} : handling'[q] = handling[q]
  BY <1>0, <1>1 DEF RowsTypeOK
<1>5. UNCHANGED <<moment, sessionRows, quiet>> /\ handling[r].step # "idle"
  BY DEF Serve, ListOwn
<1>6. RowsTypeOK'
  BY <1>0, <1>1, <1>5 DEF RowsTypeOK
<1>7. HandlersHaveSessions'
  BY <1>1, <1>4, <1>5 DEF HandlersHaveSessions, RowsInvariant
<1>8. \A s \in quiet : \A q \in Handlers : handling'[q].session = s =>
        handling'[q] = handling[q] \/ (handling'[q].step # "resolved" /\ ~handling'[q].touching)
  BY <1>1, <1>4 DEF RowsInvariant, QuietStayOut, Untouched
<1>9. QuietStayOut'
  BY <1>5, <1>8, QuietKept
<1> QED BY <1>1, <1>4, <1>6, <1>7, <1>9 DEF RowsInvariant

LEMMA TouchKeeps ==
  ASSUME RowsInvariant, NEW r \in Handlers, LandTouch(r) \/ LoseTouch(r)
  PROVE  RowsInvariant'
<1>0. RowsTypeOK /\ handling[r] \in Handler /\ handling[r].touching /\ handling[r].session \in SessionIds
  BY RowsTyped DEF RowsInvariant, HandlersHaveSessions, LandTouch, LoseTouch
<1>1. /\ handling' \in [Handlers -> Handler]
      /\ \A q \in Handlers \ {r} : handling'[q] = handling[q]
      /\ handling'[r].step = handling[r].step /\ ~handling'[r].touching
      /\ handling'[r].session \in {handling[r].session, NoSession}
      /\ handling[r].step # "idle" => /\ handling'[r].session = handling[r].session
                                      /\ handling'[r].victim = handling[r].victim
  BY <1>0, TouchKinds DEF LandTouch, LoseTouch
<1>2. /\ sessionRows' \in [SessionIds -> SessionRow]
      /\ \A t \in SessionIds : t # handling[r].session => sessionRows'[t] = sessionRows[t]
  BY <1>0, SeenKinds DEF LandTouch, LoseTouch, RowsTypeOK
<1>3. UNCHANGED <<moment, quiet>>
  BY DEF LandTouch, LoseTouch
<1>4. RowsTypeOK'
  BY <1>0, <1>1, <1>2, <1>3 DEF RowsTypeOK
<1>5. HandlersHaveSessions'
  BY <1>1 DEF HandlersHaveSessions, RowsInvariant
<1>6. \A s \in quiet : s \in SessionIds /\ s # handling[r].session /\ s # NoSession
  BY <1>0, RowsAssumption DEF RowsInvariant, QuietStayOut, Untouched, RowsTypeOK
<1>7. QuietStayOut'
  BY <1>1, <1>2, <1>3, <1>6, QuietKept
<1> QED BY <1>4, <1>5, <1>7 DEF RowsInvariant

LEMMA WipeKeeps ==
  ASSUME RowsInvariant, RevokeAll \/ Prune PROVE RowsInvariant'
<1>0. RowsTypeOK /\ Gone \in SessionRow
  BY RowsTyped DEF RowsInvariant
<1>1. /\ sessionRows' \in [SessionIds -> SessionRow]
      /\ \A t \in SessionIds : sessionRows'[t] = sessionRows[t] \/ RevokedNow(t) \/ sessionRows'[t] = Gone
  <2>1. CASE RevokeAll
    BY <1>0, <2>1, RevokeAllKinds
  <2>2. CASE Prune
    <3>1. \A t \in SessionIds : sessionRows'[t] \in {sessionRows[t], Gone} /\ sessionRows[t] \in SessionRow
      BY <1>0, <2>2, RowsTyped DEF Prune
    <3>2. sessionRows' = [t \in SessionIds |-> sessionRows'[t]]
      BY <2>2 DEF Prune
    <3> HIDE DEF Gone
    <3> QED BY <1>0, <3>1, <3>2
  <2> QED BY <2>1, <2>2
<1>2. UNCHANGED <<moment, handling, quiet>>
  BY DEF RevokeAll, Prune
<1>3. RowsTypeOK'
  BY <1>0, <1>1, <1>2 DEF RowsTypeOK
<1>4. HandlersHaveSessions'
  BY <1>2 DEF HandlersHaveSessions, RowsInvariant
<1>5. quiet \subseteq SessionIds
  BY <1>0 DEF RowsTypeOK
<1>6. QuietStayOut'
  BY <1>1, <1>2, <1>5, QuietKept
<1> QED BY <1>3, <1>4, <1>6 DEF RowsInvariant

\* The requests that end a session, or just end.
Endings(r) == RevokeOverslept(r) \/ Logout(r) \/ RevokeOwn(r) \/ AnswerRequest(r)

LEMMA EndingKinds ==
  ASSUME RowsInvariant, NEW r \in Handlers, Endings(r)
  PROVE  /\ handling' = Answered(r) /\ UNCHANGED <<moment, quiet>>
         /\ \/ UNCHANGED sessionRows
            \/ \E s \in SessionIds, reason \in Reasons : sessionRows' = RowsRevoking(s, reason)
<1>0. /\ handling[r].step # "idle" => handling[r].session \in SessionIds
      /\ handling[r].step = "listed" => handling[r].victim \in SessionIds
  BY DEF RowsInvariant, HandlersHaveSessions
<1>1. {"idle_timeout", "user_logout", "revoked_by_user"} \subseteq Reasons
  BY DEF Reasons
<1>2. CASE RevokeOverslept(r)
  BY <1>0, <1>1, <1>2 DEF RevokeOverslept
<1>3. CASE Logout(r)
  BY <1>0, <1>1, <1>3 DEF Logout
<1>4. CASE RevokeOwn(r)
  BY <1>0, <1>1, <1>4 DEF RevokeOwn
<1>5. CASE AnswerRequest(r)
  BY <1>5 DEF AnswerRequest
<1> QED BY <1>2, <1>3, <1>4, <1>5 DEF Endings

LEMMA RowsBegin == RowsInit => RowsInvariant
<1> SUFFICES ASSUME RowsInit PROVE RowsInvariant
  OBVIOUS
<1>1. RowsTypeOK
  BY RowsAssumption DEF RowsInit, RowsTypeOK, SessionRow, Handler, NoHandler, Gone, Reasons, Unrevoked
<1>2. HandlersHaveSessions /\ QuietStayOut
  BY <1>1, RowsTyped DEF RowsInit, HandlersHaveSessions, QuietStayOut
<1> QED BY <1>1, <1>2 DEF RowsInvariant

LEMMA RowsStep == RowsInvariant /\ [RowsNext]_rowsVars => RowsInvariant'
<1> SUFFICES ASSUME RowsInvariant, [RowsNext]_rowsVars PROVE RowsInvariant'
  OBVIOUS
<1>1. CASE UNCHANGED rowsVars
  BY <1>1 DEF rowsVars, RowsInvariant, RowsTypeOK, HandlersHaveSessions, QuietStayOut, Untouched,
              Exists, Overslept
<1>2. ASSUME NEW r \in Handlers, Endings(r) PROVE RowsInvariant'
  BY <1>2, EndingKinds, EndingKeeps
<1> QED BY <1>1, <1>2, TickKeeps, SessionInsertKeeps, ReadKeeps, ServingKeeps, TouchKeeps, WipeKeeps
        DEF RowsNext, Endings

\* The three action properties, each for one step.
StaysOut ==
  \A r \in Handlers : handling[r].step = "idle" /\ handling'[r].step = "resolved" =>
    handling'[r].session \notin quiet

FirstStands ==
  \A s \in SessionIds : sessionRows[s].revokedAt # Unrevoked /\ sessionRows'[s] # Gone =>
    /\ sessionRows'[s].revokedAt = sessionRows[s].revokedAt
    /\ sessionRows'[s].revokedReason = sessionRows[s].revokedReason

PrunedWereOver == \A s \in SessionIds : Exists(s) /\ sessionRows'[s] = Gone => ~LiveRow(s)

LEMMA RowKinds ==
  ASSUME RowsInvariant, RowsNext
  PROVE  \/ Prune
         \/ \A t \in SessionIds : \/ sessionRows'[t] = sessionRows[t] \/ RevokedNow(t) \/ SeenNow(t)
                                  \/ sessionRows[t] = Gone
<1>0. RowsTypeOK
  BY DEF RowsInvariant
<1>1. CASE RevokeAll
  BY <1>0, <1>1, RevokeAllKinds
<1>2. CASE \E s \in SessionIds : InsertSessionRow(s)
  BY <1>0, <1>2 DEF InsertSessionRow, Exists, RowsTypeOK
<1>3. ASSUME NEW r \in Handlers, Endings(r)
      PROVE  \A t \in SessionIds : sessionRows'[t] = sessionRows[t] \/ RevokedNow(t)
  BY <1>0, <1>3, EndingKinds, RowsRevokingKinds
<1>4. ASSUME NEW r \in Handlers, LandTouch(r)
      PROVE  \A t \in SessionIds : sessionRows'[t] = sessionRows[t] \/ SeenNow(t)
  <2>1. handling[r].session \in SessionIds
    BY <1>4 DEF LandTouch, RowsInvariant, HandlersHaveSessions
  <2> QED BY <1>0, <1>4, <2>1, SeenKinds DEF LandTouch
<1>5. \/ Prune \/ RevokeAll \/ (\E s \in SessionIds : InsertSessionRow(s))
      \/ (\E r \in Handlers : Endings(r)) \/ (\E r \in Handlers : LandTouch(r)) \/ UNCHANGED sessionRows
  BY DEF RowsNext, Endings, Tick, ReadSession, ListOwn, Serve, LoseTouch
<1> QED BY <1>1, <1>2, <1>3, <1>4, <1>5

LEMMA FirstStandsStep == RowsInvariant /\ [RowsNext]_rowsVars => [FirstStands]_rowsVars
<1> SUFFICES ASSUME RowsInvariant, RowsNext PROVE FirstStands
  OBVIOUS
<1>1. Gone.revokedAt = Unrevoked
  BY RowsTyped DEF RowsInvariant
<1>2. CASE Prune
  BY <1>2 DEF Prune, FirstStands
<1> QED BY <1>1, <1>2, RowKinds DEF FirstStands, RevokedNow, SeenNow

LEMMA PrunedStep == RowsInvariant /\ [RowsNext]_rowsVars => [PrunedWereOver]_rowsVars
<1> SUFFICES ASSUME RowsInvariant, RowsNext, NEW s \in SessionIds, Exists(s), sessionRows'[s] = Gone, LiveRow(s)
             PROVE  FALSE
  BY DEF PrunedWereOver
<1>1. /\ moment \in Int /\ 0 <= moment /\ sessionRows[s].expiresAt \in Int
      /\ Gone.revokedAt = Unrevoked /\ Gone.expiresAt = 0
  BY RowsTyped DEF RowsInvariant
<1>2. sessionRows[s].expiresAt > moment /\ sessionRows[s].revokedAt = Unrevoked
  BY DEF LiveRow
<1>3. CASE Prune
  <2>1. Prunable(s)
    BY <1>3 DEF Prune, Exists
  <2> QED BY <1>1, <1>2, <2>1, RowsAssumption DEF Prunable
<1>4. CASE sessionRows'[s] = sessionRows[s] \/ sessionRows[s] = Gone
  BY <1>4 DEF Exists
<1>5. CASE RevokedNow(s)
  BY <1>1, <1>5 DEF RevokedNow, Unrevoked
<1>6. CASE SeenNow(s)
  BY <1>1, <1>2, <1>6 DEF SeenNow
<1> QED BY <1>3, <1>4, <1>5, <1>6, RowKinds

LEMMA StaysOutStep == RowsInvariant /\ [RowsNext]_rowsVars => [StaysOut]_rowsVars
<1> SUFFICES ASSUME RowsInvariant, RowsNext, NEW r \in Handlers,
                    handling[r].step = "idle", handling'[r].step = "resolved"
             PROVE  handling'[r].session \notin quiet
  BY DEF StaysOut
<1>0. RowsTypeOK
  BY DEF RowsInvariant
<1>1. CASE \E q \in Handlers, s \in SessionIds : ReadSession(q, s)
  <2>1. PICK q \in Handlers, s \in SessionIds : ReadSession(q, s)
    BY <1>1
  <2>2. q = r
    BY <1>0, <2>1 DEF ReadSession, RowsTypeOK
  <2> QED BY <2>1, <2>2, ReadKeeps
<1>2. ASSUME NEW q \in Handlers, Endings(q) PROVE FALSE
  BY <1>0, <1>2, EndingKinds, AnsweredKinds
<1>3. ASSUME NEW q \in Handlers, LandTouch(q) \/ LoseTouch(q) PROVE FALSE
  <2>1. handling'[q].step = handling[q].step /\ \A o \in Handlers \ {q} : handling'[o] = handling[o]
    BY <1>0, <1>3, TouchKinds DEF LandTouch, LoseTouch
  <2> QED BY <2>1
<1>4. ASSUME NEW q \in Handlers, Serve(q) \/ \E s \in SessionIds : ListOwn(q, s) PROVE FALSE
  <2>1. handling'[q].step # "resolved" /\ \A o \in Handlers \ {q} : handling'[o] = handling[o]
    BY <1>4, ServingKeeps
  <2> QED BY <2>1
<1>5. ~UNCHANGED handling
  OBVIOUS
<1> QED BY <1>1, <1>2, <1>3, <1>4, <1>5
        DEF RowsNext, Endings, Tick, RevokeAll, Prune, InsertSessionRow

(***************************************************************************)
(* The life of a session's row (auth/sessions.ts and runRetention), for    *)
(* any number of sessions, requests and instants: a session that was idle  *)
(* too long while nobody could touch it is resolved by no request again,   *)
(* the first revocation is the one that is told, and retention takes no    *)
(* row that a request could be served by.                                  *)
(***************************************************************************)
THEOREM RowsPromiseHolds == RowsSpec => RowsPromise
<1>1. RowsInit => RowsInvariant
  BY RowsBegin
<1>2. RowsInvariant /\ [RowsNext]_rowsVars => RowsInvariant'
  BY RowsStep
<1>3. RowsInvariant => RowsTypeOK
  BY DEF RowsInvariant
<1>4. RowsSpec => [][StaysOut]_rowsVars
  BY <1>1, <1>2, StaysOutStep, PTL DEF RowsSpec
<1>5. RowsSpec => [][FirstStands]_rowsVars
  BY <1>1, <1>2, FirstStandsStep, PTL DEF RowsSpec
<1>6. RowsSpec => [][PrunedWereOver]_rowsVars
  BY <1>1, <1>2, PrunedStep, PTL DEF RowsSpec
<1>7. RowsSpec => []RowsTypeOK
  BY <1>1, <1>2, <1>3, PTL DEF RowsSpec
<1> QED BY <1>4, <1>5, <1>6, <1>7
        DEF RowsPromise, StaysOut, FirstStands, PrunedWereOver, IdleSessionsStayOut,
            FirstRevocationStands, PrunedSessionsWereOver

----------------------------------------------------------------------------
\* The lock of the development sign-in (LocalSignIn).

\* While the account is locked, every attempt still to be judged had read the row before.
LocksAreSeen ==
  credential.locked => \A a \in Attempts : attempts[a].step = "read" => attempts[a].overlapped

LockInvariant == LocalTypeOK /\ LocksAreSeen

\* Only an attempt that is judged takes a lock off before its time.
GivesWayToOverlaps ==
  credential.locked /\ ~credential'.locked =>
    \/ LockPasses
    \/ \E a \in Attempts : attempts[a].overlapped /\ attempts'[a] # attempts[a]

LEMMA LocalTyped ==
  ASSUME LocalTypeOK
  PROVE  /\ NoAttempt \in Attempt /\ NoAttempt.step = "idle"
         /\ \A a \in Attempts : attempts[a] \in Attempt /\ attempts[a].failedAttempts \in Nat
         /\ credential.locked \in BOOLEAN /\ credential.failedAttempts \in 0 .. MaxFailedAttempts - 1
         /\ MaxFailedAttempts - 1 \in Nat
BY MaxFailedAssumption DEF LocalTypeOK, Attempt, NoAttempt

LEMMA FailureKeeps ==
  ASSUME LockInvariant, NEW a \in Attempts, RecordFailure(a)
  PROVE  LockInvariant' /\ GivesWayToOverlaps
<1>0. LocalTypeOK
  BY DEF LockInvariant
<1>1. PICK fields : fields = [failedAttempts |-> attempts[a].failedAttempts + 1, locked |-> FALSE]
  OBVIOUS
<1>2. credential' \in [failedAttempts : 0 .. MaxFailedAttempts - 1, locked : BOOLEAN]
  BY <1>0, LocalTyped, MaxFailedAssumption DEF RecordFailure, Locks, Counted
<1>3. \A b \in Attempts : [attempts[b] EXCEPT !.overlapped = TRUE] \in Attempt
  BY <1>0, LocalTyped DEF Attempt
<1>4. attempts' \in [Attempts -> Attempt]
  BY <1>0, <1>3, LocalTyped DEF RecordFailure
<1>5. guesses' \in Nat /\ isActive' \in BOOLEAN
  BY <1>0 DEF RecordFailure, LocalTypeOK
<1>6. LocalTypeOK'
  BY <1>2, <1>4, <1>5 DEF LocalTypeOK
<1>7. LocksAreSeen'
  <2> SUFFICES ASSUME credential'.locked, NEW b \in Attempts, attempts'[b].step = "read"
               PROVE  attempts'[b].overlapped
    BY DEF LocksAreSeen
  <2>1. Locks(a)
    BY DEF RecordFailure
  <2>2. b # a
    BY <1>0, LocalTyped DEF RecordFailure
  <2>3. CASE attempts[b].step = "read"
    <3>1. attempts'[b] = [attempts[b] EXCEPT !.overlapped = TRUE]
      BY <2>1, <2>2, <2>3 DEF RecordFailure
    <3> QED BY <1>0, <3>1, LocalTyped DEF Attempt
  <2>4. CASE attempts[b].step # "read"
    BY <2>2, <2>4 DEF RecordFailure
  <2> QED BY <2>3, <2>4
<1>8. GivesWayToOverlaps
  <2>1. attempts'[a] # attempts[a]
    BY <1>0, LocalTyped DEF RecordFailure
  <2> QED BY <2>1 DEF GivesWayToOverlaps, LockInvariant, LocksAreSeen, RecordFailure
<1> QED BY <1>6, <1>7, <1>8 DEF LockInvariant

LEMMA LocalStep ==
  LockInvariant /\ [LocalNext]_localVars => LockInvariant' /\ [GivesWayToOverlaps]_localVars
<1> SUFFICES ASSUME LockInvariant, [LocalNext]_localVars
             PROVE  LockInvariant' /\ [GivesWayToOverlaps]_localVars
  OBVIOUS
<1>0. LocalTypeOK
  BY DEF LockInvariant
<1>1. CASE UNCHANGED localVars
  BY <1>1 DEF localVars, LockInvariant, LocalTypeOK, LocksAreSeen
<1>2. ASSUME NEW a \in Attempts, NEW right \in BOOLEAN, ReadCredential(a, right)
      PROVE  LockInvariant' /\ GivesWayToOverlaps
  <2>1. [step |-> "read", right |-> right, failedAttempts |-> credential.failedAttempts,
         overlapped |-> FALSE] \in Attempt
    BY <1>0, LocalTyped DEF Attempt
  <2>2. LocalTypeOK'
    BY <1>0, <1>2, <2>1 DEF ReadCredential, LocalTypeOK
  <2>3. LocksAreSeen' /\ GivesWayToOverlaps
    BY <1>2 DEF ReadCredential, MayCompare, LocksAreSeen, GivesWayToOverlaps
  <2> QED BY <2>2, <2>3 DEF LockInvariant
<1>3. ASSUME NEW a \in Attempts, RecordSuccess(a) PROVE LockInvariant' /\ GivesWayToOverlaps
  <2>1. PICK new : new = [attempts[a] EXCEPT !.step = "authenticated"]
    OBVIOUS
  <2>2. new \in Attempt /\ new # attempts[a]
    BY <1>0, <1>3, <2>1, LocalTyped DEF RecordSuccess, Attempt
  <2>3. attempts' = [attempts EXCEPT ![a] = new] /\ attempts'[a] # attempts[a]
    BY <1>0, <1>3, <2>1, <2>2 DEF RecordSuccess, LocalTypeOK
  <2>4. LocalTypeOK'
    BY <1>0, <1>3, <2>2, <2>3, LocalTyped DEF RecordSuccess, LocalTypeOK
  <2>5. LocksAreSeen' /\ GivesWayToOverlaps
    BY <1>3, <2>3 DEF RecordSuccess, LocksAreSeen, GivesWayToOverlaps, LockInvariant
  <2> QED BY <2>4, <2>5 DEF LockInvariant
<1>4. ASSUME NEW a \in Attempts, AnswerAttempt(a) PROVE LockInvariant' /\ GivesWayToOverlaps
  <2>1. LocalTypeOK'
    BY <1>0, <1>4, LocalTyped DEF AnswerAttempt, LocalTypeOK
  <2>2. \A b \in Attempts : attempts'[b] \in {attempts[b], NoAttempt}
    BY <1>0, <1>4 DEF AnswerAttempt, LocalTypeOK
  <2>3. LocksAreSeen'
    BY <1>0, <1>4, <2>2, LocalTyped DEF AnswerAttempt, LocksAreSeen, LockInvariant
  <2>4. GivesWayToOverlaps
    BY <1>4 DEF AnswerAttempt, GivesWayToOverlaps
  <2> QED BY <2>1, <2>3, <2>4 DEF LockInvariant
<1>5. CASE LockPasses
  BY <1>0, <1>5 DEF LockPasses, LocalTypeOK, LocksAreSeen, GivesWayToOverlaps, LockInvariant
<1>6. CASE SetAccountActive
  BY <1>0, <1>6 DEF SetAccountActive, LocalTypeOK, LocksAreSeen, GivesWayToOverlaps, LockInvariant
<1> QED BY <1>1, <1>2, <1>3, <1>4, <1>5, <1>6, FailureKeeps DEF LocalNext

(***************************************************************************)
(* A lock of auth/local.ts that goes before its time is taken off by an    *)
(* attempt that had read the row before the account was locked, for any    *)
(* number of attempts at once and any limit: an attempt begun while the    *)
(* account is locked gets nowhere.                                         *)
(***************************************************************************)
THEOREM LocksGiveWayToOverlapsOnlyHolds == LocalSpec => []LocalTypeOK /\ LocksGiveWayToOverlapsOnly
<1>1. LocalInit => LockInvariant
  BY MaxFailedAssumption DEF LocalInit, LockInvariant, LocalTypeOK, LocksAreSeen, Attempt, NoAttempt
<1>2. LockInvariant /\ [LocalNext]_localVars => LockInvariant'
  BY LocalStep
<1>3. LockInvariant /\ [LocalNext]_localVars => [GivesWayToOverlaps]_localVars
  BY LocalStep
<1>4. LockInvariant => LocalTypeOK
  BY DEF LockInvariant
<1>5. LocalSpec => [][GivesWayToOverlaps]_localVars
  BY <1>1, <1>2, <1>3, PTL DEF LocalSpec
<1>6. LocalSpec => []LocalTypeOK
  BY <1>1, <1>2, <1>4, PTL DEF LocalSpec
<1> QED BY <1>5, <1>6 DEF LocksGiveWayToOverlapsOnly, GivesWayToOverlaps

----------------------------------------------------------------------------
\* Signing in with AIRAOS (SsoSignIn).

LEMMA SsoTyped ==
  ASSUME SsoTypeOK
  PROVE  /\ flows \in Nat /\ flows <= MaxFlows /\ MaxFlows \in Nat
         /\ jar \in 0 .. flows /\ answered \subseteq 1 .. flows
         /\ codes \in Seq(Code) /\ Len(codes) \in Nat /\ Len(codes) <= MaxCodes /\ MaxCodes \in Nat
         /\ \A i \in 1 .. Len(codes) : codes[i] \in Code
         /\ tabs \in [Tabs -> Tab] /\ posts \in [Posts -> Post]
         /\ \A t \in Tabs : tabs[t] \in Tab
         /\ \A p \in Posts : posts[p] \in Post
         /\ NoTab \notin Tabs
BY SsoAssumption, NoTabAssumption DEF SsoTypeOK

LEMMA SsoConstants ==
  /\ LoginPage \in Tab /\ LoginPage.page = "methods" /\ LoginPage.flow = 0 /\ LoginPage.code = 0
  /\ LoginPage.why = "none" /\ ~LoginPage.crossed
  /\ NoPost \in Post /\ NoPost.step = "idle" /\ NoPost.tab = NoTab /\ NoPost.cookie = 0 /\ NoPost.code = 0
BY SsoAssumption DEF LoginPage, NoPost, Tab, Post

\* A tab that waits for no answer goes to a page on which nothing is under way.
LEMMA TabTurns ==
  ASSUME SsoInvariant, NEW t \in Tabs, tabs[t].page # "posting", NEW new \in Tab,
         tabs' = [tabs EXCEPT ![t] = new], UNCHANGED <<flows, jar, codes, posts, answered>>,
         new.page \in {"methods", "login", "failed"},
         \/ new.flow = 0 /\ new.code = 0
         \/ new.flow = tabs[t].flow /\ new.code = tabs[t].code,
         new.page # "failed" => new.code = 0,
         new.why = "mismatch" => new.crossed
  PROVE  SsoInvariant'
<1>0. SsoTypeOK /\ tabs \in [Tabs -> Tab] /\ tabs'[t] = new /\ \A u \in Tabs \ {t} : tabs'[u] = tabs[u]
  BY DEF SsoInvariant, SsoPromise, SsoTypeOK
<1>1. SsoTypeOK'
  BY <1>0 DEF SsoTypeOK
<1>2. \A p \in Posts : posts[p].tab # t
  <2>1. \A p \in Posts : posts[p].tab # NoTab => tabs[posts[p].tab].page = "posting"
    BY DEF SsoInvariant, CodesAreOneTabs
  <2> QED BY <2>1, NoTabAssumption
<1>3. NumbersAreGiven'
  <2>0. NumbersAreGiven /\ flows \in Nat /\ Len(codes) \in Nat
    BY <1>0, SsoTyped DEF SsoInvariant
  <2>1. /\ new.flow \in 0 .. flows /\ new.code \in 0 .. Len(codes)
        /\ new.code # 0 => new.flow # 0
        /\ new.page \in {"methods", "login", "starting"} => new.code = 0
    BY <2>0 DEF NumbersAreGiven
  <2> QED BY <1>0, <2>0, <2>1 DEF NumbersAreGiven
<1>4. BegunFlowsAreFresh'
  BY <1>0 DEF SsoInvariant, BegunFlowsAreFresh
<1>5. CodesAreOneTabs'
  BY <1>0, <1>2 DEF SsoInvariant, CodesAreOneTabs
<1>6. LoneSignInsHold'
  BY <1>0, <1>2 DEF SsoInvariant, LoneSignInsHold, HoldsItsSignIn, Unspent
<1>7. LoneSignInsAreNotMismatched' /\ AnsweredFlowsLeaveTheJar'
  BY <1>0 DEF SsoInvariant, SsoPromise, LoneSignInsAreNotMismatched, AnsweredFlowsLeaveTheJar
<1> QED BY <1>1, <1>3, <1>4, <1>5, <1>6, <1>7 DEF SsoInvariant, SsoPromise

LEMMA TurningKeeps ==
  ASSUME SsoInvariant, NEW t \in Tabs,
         \/ MethodsArrive(t) \/ MethodsFail(t) \/ MethodsGivenUp(t)
         \/ StartFails(t) \/ Decline(t) \/ BackToSignIn(t)
  PROVE  SsoInvariant'
<1>0. /\ tabs[t] \in Tab /\ tabs \in [Tabs -> Tab]
      /\ tabs[t].why = "mismatch" => tabs[t].crossed
      /\ tabs[t].page \in {"methods", "login", "starting"} => tabs[t].code = 0
  BY DEF SsoInvariant, SsoPromise, SsoTypeOK, LoneSignInsAreNotMismatched, NumbersAreGiven
<1>1. PICK new \in Tab :
        /\ tabs' = [tabs EXCEPT ![t] = new] /\ new.page \in {"methods", "login", "failed"}
        /\ \/ new.flow = 0 /\ new.code = 0
           \/ new.flow = tabs[t].flow /\ new.code = tabs[t].code
        /\ new.page # "failed" => new.code = 0
        /\ new.why = "mismatch" => new.crossed
  <2>1. CASE MethodsArrive(t)
    <3>1. PICK new : new = [tabs[t] EXCEPT !.page = "login"]
      OBVIOUS
    <3>2. /\ new \in Tab /\ new.page = "login" /\ new.flow = tabs[t].flow /\ new.code = tabs[t].code
          /\ new.why = tabs[t].why /\ new.crossed = tabs[t].crossed
      BY <1>0, <3>1 DEF Tab
    <3> QED BY <1>0, <2>1, <3>1, <3>2 DEF MethodsArrive
  <2>2. CASE MethodsFail(t)
    <3>1. PICK new : new = [tabs[t] EXCEPT !.tries = @ + 1]
      OBVIOUS
    <3>2. /\ new \in Tab /\ new.page = "methods" /\ new.flow = tabs[t].flow /\ new.code = tabs[t].code
          /\ new.why = tabs[t].why /\ new.crossed = tabs[t].crossed
      BY <1>0, <2>2, <3>1, SsoAssumption DEF Tab, MethodsFail
    <3> QED BY <1>0, <2>2, <3>1, <3>2 DEF MethodsFail
  <2>3. CASE MethodsGivenUp(t)
    <3>1. PICK new : new = [tabs[t] EXCEPT !.page = "failed", !.why = "network"]
      OBVIOUS
    <3>2. /\ new \in Tab /\ new.page = "failed" /\ new.flow = tabs[t].flow /\ new.code = tabs[t].code
          /\ new.why = "network"
      BY <1>0, <3>1 DEF Tab
    <3>3. tabs' = [tabs EXCEPT ![t] = new]
      BY <1>0, <2>3, <3>1 DEF MethodsGivenUp
    <3> QED BY <3>2, <3>3
  <2>4. CASE StartFails(t)
    <3>1. PICK new : new = [tabs[t] EXCEPT !.page = "login", !.flow = 0]
      OBVIOUS
    <3>2. /\ new \in Tab /\ new.page = "login" /\ new.flow = 0 /\ new.code = tabs[t].code
          /\ new.why = tabs[t].why /\ new.crossed = tabs[t].crossed
      <4>1. 0 \in 0 .. MaxFlows
        BY SsoAssumption
      <4> QED BY <1>0, <3>1, <4>1 DEF Tab
    <3>3. tabs' = [tabs EXCEPT ![t] = new]
      BY <1>0, <2>4, <3>1 DEF StartFails
    <3> QED BY <1>0, <2>4, <3>2, <3>3 DEF StartFails
  <2>5. CASE Decline(t)
    <3>1. PICK new : new = [tabs[t] EXCEPT !.page = "failed", !.why = "provider"]
      OBVIOUS
    <3>2. /\ new \in Tab /\ new.page = "failed" /\ new.flow = tabs[t].flow /\ new.code = tabs[t].code
          /\ new.why = "provider"
      BY <1>0, <3>1 DEF Tab
    <3>3. tabs' = [tabs EXCEPT ![t] = new]
      BY <1>0, <2>5, <3>1 DEF Decline
    <3> QED BY <3>2, <3>3
  <2>6. CASE BackToSignIn(t)
    BY <2>6, SsoConstants DEF BackToSignIn
  <2> QED BY <2>1, <2>2, <2>3, <2>4, <2>5, <2>6
<1>2. UNCHANGED <<flows, jar, codes, posts, answered>> /\ tabs[t].page # "posting"
  BY DEF MethodsArrive, MethodsFail, MethodsGivenUp, StartFails, Decline, BackToSignIn
<1> QED BY <1>1, <1>2, TabTurns

LEMMA StartKeeps ==
  ASSUME SsoInvariant, NEW t \in Tabs, StartSso(t) PROVE SsoInvariant'
<1>0. SsoTypeOK /\ NumbersAreGiven /\ flows \in Nat /\ flows < MaxFlows /\ MaxFlows \in Nat
      /\ jar \in 0 .. flows /\ answered \subseteq 1 .. flows /\ flows' = flows + 1
  BY SsoTyped DEF SsoInvariant, SsoPromise, StartSso
<1>1. PICK new : new = [LoginPage EXCEPT !.page = "starting", !.flow = flows + 1]
  OBVIOUS
<1>2. /\ new \in Tab /\ new.page = "starting" /\ new.flow = flows + 1 /\ new.code = 0
      /\ new.why = "none"
  <2>1. flows + 1 \in 0 .. MaxFlows
    BY <1>0
  <2> QED BY <1>1, <2>1, SsoConstants DEF Tab
<1>3. /\ tabs' = [tabs EXCEPT ![t] = new] /\ tabs'[t] = new /\ \A u \in Tabs \ {t} : tabs'[u] = tabs[u]
      /\ UNCHANGED <<jar, codes, posts, answered>> /\ tabs[t].page = "login"
  BY <1>0, <1>1 DEF StartSso, SsoTypeOK
<1>4. SsoTypeOK'
  <2>1. jar \in 0 .. flows' /\ answered \subseteq 1 .. flows' /\ flows' \in 0 .. MaxFlows
    BY <1>0
  <2> QED BY <1>0, <1>2, <1>3, <2>1 DEF SsoTypeOK
<1>5. \A p \in Posts : posts[p].tab # t
  <2>1. \A p \in Posts : posts[p].tab # NoTab => tabs[posts[p].tab].page = "posting"
    BY DEF SsoInvariant, CodesAreOneTabs
  <2> QED BY <1>3, <2>1, NoTabAssumption
<1>6. NumbersAreGiven'
  <2>1. Len(codes) \in Nat
    BY <1>0, SsoTyped
  <2>2. 0 .. flows \subseteq 0 .. flows' /\ flows + 1 \in 0 .. flows' /\ flows + 1 # 0
    BY <1>0
  <2> QED BY <1>0, <1>2, <1>3, <2>1, <2>2 DEF NumbersAreGiven
<1>7. BegunFlowsAreFresh'
  <2>1. /\ \A u \in Tabs : tabs[u].flow # flows + 1
        /\ \A p \in Posts : posts[p].cookie # flows + 1
        /\ flows + 1 # jar /\ flows + 1 \notin answered
    BY <1>0 DEF NumbersAreGiven
  <2> QED BY <1>2, <1>3, <2>1 DEF SsoInvariant, BegunFlowsAreFresh
<1>8. CodesAreOneTabs'
  BY <1>2, <1>3, <1>5 DEF SsoInvariant, CodesAreOneTabs
<1>9. LoneSignInsHold'
  BY <1>2, <1>3, <1>5 DEF SsoInvariant, LoneSignInsHold, HoldsItsSignIn, Unspent
<1>10. LoneSignInsAreNotMismatched' /\ AnsweredFlowsLeaveTheJar'
  BY <1>2, <1>3 DEF SsoInvariant, SsoPromise, LoneSignInsAreNotMismatched, AnsweredFlowsLeaveTheJar
<1> QED BY <1>4, <1>6, <1>7, <1>8, <1>9, <1>10 DEF SsoInvariant, SsoPromise

\* What crossing another tab does to it.
LEMMA CrossedKinds ==
  ASSUME SsoTypeOK, NEW t
  PROVE  /\ Crossed(t) \in [Tabs -> Tab]
         /\ \A u \in Tabs : /\ Crossed(t)[u].page = tabs[u].page /\ Crossed(t)[u].flow = tabs[u].flow
                            /\ Crossed(t)[u].code = tabs[u].code /\ Crossed(t)[u].why = tabs[u].why
                            /\ tabs[u].crossed => Crossed(t)[u].crossed
                            /\ u # t /\ tabs[u].page \in {"idp", "callback", "posting"} => Crossed(t)[u].crossed
                            /\ u = t => Crossed(t)[u] = tabs[u]
<1>1. \A u \in Tabs : tabs[u] \in Tab
  BY SsoTyped
<1> SUFFICES ASSUME NEW u \in Tabs
             PROVE  /\ Crossed(t)[u] \in Tab
                    /\ Crossed(t)[u].page = tabs[u].page /\ Crossed(t)[u].flow = tabs[u].flow
                    /\ Crossed(t)[u].code = tabs[u].code /\ Crossed(t)[u].why = tabs[u].why
                    /\ tabs[u].crossed => Crossed(t)[u].crossed
                    /\ u # t /\ tabs[u].page \in {"idp", "callback", "posting"} => Crossed(t)[u].crossed
                    /\ u = t => Crossed(t)[u] = tabs[u]
  BY DEF Crossed
<1>2. PICK new : new = [tabs[u] EXCEPT !.crossed = TRUE]
  OBVIOUS
<1>3. /\ new \in Tab /\ new.page = tabs[u].page /\ new.flow = tabs[u].flow
      /\ new.code = tabs[u].code /\ new.why = tabs[u].why /\ new.crossed
  BY <1>1, <1>2 DEF Tab
<1>4. CASE u # t /\ tabs[u].page \in {"idp", "callback", "posting"}
  <2>1. Crossed(t)[u] = new
    BY <1>2, <1>4 DEF Crossed
  <2> QED BY <1>3, <1>4, <2>1
<1>5. CASE ~(u # t /\ tabs[u].page \in {"idp", "callback", "posting"})
  <2>1. Crossed(t)[u] = tabs[u]
    BY <1>5 DEF Crossed
  <2> QED BY <1>1, <1>5, <2>1
<1> QED BY <1>4, <1>5

LEMMA RedirectKeeps ==
  ASSUME SsoInvariant, NEW t \in Tabs, Redirect(t) PROVE SsoInvariant'
<1>0. SsoTypeOK /\ NumbersAreGiven /\ BegunFlowsAreFresh /\ tabs[t].page = "starting" /\ jar' = tabs[t].flow
      /\ tabs[t] \in Tab
  BY SsoTyped DEF SsoInvariant, SsoPromise, Redirect
<1>1. PICK others : others = Crossed(t)
  OBVIOUS
<1>2. /\ others \in [Tabs -> Tab] /\ others[t] = tabs[t]
      /\ \A u \in Tabs : /\ others[u].page = tabs[u].page /\ others[u].flow = tabs[u].flow
                         /\ others[u].code = tabs[u].code /\ others[u].why = tabs[u].why
                         /\ tabs[u].crossed => others[u].crossed
                         /\ u # t /\ tabs[u].page \in {"idp", "callback", "posting"} => others[u].crossed
  BY <1>0, <1>1, CrossedKinds
<1>3. PICK new : new = [tabs[t] EXCEPT !.page = "idp"]
  OBVIOUS
<1>4. /\ new \in Tab /\ new.page = "idp" /\ new.flow = tabs[t].flow /\ new.code = tabs[t].code
      /\ new.why = tabs[t].why /\ new.crossed = tabs[t].crossed
  BY <1>0, <1>3 DEF Tab
<1>5. /\ tabs' = [others EXCEPT ![t] = new] /\ tabs'[t] = new /\ \A u \in Tabs \ {t} : tabs'[u] = others[u]
      /\ UNCHANGED <<flows, codes, posts, answered>>
  BY <1>0, <1>1, <1>2, <1>3 DEF Redirect
<1>6. SsoTypeOK'
  <2>1. tabs[t].flow \in 0 .. flows
    BY <1>0 DEF NumbersAreGiven
  <2> QED BY <1>0, <1>2, <1>4, <1>5, <2>1 DEF SsoTypeOK
<1>7. \A p \in Posts : posts[p].tab # t
  <2>1. \A p \in Posts : posts[p].tab # NoTab => tabs[posts[p].tab].page = "posting"
    BY DEF SsoInvariant, CodesAreOneTabs
  <2> QED BY <1>0, <2>1, NoTabAssumption
<1>8. NumbersAreGiven'
  BY <1>0, <1>2, <1>4, <1>5 DEF NumbersAreGiven
<1>9. BegunFlowsAreFresh'
  <2> SUFFICES ASSUME NEW u \in Tabs, tabs'[u].page = "starting"
               PROVE  /\ tabs[u].page = "starting" /\ u # t /\ tabs'[u].flow = tabs[u].flow
                      /\ tabs'[u].flow # jar'
    BY <1>2, <1>4, <1>5, <1>0 DEF BegunFlowsAreFresh
  <2>1. u # t /\ tabs'[u].flow = tabs[u].flow /\ tabs[u].page = "starting"
    BY <1>2, <1>4, <1>5
  <2> QED BY <1>0, <2>1 DEF BegunFlowsAreFresh
<1>10. CodesAreOneTabs'
  <2>1. \A u \in Tabs : /\ tabs'[u].code = tabs[u].code /\ tabs'[u].flow = tabs[u].flow
                        /\ u # t => tabs'[u].page = tabs[u].page
    BY <1>2, <1>4, <1>5
  <2>2. \A p \in Posts : posts[p].tab # NoTab => posts[p].tab \in Tabs
    BY <1>0, SsoTyped DEF Post
  <2> QED BY <1>5, <1>7, <2>1, <2>2 DEF SsoInvariant, CodesAreOneTabs
<1>11. LoneSignInsHold'
  <2> SUFFICES ASSUME NEW u \in Tabs, ~tabs'[u].crossed
               PROVE  HoldsItsSignIn(u)'
    BY DEF LoneSignInsHold
  <2>1. CASE u = t
    <3>1. posts' = posts /\ jar' = tabs'[u].flow /\ tabs'[u].page = "idp" /\ \A p \in Posts : posts[p].tab # u
      BY <1>0, <1>4, <1>5, <1>7, <2>1
    <3> QED BY <3>1 DEF HoldsItsSignIn
  <2>2. CASE u # t
    <3>1. tabs'[u].page \notin {"idp", "callback", "posting"} /\ tabs[u].page \notin {"idp", "callback", "posting"}
      BY <1>2, <1>5, <2>2
    <3>2. \A p \in Posts : posts[p].tab # NoTab => tabs[posts[p].tab].page = "posting"
      BY DEF SsoInvariant, CodesAreOneTabs
    <3>3. posts' = posts /\ \A p \in Posts : posts[p].tab # u
      BY <1>5, <3>1, <3>2, NoTabAssumption
    <3> QED BY <3>1, <3>3 DEF HoldsItsSignIn
  <2> QED BY <2>1, <2>2
<1>12. LoneSignInsAreNotMismatched'
  BY <1>2, <1>4, <1>5 DEF SsoInvariant, SsoPromise, LoneSignInsAreNotMismatched
<1>13. AnsweredFlowsLeaveTheJar'
  BY <1>0, <1>5 DEF BegunFlowsAreFresh, AnsweredFlowsLeaveTheJar
<1> QED BY <1>6, <1>8, <1>9, <1>10, <1>11, <1>12, <1>13 DEF SsoInvariant, SsoPromise

LEMMA AuthorisationKeeps ==
  ASSUME SsoInvariant, NEW t \in Tabs, RequestAuthorisation(t) PROVE SsoInvariant'
<1>0. /\ SsoTypeOK /\ NumbersAreGiven /\ tabs[t].page = "idp" /\ tabs[t] \in Tab
      /\ codes \in Seq(Code) /\ Len(codes) \in Nat /\ Len(codes) < MaxCodes /\ MaxCodes \in Nat
      /\ flows \in Nat /\ flows <= MaxFlows /\ MaxFlows \in Nat
  BY SsoTyped DEF SsoInvariant, SsoPromise, RequestAuthorisation
<1>1. PICK code : code = [flow |-> tabs[t].flow, spent |-> FALSE]
  OBVIOUS
<1>2. code \in Code
  <2>1. tabs[t].flow \in 1 .. MaxFlows
    BY <1>0 DEF NumbersAreGiven
  <2> QED BY <1>1, <2>1 DEF Code
<1>3. PICK new : new = [tabs[t] EXCEPT !.page = "callback", !.code = Len(codes) + 1]
  OBVIOUS
<1>4. /\ new \in Tab /\ new.page = "callback" /\ new.flow = tabs[t].flow /\ new.code = Len(codes) + 1
      /\ new.why = tabs[t].why /\ new.crossed = tabs[t].crossed
  <2>1. Len(codes) + 1 \in 0 .. MaxCodes
    BY <1>0
  <2> QED BY <1>0, <1>3, <2>1 DEF Tab
<1>5. /\ tabs' = [tabs EXCEPT ![t] = new] /\ codes' = Append(codes, code)
      /\ UNCHANGED <<flows, jar, posts, answered>>
  BY <1>0, <1>1, <1>3 DEF RequestAuthorisation, SsoTypeOK
<1>6. tabs'[t] = new /\ \A u \in Tabs \ {t} : tabs'[u] = tabs[u]
  BY <1>0, <1>5 DEF SsoTypeOK
<1>7. /\ codes' \in Seq(Code) /\ Len(codes') = Len(codes) + 1 /\ codes'[Len(codes) + 1] = code
      /\ \A i \in 1 .. Len(codes) : codes'[i] = codes[i]
  BY <1>0, <1>2, <1>5
<1>8. SsoTypeOK'
  <2>1. Len(codes') <= MaxCodes
    BY <1>0, <1>7
  <2> QED BY <1>0, <1>4, <1>5, <1>7, <2>1 DEF SsoTypeOK
<1>9. \A p \in Posts : posts[p].tab # t
  <2>1. \A p \in Posts : posts[p].tab # NoTab => tabs[posts[p].tab].page = "posting"
    BY DEF SsoInvariant, CodesAreOneTabs
  <2> QED BY <1>0, <2>1, NoTabAssumption
<1>10. NumbersAreGiven'
  <2>1. 0 .. Len(codes) \subseteq 0 .. Len(codes') /\ Len(codes) + 1 \in 0 .. Len(codes') /\ Len(codes) + 1 # 0
    BY <1>0, <1>7
  <2> QED BY <1>0, <1>4, <1>5, <1>6, <2>1 DEF NumbersAreGiven
<1>11. BegunFlowsAreFresh'
  BY <1>4, <1>5, <1>6 DEF SsoInvariant, BegunFlowsAreFresh
<1>12. (\A u \in Tabs : tabs[u].code # Len(codes) + 1) /\ (\A p \in Posts : posts[p].code # Len(codes) + 1)
  BY <1>0 DEF NumbersAreGiven
<1>13. CodesAreOneTabs'
  BY <1>4, <1>5, <1>6, <1>9, <1>12 DEF SsoInvariant, CodesAreOneTabs
<1>14. LoneSignInsHold'
  <2> SUFFICES ASSUME NEW u \in Tabs, ~tabs'[u].crossed
               PROVE  HoldsItsSignIn(u)'
    BY DEF LoneSignInsHold
  <2>1. CASE u = t
    <3>1. ~tabs[t].crossed /\ jar = tabs[t].flow
      BY <1>0, <1>4, <1>6, <2>1 DEF SsoInvariant, LoneSignInsHold, HoldsItsSignIn
    <3>2. /\ posts' = posts /\ jar' = tabs'[u].flow /\ tabs'[u].page = "callback"
          /\ \A p \in Posts : posts[p].tab # u /\ posts[p].code # tabs'[u].code
      BY <1>4, <1>5, <1>6, <1>9, <1>12, <2>1, <3>1
    <3>3. Unspent(u)'
      BY <1>1, <1>4, <1>6, <1>7, <2>1 DEF Unspent
    <3> QED BY <3>2, <3>3 DEF HoldsItsSignIn
  <2>2. CASE u # t
    <3>1. tabs'[u] = tabs[u] /\ (tabs[u].code # 0 => codes'[tabs[u].code] = codes[tabs[u].code])
      BY <1>0, <1>6, <1>7, <2>2 DEF NumbersAreGiven
    <3>2. tabs[u].page = "callback" \/ (\E p \in Posts : posts[p].tab = u) => tabs[u].code # 0
      <4>1. \A p \in Posts : posts[p].tab # NoTab => tabs[posts[p].tab].page = "posting"
        BY DEF SsoInvariant, CodesAreOneTabs
      <4> QED BY <1>0, <4>1, NoTabAssumption DEF NumbersAreGiven
    <3>3. HoldsItsSignIn(u) /\ posts' = posts /\ jar' = jar
      BY <1>5, <3>1 DEF SsoInvariant, LoneSignInsHold
    <3>4. tabs[u].code # 0 => (Unspent(u) => Unspent(u)')
      BY <3>1 DEF Unspent
    <3> QED BY <3>1, <3>2, <3>3, <3>4 DEF HoldsItsSignIn
  <2> QED BY <2>1, <2>2
<1>15. LoneSignInsAreNotMismatched' /\ AnsweredFlowsLeaveTheJar'
  BY <1>4, <1>5, <1>6 DEF SsoInvariant, SsoPromise, LoneSignInsAreNotMismatched, AnsweredFlowsLeaveTheJar
<1> QED BY <1>8, <1>10, <1>11, <1>13, <1>14, <1>15 DEF SsoInvariant, SsoPromise

\* What the code says of the posts a tab still waits for.
LEMMA WaitedPosts ==
  ASSUME SsoInvariant
  PROVE  \A p \in Posts : posts[p].tab # NoTab =>
           /\ posts[p].tab \in Tabs /\ tabs[posts[p].tab].page = "posting" /\ posts[p].step # "idle"
           /\ posts[p].code = tabs[posts[p].tab].code /\ posts[p].state = tabs[posts[p].tab].flow
           /\ \A q \in Posts \ {p} : posts[q].tab # posts[p].tab
<1>1. \A p \in Posts : posts[p].tab # NoTab => posts[p].tab \in Tabs
  BY SsoTyped DEF Post, SsoInvariant, SsoPromise
<1> QED BY <1>1 DEF SsoInvariant, CodesAreOneTabs

\* A page is left: its post, if there is one, is nobody's.
LEMMA LeavingKeeps ==
  ASSUME SsoInvariant, NEW t \in Tabs, GoBack(t) \/ ReloadLogin(t) PROVE SsoInvariant'
<1>0. SsoTypeOK /\ NumbersAreGiven /\ tabs[t] \in Tab
  BY SsoTyped DEF SsoInvariant, SsoPromise
<1>1. PICK page \in {"idp", "callback"} :
        /\ tabs' = [tabs EXCEPT ![t].page = page, ![t].why = "none", ![t].crossed = TRUE]
        /\ tabs[t].flow # 0 /\ (page = "callback" => tabs[t].code # 0)
  <2>1. CASE GoBack(t)
    BY <2>1 DEF GoBack
  <2>2. CASE ReloadLogin(t)
    <3>1. tabs[t].flow # 0 /\ tabs[t].code # 0
      BY <1>0, <2>2 DEF ReloadLogin, NumbersAreGiven
    <3> QED BY <2>2, <3>1 DEF ReloadLogin
  <2> QED BY <2>1, <2>2
<1>2. PICK other : other = [tabs[t] EXCEPT !.page = page, !.why = "none"]
  OBVIOUS
<1>3. /\ other \in Tab /\ other.page = page /\ other.why = "none" /\ other.flow = tabs[t].flow
      /\ other.code = tabs[t].code
  BY <1>0, <1>2 DEF Tab
<1>4. PICK new : new = [other EXCEPT !.crossed = TRUE]
  OBVIOUS
<1>5. /\ new \in Tab /\ new.page = page /\ new.why = "none" /\ new.flow = tabs[t].flow
      /\ new.code = tabs[t].code /\ new.crossed
  BY <1>3, <1>4 DEF Tab
<1>6. tabs' = [tabs EXCEPT ![t] = new] /\ tabs'[t] = new /\ \A u \in Tabs \ {t} : tabs'[u] = tabs[u]
  BY <1>0, <1>1, <1>2, <1>4 DEF SsoTypeOK
<1>7. UNCHANGED <<flows, jar, codes, answered>> /\ posts' = Left(t)
  BY DEF GoBack, ReloadLogin
<1>8. /\ posts' \in [Posts -> Post]
      /\ \A p \in Posts : /\ posts'[p].step = posts[p].step /\ posts'[p].code = posts[p].code
                          /\ posts'[p].cookie = posts[p].cookie /\ posts'[p].state = posts[p].state
                          /\ posts[p].tab = t => posts'[p].tab = NoTab
                          /\ posts[p].tab # t => posts'[p].tab = posts[p].tab
  <2> SUFFICES ASSUME NEW p \in Posts
               PROVE  /\ posts'[p] \in Post
                      /\ posts'[p].step = posts[p].step /\ posts'[p].code = posts[p].code
                      /\ posts'[p].cookie = posts[p].cookie /\ posts'[p].state = posts[p].state
                      /\ posts[p].tab = t => posts'[p].tab = NoTab
                      /\ posts[p].tab # t => posts'[p].tab = posts[p].tab
    BY <1>7 DEF Left
  <2>1. PICK post : post = [posts[p] EXCEPT !.tab = NoTab]
    OBVIOUS
  <2>2. posts[p] \in Post
    BY <1>0, SsoTyped
  <2>3. /\ post \in Post /\ post.step = posts[p].step /\ post.code = posts[p].code
        /\ post.cookie = posts[p].cookie /\ post.state = posts[p].state /\ post.tab = NoTab
    BY <2>1, <2>2 DEF Post
  <2>4. posts'[p] = IF posts[p].tab = t THEN post ELSE posts[p]
    BY <1>7, <2>1 DEF Left
  <2> QED BY <2>2, <2>3, <2>4
<1>9. SsoTypeOK'
  BY <1>0, <1>5, <1>6, <1>7, <1>8 DEF SsoTypeOK
<1>10. tabs[t].flow # 0 /\ tabs[t].code \in 0 .. Len(codes) /\ (page = "callback" => tabs[t].code # 0)
  BY <1>0, <1>1 DEF NumbersAreGiven
<1>11. NumbersAreGiven'
  BY <1>0, <1>5, <1>6, <1>7, <1>8, <1>10 DEF NumbersAreGiven
<1>12. BegunFlowsAreFresh'
  BY <1>5, <1>6, <1>7, <1>8 DEF SsoInvariant, BegunFlowsAreFresh
<1>13. \A u \in Tabs : tabs'[u].code = tabs[u].code /\ (u # t => tabs'[u] = tabs[u])
  BY <1>5, <1>6
<1>14. \A p \in Posts : posts'[p].tab # NoTab => posts[p].tab = posts'[p].tab /\ posts[p].tab # t
  BY <1>8
<1>15. CodesAreOneTabs'
  <2>1. \A p \in Posts : posts'[p].tab # NoTab =>
          /\ tabs'[posts'[p].tab].page = "posting" /\ posts'[p].step # "idle"
          /\ posts'[p].code = tabs'[posts'[p].tab].code /\ posts'[p].state = tabs'[posts'[p].tab].flow
          /\ \A q \in Posts \ {p} : posts'[q].tab # posts'[p].tab
    BY <1>8, <1>13, <1>14, WaitedPosts
  <2> QED BY <1>13, <2>1 DEF SsoInvariant, CodesAreOneTabs
<1>16. LoneSignInsHold'
  <2> SUFFICES ASSUME NEW u \in Tabs, ~tabs'[u].crossed
               PROVE  HoldsItsSignIn(u)'
    BY DEF LoneSignInsHold
  <2>1. u # t /\ tabs'[u] = tabs[u] /\ u # NoTab
    BY <1>5, <1>6, NoTabAssumption
  <2>2. \A p \in Posts : posts[p].tab = u <=> posts'[p].tab = u
    BY <1>8, <2>1
  <2>3. jar' = jar /\ codes' = codes /\ ~tabs[u].crossed
    BY <1>7, <2>1
  <2>4. HoldsItsSignIn(u) /\ (Unspent(u)' <=> Unspent(u))
    BY <2>1, <2>3 DEF SsoInvariant, LoneSignInsHold, Unspent
  <2> QED BY <1>8, <2>1, <2>2, <2>3, <2>4 DEF HoldsItsSignIn
<1>17. LoneSignInsAreNotMismatched' /\ AnsweredFlowsLeaveTheJar'
  BY <1>5, <1>6, <1>7 DEF SsoInvariant, SsoPromise, LoneSignInsAreNotMismatched, AnsweredFlowsLeaveTheJar
<1> QED BY <1>9, <1>11, <1>12, <1>15, <1>16, <1>17 DEF SsoInvariant, SsoPromise

LEMMA PostKeeps ==
  ASSUME SsoInvariant, NEW t \in Tabs, NEW p \in Posts, PostCallback(t, p) PROVE SsoInvariant'
<1>0. /\ SsoTypeOK /\ NumbersAreGiven /\ tabs[t] \in Tab /\ tabs[t].page = "callback"
      /\ posts[p].step = "idle" /\ jar \in 0 .. flows /\ flows \in Nat /\ flows <= MaxFlows /\ MaxFlows \in Nat
      /\ UNCHANGED <<flows, jar, codes, answered>>
  BY SsoTyped DEF SsoInvariant, SsoPromise, PostCallback
<1>1. PICK new : new = [tabs[t] EXCEPT !.page = "posting"]
  OBVIOUS
<1>2. /\ new \in Tab /\ new.page = "posting" /\ new.flow = tabs[t].flow /\ new.code = tabs[t].code
      /\ new.why = tabs[t].why /\ new.crossed = tabs[t].crossed
  BY <1>0, <1>1 DEF Tab
<1>3. PICK post : post = [step |-> "sent", tab |-> t, code |-> tabs[t].code, state |-> tabs[t].flow, cookie |-> jar]
  OBVIOUS
<1>4. /\ post \in Post /\ post.step = "sent" /\ post.tab = t /\ post.code = tabs[t].code
      /\ post.state = tabs[t].flow /\ post.cookie = jar
  <2>1. jar \in 0 .. MaxFlows /\ tabs[t].flow \in 0 .. MaxFlows /\ tabs[t].code \in 0 .. MaxCodes
    BY <1>0 DEF Tab
  <2> QED BY <1>3, <2>1 DEF Post
<1>5. /\ tabs' = [tabs EXCEPT ![t] = new] /\ tabs'[t] = new /\ \A u \in Tabs \ {t} : tabs'[u] = tabs[u]
      /\ posts' = [posts EXCEPT ![p] = post] /\ posts'[p] = post /\ \A q \in Posts \ {p} : posts'[q] = posts[q]
  BY <1>0, <1>1, <1>3 DEF PostCallback, Exchanged, SsoTypeOK
<1>6. SsoTypeOK'
  BY <1>0, <1>2, <1>4, <1>5 DEF SsoTypeOK
<1>7. tabs[t].code # 0 /\ tabs[t].flow # 0
  BY <1>0 DEF NumbersAreGiven
<1>8. NumbersAreGiven'
  BY <1>0, <1>2, <1>4, <1>5, <1>7 DEF NumbersAreGiven
<1>9. BegunFlowsAreFresh'
  <2> SUFFICES ASSUME NEW u \in Tabs, tabs'[u].page = "starting"
               PROVE  /\ tabs'[u] = tabs[u] /\ u # t /\ \A q \in Posts : posts'[q].cookie # tabs[u].flow
    BY <1>0, <1>2, <1>5 DEF SsoInvariant, BegunFlowsAreFresh
  <2>1. u # t /\ tabs'[u] = tabs[u]
    BY <1>2, <1>5
  <2> QED BY <1>4, <1>5, <2>1 DEF SsoInvariant, BegunFlowsAreFresh
<1>10. \A q \in Posts : posts[q].tab # t
  BY <1>0, WaitedPosts, NoTabAssumption
<1>11. \A u \in Tabs : tabs'[u].code = tabs[u].code /\ tabs'[u].flow = tabs[u].flow
  BY <1>2, <1>5
<1>12. CodesAreOneTabs'
  <2>1. \A q \in Posts : posts'[q].tab # NoTab =>
          /\ tabs'[posts'[q].tab].page = "posting" /\ posts'[q].step # "idle"
          /\ posts'[q].code = tabs'[posts'[q].tab].code /\ posts'[q].state = tabs'[posts'[q].tab].flow
          /\ \A o \in Posts \ {q} : posts'[o].tab # posts'[q].tab
    <3> SUFFICES ASSUME NEW q \in Posts, posts'[q].tab # NoTab
                 PROVE  /\ tabs'[posts'[q].tab].page = "posting" /\ posts'[q].step # "idle"
                        /\ posts'[q].code = tabs'[posts'[q].tab].code /\ posts'[q].state = tabs'[posts'[q].tab].flow
                        /\ \A o \in Posts \ {q} : posts'[o].tab # posts'[q].tab
      OBVIOUS
    <3>1. CASE q = p
      BY <1>2, <1>4, <1>5, <1>10, <3>1
    <3>2. CASE q # p
      BY <1>4, <1>5, <1>10, <1>11, <3>2, WaitedPosts
    <3> QED BY <3>1, <3>2
  <2> QED BY <1>11, <2>1 DEF SsoInvariant, CodesAreOneTabs
<1>13. LoneSignInsHold'
  <2> SUFFICES ASSUME NEW u \in Tabs, ~tabs'[u].crossed
               PROVE  HoldsItsSignIn(u)'
    BY DEF LoneSignInsHold
  <2>1. CASE u = t
    <3>1. HoldsItsSignIn(t)
      <4>1. ~tabs[t].crossed
        BY <1>2, <1>5, <2>1
      <4> QED BY <4>1 DEF SsoInvariant, LoneSignInsHold
    <3>2. tabs'[u].flow = tabs[t].flow /\ tabs'[u].code = tabs[t].code /\ tabs'[u].page = "posting"
      BY <1>2, <1>5, <2>1
    <3>3. \A q \in Posts : posts'[q].tab = u => q = p
      BY <1>5, <1>10, <2>1
    <3>4. Unspent(u)' /\ posts'[p].cookie = tabs'[u].flow
      BY <1>0, <1>4, <1>5, <3>1, <3>2, <2>1 DEF HoldsItsSignIn, Unspent
    <3>5. \A q \in Posts : posts'[q].step # "idle" /\ posts'[q].code = tabs'[u].code => posts'[q].tab = u
      BY <1>0, <1>4, <1>5, <1>10, <2>1, <3>1, <3>2 DEF HoldsItsSignIn
    <3> QED BY <1>4, <1>5, <2>1, <3>2, <3>3, <3>4, <3>5 DEF HoldsItsSignIn
  <2>2. CASE u # t
    <3>1. tabs'[u] = tabs[u] /\ ~tabs[u].crossed /\ jar' = jar /\ codes' = codes
      BY <1>0, <1>5, <2>2
    <3>2. tabs[u].code # tabs[t].code
      BY <1>7, <2>2 DEF SsoInvariant, CodesAreOneTabs
    <3>3. HoldsItsSignIn(u) /\ (Unspent(u)' <=> Unspent(u))
      BY <3>1 DEF SsoInvariant, LoneSignInsHold, Unspent
    <3> QED BY <1>4, <1>5, <2>2, <3>1, <3>2, <3>3 DEF HoldsItsSignIn
  <2> QED BY <2>1, <2>2
<1>14. LoneSignInsAreNotMismatched' /\ AnsweredFlowsLeaveTheJar'
  BY <1>0, <1>2, <1>5 DEF SsoInvariant, SsoPromise, LoneSignInsAreNotMismatched, AnsweredFlowsLeaveTheJar
<1> QED BY <1>6, <1>8, <1>9, <1>12, <1>13, <1>14 DEF SsoInvariant, SsoPromise
\* The answer is being made: the post is judged, and its code may be spent on it.
LEMMA JudgedKeeps ==
  ASSUME SsoInvariant, NEW p \in Posts, posts[p].step = "sent", NEW s \in Outcome,
         posts' = [posts EXCEPT ![p].step = s], UNCHANGED <<flows, jar, tabs, answered>>,
         codes' = codes \/ Spend(p),
         s = "mismatch" => posts[p].tab = NoTab \/ tabs[posts[p].tab].crossed
  PROVE  SsoInvariant'
<1>0. /\ SsoTypeOK /\ NumbersAreGiven /\ posts[p] \in Post /\ posts \in [Posts -> Post]
      /\ codes \in Seq(Code) /\ Len(codes) \in Nat /\ posts[p].code \in 1 .. Len(codes)
      /\ codes[posts[p].code] \in Code
  <2>1. SsoTypeOK /\ NumbersAreGiven
    BY DEF SsoInvariant, SsoPromise
  <2>2. /\ posts[p] \in Post /\ posts \in [Posts -> Post] /\ codes \in Seq(Code) /\ Len(codes) \in Nat
        /\ \A i \in 1 .. Len(codes) : codes[i] \in Code
    BY <2>1, SsoTyped
  <2>3. posts[p].code \in 0 .. Len(codes) /\ posts[p].code # 0
    BY <2>1 DEF NumbersAreGiven
  <2> QED BY <2>1, <2>2, <2>3
<1>1. PICK new : new = [posts[p] EXCEPT !.step = s]
  OBVIOUS
<1>2. /\ new \in Post /\ new.step = s /\ new.tab = posts[p].tab /\ new.code = posts[p].code
      /\ new.state = posts[p].state /\ new.cookie = posts[p].cookie
  BY <1>0, <1>1 DEF Post
<1>3. posts' = [posts EXCEPT ![p] = new] /\ posts'[p] = new /\ \A q \in Posts \ {p} : posts'[q] = posts[q]
  BY <1>0, <1>1
<1>4. s # "idle" /\ s # "sent"
  BY DEF Outcome
<1>5. /\ codes' \in Seq(Code) /\ Len(codes') = Len(codes)
      /\ \A i \in 1 .. Len(codes) : i # posts[p].code => codes'[i] = codes[i]
  <2>1. CASE codes' = codes
    BY <1>0, <2>1
  <2>2. CASE Spend(p)
    <3>1. PICK code : code = [codes[posts[p].code] EXCEPT !.spent = TRUE]
      OBVIOUS
    <3>2. code \in Code
      BY <1>0, <3>1 DEF Code
    <3>3. codes' = [codes EXCEPT ![posts[p].code] = code]
      BY <1>0, <2>2, <3>1 DEF Spend
    <3> QED BY <1>0, <3>2, <3>3
  <2> QED BY <2>1, <2>2
<1>6. SsoTypeOK'
  BY <1>0, <1>2, <1>3, <1>5 DEF SsoTypeOK
<1>7. NumbersAreGiven'
  BY <1>0, <1>2, <1>3, <1>5 DEF NumbersAreGiven
<1>8. BegunFlowsAreFresh'
  BY <1>2, <1>3 DEF SsoInvariant, BegunFlowsAreFresh
<1>9. CodesAreOneTabs'
  <2>1. \A q \in Posts : posts'[q].tab = posts[q].tab /\ posts'[q].code = posts[q].code
                         /\ posts'[q].state = posts[q].state /\ (posts[q].step # "idle" => posts'[q].step # "idle")
    BY <1>2, <1>3, <1>4
  <2> QED BY <2>1 DEF SsoInvariant, CodesAreOneTabs
<1>10. LoneSignInsHold'
  <2> SUFFICES ASSUME NEW u \in Tabs, ~tabs'[u].crossed
               PROVE  HoldsItsSignIn(u)'
    BY DEF LoneSignInsHold
  <2>1. HoldsItsSignIn(u) /\ u # NoTab /\ tabs' = tabs /\ jar' = jar
    BY NoTabAssumption DEF SsoInvariant, LoneSignInsHold
  <2>2. tabs[u].code # posts[p].code /\ tabs[u].code # 0 => (Unspent(u) => Unspent(u)')
    <3>1. tabs[u].code \in 0 .. Len(codes)
      BY <1>0 DEF NumbersAreGiven
    <3> QED BY <1>0, <1>5, <2>1, <3>1 DEF Unspent
  <2>3. tabs[u].page = "callback" => tabs[u].code # posts[p].code /\ tabs[u].code # 0
    <3>1. SUFFICES ASSUME tabs[u].page = "callback", tabs[u].code = posts[p].code
                   PROVE  FALSE
      BY <1>0 DEF NumbersAreGiven
    <3>2. posts[p].tab = u
      BY <2>1, <3>1 DEF HoldsItsSignIn
    <3> QED BY <2>1, <3>1, <3>2, WaitedPosts
  <2>4. tabs[u].page \in {"callback", "posting"} =>
          \A q \in Posts : posts'[q].step # "idle" /\ posts'[q].code = tabs[u].code => posts'[q].tab = u
    BY <1>2, <1>3, <2>1 DEF HoldsItsSignIn
  <2>5. ASSUME NEW q \in Posts, posts'[q].tab = u
        PROVE  /\ posts'[q].cookie = tabs[u].flow /\ posts'[q].step # "mismatch"
               /\ posts'[q].step = "sent" => Unspent(u)'
    <3>1. CASE q = p
      BY <1>2, <1>3, <1>4, <2>1, <2>5, <3>1 DEF HoldsItsSignIn
    <3>2. CASE q # p
      <4>1. posts'[q] = posts[q] /\ posts[q].tab = u
        BY <1>3, <2>5, <3>2
      <4>2. tabs[u].page = "posting" /\ posts[p].tab # u /\ tabs[u].code # 0
        BY <1>0, <2>1, <3>2, <4>1, WaitedPosts DEF NumbersAreGiven
      <4>3. posts[p].code # tabs[u].code
        BY <2>1, <4>2 DEF HoldsItsSignIn
      <4> QED BY <2>1, <2>2, <4>1, <4>2, <4>3 DEF HoldsItsSignIn
    <3> QED BY <3>1, <3>2
  <2>6. tabs[u].page = "callback" => Unspent(u)'
    BY <2>1, <2>2, <2>3 DEF HoldsItsSignIn
  <2> QED BY <2>1, <2>4, <2>5, <2>6 DEF HoldsItsSignIn
<1>11. LoneSignInsAreNotMismatched' /\ AnsweredFlowsLeaveTheJar'
  BY DEF SsoInvariant, SsoPromise, LoneSignInsAreNotMismatched, AnsweredFlowsLeaveTheJar
<1> QED BY <1>6, <1>7, <1>8, <1>9, <1>10, <1>11 DEF SsoInvariant, SsoPromise

\* A post is rejected only when it is nobody's or its tab has been crossed.
LEMMA RejectKeeps ==
  ASSUME SsoInvariant, NEW p \in Posts, RejectCallback(p) PROVE SsoInvariant'
<1>1. posts[p].tab = NoTab \/ tabs[posts[p].tab].crossed
  <2> SUFFICES ASSUME posts[p].tab # NoTab, ~tabs[posts[p].tab].crossed PROVE FALSE
    OBVIOUS
  <2>1. PICK u \in Tabs : u = posts[p].tab
    BY WaitedPosts
  <2>2. tabs[u].page = "posting" /\ posts[p].code = tabs[u].code /\ posts[p].state = tabs[u].flow
    BY <2>1, WaitedPosts
  <2>3. tabs[u].flow # 0
    BY <2>2 DEF SsoInvariant, NumbersAreGiven
  <2>4. posts[p].cookie = tabs[u].flow /\ Unspent(u)
    BY <2>1 DEF SsoInvariant, LoneSignInsHold, HoldsItsSignIn, RejectCallback
  <2>5. OfThisBrowser(p) /\ Exchangeable(p)
    BY <2>2, <2>3, <2>4 DEF OfThisBrowser, Exchangeable, Unspent
  <2> QED BY <2>5 DEF RejectCallback
<1> QED BY <1>1, JudgedKeeps DEF RejectCallback, Outcome

LEMMA GrantKeeps ==
  ASSUME SsoInvariant, NEW p \in Posts, RefuseCallback(p) \/ \E claims \in Claims : CompleteCallback(p, claims)
  PROVE  SsoInvariant'
<1>1. CASE RefuseCallback(p)
  BY <1>1, JudgedKeeps DEF RefuseCallback, Outcome
<1>2. CASE \E claims \in Claims : CompleteCallback(p, claims)
  BY <1>2, JudgedKeeps DEF CompleteCallback, Outcome
<1> QED BY <1>1, <1>2
\* A tab's wait is over: its page is past the callback, and the post is idle again.
LEMMA EndedPost ==
  ASSUME SsoInvariant, NEW p \in Posts, posts' = [posts EXCEPT ![p] = NoPost]
  PROVE  /\ posts' \in [Posts -> Post] /\ posts'[p] = NoPost
         /\ \A q \in Posts \ {p} : posts'[q] = posts[q]
         /\ \A q \in Posts : posts'[q].tab # NoTab => q # p /\ posts[q].tab = posts'[q].tab
                                                      /\ posts'[q].tab # posts[p].tab
<1>1. posts \in [Posts -> Post]
  BY SsoTyped DEF SsoInvariant, SsoPromise
<1>2. /\ posts' \in [Posts -> Post] /\ posts'[p] = NoPost
      /\ \A q \in Posts \ {p} : posts'[q] = posts[q]
  BY <1>1, SsoConstants
<1>3. \A q \in Posts : posts'[q].tab # NoTab => q # p /\ posts[q].tab = posts'[q].tab
  BY <1>2, SsoConstants
<1> QED BY <1>2, <1>3, WaitedPosts

LEMMA ReceiveKeeps ==
  ASSUME SsoInvariant, NEW p \in Posts, ReceiveCallback(p) PROVE SsoInvariant'
<1>0. /\ SsoTypeOK /\ NumbersAreGiven /\ posts[p] \in Post /\ flows \in Nat /\ flows <= MaxFlows
      /\ answered \subseteq 1 .. flows /\ jar' = 0 /\ answered' = answered \union ({posts[p].cookie} \ {0})
      /\ UNCHANGED <<flows, codes>> /\ posts[p].step \in Outcome /\ posts' = [posts EXCEPT ![p] = NoPost]
  BY SsoTyped DEF SsoInvariant, SsoPromise, ReceiveCallback, ClearedJar
<1>1. PICK t : t = posts[p].tab
  OBVIOUS
<1>2. PICK others : others = Crossed(t)
  OBVIOUS
<1>3. /\ others \in [Tabs -> Tab]
      /\ \A u \in Tabs : /\ others[u].page = tabs[u].page /\ others[u].flow = tabs[u].flow
                         /\ others[u].code = tabs[u].code /\ others[u].why = tabs[u].why
                         /\ tabs[u].crossed => others[u].crossed
                         /\ u # t /\ tabs[u].page \in {"idp", "callback", "posting"} => others[u].crossed
                         /\ u = t => others[u] = tabs[u]
  BY <1>0, <1>2, CrossedKinds
<1>4. t # NoTab => t \in Tabs /\ tabs[t].page = "posting" /\ tabs[t] \in Tab /\ others[t] = tabs[t]
  BY <1>0, <1>1, <1>3, WaitedPosts, SsoTyped
<1>5. t # NoTab /\ posts[p].step = "mismatch" => tabs[t].crossed
  BY <1>1, <1>4 DEF SsoInvariant, LoneSignInsHold, HoldsItsSignIn
<1>6. /\ tabs' \in [Tabs -> Tab] /\ \A u \in Tabs \ {t} : tabs'[u] = others[u]
      /\ t # NoTab => /\ tabs'[t].page \in {"console", "failed"} /\ tabs'[t].flow = tabs[t].flow
                      /\ tabs'[t].code = tabs[t].code /\ tabs'[t].crossed = tabs[t].crossed
                      /\ tabs'[t].why \in {tabs[t].why, posts[p].step}
  <2>1. CASE t = NoTab
    BY <1>1, <1>2, <1>3, <2>1 DEF ReceiveCallback
  <2>2. CASE t # NoTab /\ posts[p].step = "ok"
    <3>1. PICK new : new = [tabs[t] EXCEPT !.page = "console"]
      OBVIOUS
    <3>2. /\ new \in Tab /\ new.page = "console" /\ new.flow = tabs[t].flow /\ new.code = tabs[t].code
          /\ new.crossed = tabs[t].crossed /\ new.why = tabs[t].why
      BY <1>4, <2>2, <3>1 DEF Tab
    <3>3. tabs' = [others EXCEPT ![t].page = "console"]
      BY <1>1, <1>2, <2>2 DEF ReceiveCallback
    <3>4. tabs' = [others EXCEPT ![t] = new]
      BY <1>3, <1>4, <2>2, <3>1, <3>3
    <3> QED BY <1>3, <1>4, <2>2, <3>2, <3>4
  <2>3. CASE t # NoTab /\ posts[p].step # "ok"
    <3>1. PICK new : new = [tabs[t] EXCEPT !.page = "failed", !.why = posts[p].step]
      OBVIOUS
    <3>2. /\ new \in Tab /\ new.page = "failed" /\ new.flow = tabs[t].flow /\ new.code = tabs[t].code
          /\ new.crossed = tabs[t].crossed /\ new.why = posts[p].step
      <4>1. posts[p].step \in {"mismatch", "refused"}
        BY <1>0, <2>3 DEF Outcome
      <4> QED BY <1>4, <2>3, <3>1, <4>1 DEF Tab
    <3>3. tabs' = [others EXCEPT ![t].page = "failed", ![t].why = posts[p].step]
      BY <1>1, <1>2, <2>3 DEF ReceiveCallback
    <3>4. tabs' = [others EXCEPT ![t] = new]
      BY <1>3, <1>4, <2>3, <3>1, <3>3
    <3> QED BY <1>3, <1>4, <2>3, <3>2, <3>4
  <2> QED BY <2>1, <2>2, <2>3
<1>7. /\ posts' \in [Posts -> Post] /\ posts'[p] = NoPost /\ \A q \in Posts \ {p} : posts'[q] = posts[q]
      /\ \A q \in Posts : posts'[q].tab # NoTab => q # p /\ posts[q].tab = posts'[q].tab /\ posts'[q].tab # t
  BY <1>0, <1>1, EndedPost
<1>8. \A u \in Tabs : tabs'[u].flow = tabs[u].flow /\ tabs'[u].code = tabs[u].code
  <2> SUFFICES ASSUME NEW u \in Tabs PROVE tabs'[u].flow = tabs[u].flow /\ tabs'[u].code = tabs[u].code
    OBVIOUS
  <2>1. CASE u = t
    BY <1>6, <2>1, NoTabAssumption
  <2>2. CASE u # t
    BY <1>3, <1>6, <2>2
  <2> QED BY <2>1, <2>2
<1>9. \A u \in Tabs : \/ u # t /\ tabs'[u].page = tabs[u].page
                      \/ u = t /\ tabs'[u].page \in {"console", "failed"}
  BY <1>3, <1>6, NoTabAssumption
<1>10. SsoTypeOK'
  <2>1. posts[p].cookie \in 0 .. flows
    BY <1>0 DEF NumbersAreGiven
  <2>2. 0 \in 0 .. flows /\ answered' \subseteq 1 .. flows
    <3>1. 0 \in 0 .. flows /\ (posts[p].cookie # 0 => posts[p].cookie \in 1 .. flows)
      BY <1>0, <2>1
    <3> QED BY <1>0, <3>1, Zenon
  <2> QED BY <1>0, <1>6, <1>7, <2>2 DEF SsoTypeOK
<1>11. NumbersAreGiven'
  <2>1. 0 \in 0 .. flows /\ 0 \in 0 .. Len(codes)
    BY <1>0, SsoTyped
  <2>2. \A u \in Tabs : /\ tabs'[u].flow \in 0..flows /\ tabs'[u].code \in 0..Len(codes)
                        /\ tabs'[u].page \in {"starting", "idp", "callback", "posting"} => tabs'[u].flow # 0
                        /\ tabs'[u].page \in {"callback", "posting"} => tabs'[u].code # 0
                        /\ tabs'[u].page \in {"methods", "login", "starting"} => tabs'[u].code = 0
                        /\ tabs'[u].code # 0 => tabs'[u].flow # 0
    BY <1>0, <1>8, <1>9 DEF NumbersAreGiven
  <2>3. \A q \in Posts : /\ posts'[q].cookie \in 0..flows /\ posts'[q].code \in 0..Len(codes)
                         /\ posts'[q].step # "idle" => posts'[q].code # 0
    BY <1>0, <1>7, <2>1, SsoConstants DEF NumbersAreGiven
  <2> QED BY <1>0, <2>2, <2>3 DEF NumbersAreGiven
<1>12. BegunFlowsAreFresh'
  <2>1. \A u \in Tabs : tabs'[u].page = "starting" =>
          /\ tabs[u].page = "starting" /\ tabs[u].flow # 0 /\ tabs'[u].flow = tabs[u].flow
    BY <1>0, <1>8, <1>9 DEF NumbersAreGiven
  <2>2. \A u \in Tabs : tabs'[u].page = "starting" =>
          /\ tabs'[u].flow # jar' /\ tabs'[u].flow \notin answered'
          /\ \A q \in Posts : posts'[q].cookie # tabs'[u].flow
    BY <1>0, <1>7, <2>1, SsoConstants DEF SsoInvariant, BegunFlowsAreFresh
  <2> QED BY <2>1, <2>2 DEF SsoInvariant, BegunFlowsAreFresh
<1>13. CodesAreOneTabs'
  <2>1. \A q \in Posts : posts'[q].tab # NoTab =>
          /\ tabs'[posts'[q].tab].page = "posting" /\ posts'[q].step # "idle"
          /\ posts'[q].code = tabs'[posts'[q].tab].code /\ posts'[q].state = tabs'[posts'[q].tab].flow
          /\ \A o \in Posts \ {q} : posts'[o].tab # posts'[q].tab
    <3> SUFFICES ASSUME NEW q \in Posts, posts'[q].tab # NoTab
                 PROVE  /\ tabs'[posts'[q].tab].page = "posting" /\ posts'[q].step # "idle"
                        /\ posts'[q].code = tabs'[posts'[q].tab].code /\ posts'[q].state = tabs'[posts'[q].tab].flow
                        /\ \A o \in Posts \ {q} : posts'[o].tab # posts'[q].tab
      OBVIOUS
    <3>1. q # p /\ posts'[q] = posts[q] /\ posts[q].tab # NoTab /\ posts[q].tab # t
      BY <1>7
    <3>2. posts[q].tab \in Tabs /\ tabs'[posts[q].tab].page = tabs[posts[q].tab].page
      BY <1>9, <3>1, WaitedPosts
    <3> QED BY <1>7, <1>8, <3>1, <3>2, WaitedPosts
  <2> QED BY <1>8, <2>1 DEF SsoInvariant, CodesAreOneTabs
<1>14. LoneSignInsHold'
  <2> SUFFICES ASSUME NEW u \in Tabs, ~tabs'[u].crossed
               PROVE  HoldsItsSignIn(u)'
    BY DEF LoneSignInsHold
  <2>1. tabs'[u].page \notin {"idp", "callback", "posting"}
    BY <1>3, <1>6, <1>9
  <2>2. \A q \in Posts : posts'[q].tab # u
    BY <1>7, <1>9, <2>1, WaitedPosts, NoTabAssumption
  <2> QED BY <2>1, <2>2 DEF HoldsItsSignIn
<1>15. LoneSignInsAreNotMismatched'
  <2> SUFFICES ASSUME NEW u \in Tabs, tabs'[u].why = "mismatch" PROVE tabs'[u].crossed
    BY DEF LoneSignInsAreNotMismatched
  <2>1. tabs[u].why = "mismatch" => tabs[u].crossed
    BY DEF SsoInvariant, SsoPromise, LoneSignInsAreNotMismatched
  <2>2. CASE u = t
    BY <1>5, <1>6, <2>1, <2>2, NoTabAssumption
  <2>3. CASE u # t
    BY <1>3, <1>6, <2>1, <2>3
  <2> QED BY <2>2, <2>3
<1>16. AnsweredFlowsLeaveTheJar'
  <2>1. 0 \notin answered'
    BY <1>0
  <2> QED BY <1>0, <2>1 DEF AnsweredFlowsLeaveTheJar
<1> QED BY <1>10, <1>11, <1>12, <1>13, <1>14, <1>15, <1>16 DEF SsoInvariant, SsoPromise

LEMMA LoseKeeps ==
  ASSUME SsoInvariant, NEW p \in Posts, LoseCallback(p) PROVE SsoInvariant'
<1>0. /\ SsoTypeOK /\ NumbersAreGiven /\ UNCHANGED <<flows, jar, codes, answered>>
      /\ posts' = [posts EXCEPT ![p] = NoPost] /\ tabs \in [Tabs -> Tab]
  BY SsoTyped DEF SsoInvariant, SsoPromise, LoseCallback
<1>1. PICK t : t = posts[p].tab
  OBVIOUS
<1>2. t # NoTab => t \in Tabs /\ tabs[t].page = "posting" /\ tabs[t] \in Tab
  BY <1>0, <1>1, WaitedPosts, SsoTyped
<1>3. /\ tabs' \in [Tabs -> Tab] /\ \A u \in Tabs \ {t} : tabs'[u] = tabs[u]
      /\ t # NoTab => /\ tabs'[t].page = "failed" /\ tabs'[t].flow = tabs[t].flow
                      /\ tabs'[t].code = tabs[t].code /\ tabs'[t].why = "network"
  <2>1. CASE t = NoTab
    BY <1>0, <1>1, <2>1 DEF LoseCallback
  <2>2. CASE t # NoTab
    <3>1. PICK new : new = [tabs[t] EXCEPT !.page = "failed", !.why = "network"]
      OBVIOUS
    <3>2. /\ new \in Tab /\ new.page = "failed" /\ new.flow = tabs[t].flow /\ new.code = tabs[t].code
          /\ new.why = "network"
      BY <1>2, <2>2, <3>1 DEF Tab
    <3>3. tabs' = [tabs EXCEPT ![t].page = "failed", ![t].why = "network"]
      BY <1>1, <2>2 DEF LoseCallback
    <3>4. tabs' = [tabs EXCEPT ![t] = new]
      BY <1>0, <1>2, <2>2, <3>1, <3>3
    <3> QED BY <1>0, <1>2, <2>2, <3>2, <3>4
  <2> QED BY <2>1, <2>2
<1>4. /\ posts' \in [Posts -> Post] /\ posts'[p] = NoPost /\ \A q \in Posts \ {p} : posts'[q] = posts[q]
      /\ \A q \in Posts : posts'[q].tab # NoTab => q # p /\ posts[q].tab = posts'[q].tab /\ posts'[q].tab # t
  BY <1>0, <1>1, EndedPost
<1>5. \A u \in Tabs : \/ u # t /\ tabs'[u] = tabs[u]
                      \/ /\ u = t /\ tabs'[u].page = "failed" /\ tabs'[u].why = "network"
                         /\ tabs'[u].flow = tabs[u].flow /\ tabs'[u].code = tabs[u].code
  BY <1>3, NoTabAssumption
<1>6. SsoTypeOK'
  BY <1>0, <1>3, <1>4 DEF SsoTypeOK
<1>7. NumbersAreGiven'
  <2>1. 0 \in 0 .. flows /\ 0 \in 0 .. Len(codes)
    BY <1>0, SsoTyped
  <2>2. \A u \in Tabs : /\ tabs'[u].flow \in 0..flows /\ tabs'[u].code \in 0..Len(codes)
                        /\ tabs'[u].page \in {"starting", "idp", "callback", "posting"} => tabs'[u].flow # 0
                        /\ tabs'[u].page \in {"callback", "posting"} => tabs'[u].code # 0
                        /\ tabs'[u].page \in {"methods", "login", "starting"} => tabs'[u].code = 0
                        /\ tabs'[u].code # 0 => tabs'[u].flow # 0
    BY <1>0, <1>5 DEF NumbersAreGiven
  <2>3. \A q \in Posts : /\ posts'[q].cookie \in 0..flows /\ posts'[q].code \in 0..Len(codes)
                         /\ posts'[q].step # "idle" => posts'[q].code # 0
    BY <1>0, <1>4, <2>1, SsoConstants DEF NumbersAreGiven
  <2> QED BY <1>0, <2>2, <2>3 DEF NumbersAreGiven
<1>8. BegunFlowsAreFresh'
  <2>1. \A u \in Tabs : tabs'[u].page = "starting" => tabs'[u] = tabs[u] /\ tabs[u].flow # 0
    BY <1>0, <1>5 DEF NumbersAreGiven
  <2> QED BY <1>0, <1>4, <2>1, SsoConstants DEF SsoInvariant, BegunFlowsAreFresh
<1>9. CodesAreOneTabs'
  <2>1. \A q \in Posts : posts'[q].tab # NoTab =>
          /\ tabs'[posts'[q].tab].page = "posting" /\ posts'[q].step # "idle"
          /\ posts'[q].code = tabs'[posts'[q].tab].code /\ posts'[q].state = tabs'[posts'[q].tab].flow
          /\ \A o \in Posts \ {q} : posts'[o].tab # posts'[q].tab
    BY <1>4, <1>5, WaitedPosts
  <2>2. \A u \in Tabs : tabs'[u].code = tabs[u].code
    BY <1>5
  <2> QED BY <2>1, <2>2 DEF SsoInvariant, CodesAreOneTabs
<1>10. LoneSignInsHold'
  <2> SUFFICES ASSUME NEW u \in Tabs, ~tabs'[u].crossed
               PROVE  HoldsItsSignIn(u)'
    BY DEF LoneSignInsHold
  <2>1. CASE u = t
    <3>1. tabs'[u].page = "failed" /\ \A q \in Posts : posts'[q].tab # u
      BY <1>4, <1>5, <2>1, NoTabAssumption
    <3> QED BY <3>1 DEF HoldsItsSignIn
  <2>2. CASE u # t
    <3>1. tabs'[u] = tabs[u] /\ jar' = jar /\ codes' = codes
      BY <1>0, <1>5, <2>2
    <3>2. HoldsItsSignIn(u) /\ (Unspent(u)' <=> Unspent(u))
      BY <3>1 DEF SsoInvariant, LoneSignInsHold, Unspent
    <3>3. /\ \A q \in Posts : posts'[q].step # "idle" => q # p /\ posts'[q] = posts[q]
          /\ \A q \in Posts : posts'[q].tab = u => posts'[q] = posts[q]
      BY <1>4, SsoConstants, NoTabAssumption
    <3> QED BY <3>1, <3>2, <3>3 DEF HoldsItsSignIn
  <2> QED BY <2>1, <2>2
<1>11. LoneSignInsAreNotMismatched' /\ AnsweredFlowsLeaveTheJar'
  BY <1>0, <1>5 DEF SsoInvariant, SsoPromise, LoneSignInsAreNotMismatched, AnsweredFlowsLeaveTheJar
<1> QED BY <1>6, <1>7, <1>8, <1>9, <1>10, <1>11 DEF SsoInvariant, SsoPromise

LEMMA SsoBegins ==
  ASSUME SsoInit PROVE SsoInvariant
<1>1. /\ SsoTypeOK /\ flows = 0 /\ jar = 0 /\ Len(codes) = 0 /\ answered = {}
      /\ \A t \in Tabs : tabs[t] = LoginPage
      /\ \A p \in Posts : posts[p] = NoPost
  BY SsoAssumption, SsoConstants DEF SsoInit, SsoTypeOK
<1>2. NumbersAreGiven
  BY <1>1, SsoConstants DEF NumbersAreGiven
<1>3. BegunFlowsAreFresh /\ CodesAreOneTabs
  BY <1>1, SsoConstants DEF BegunFlowsAreFresh, CodesAreOneTabs
<1>4. LoneSignInsHold
  BY <1>1, SsoConstants, NoTabAssumption DEF LoneSignInsHold, HoldsItsSignIn
<1>5. LoneSignInsAreNotMismatched /\ AnsweredFlowsLeaveTheJar
  BY <1>1, SsoConstants DEF LoneSignInsAreNotMismatched, AnsweredFlowsLeaveTheJar
<1> QED BY <1>1, <1>2, <1>3, <1>4, <1>5 DEF SsoInvariant, SsoPromise

LEMMA SsoSteps ==
  ASSUME SsoInvariant, [SsoNext]_ssoVars PROVE SsoInvariant'
<1>1. CASE \E t \in Tabs : \/ MethodsArrive(t) \/ MethodsFail(t) \/ MethodsGivenUp(t)
                           \/ StartFails(t) \/ Decline(t) \/ BackToSignIn(t)
  BY <1>1, TurningKeeps
<1>2. CASE \E t \in Tabs : StartSso(t)
  BY <1>2, StartKeeps
<1>3. CASE \E t \in Tabs : Redirect(t)
  BY <1>3, RedirectKeeps
<1>4. CASE \E t \in Tabs : RequestAuthorisation(t)
  BY <1>4, AuthorisationKeeps
<1>5. CASE \E t \in Tabs : GoBack(t) \/ ReloadLogin(t)
  BY <1>5, LeavingKeeps
<1>6. CASE \E t \in Tabs, p \in Posts : PostCallback(t, p)
  BY <1>6, PostKeeps
<1>7. CASE \E p \in Posts : RefuseCallback(p) \/ \E claims \in Claims : CompleteCallback(p, claims)
  BY <1>7, GrantKeeps
<1>8. CASE \E p \in Posts : RejectCallback(p)
  BY <1>8, RejectKeeps
<1>9. CASE \E p \in Posts : ReceiveCallback(p)
  BY <1>9, ReceiveKeeps
<1>10. CASE \E p \in Posts : LoseCallback(p)
  BY <1>10, LoseKeeps
<1>11. CASE UNCHANGED ssoVars
  BY <1>11 DEF SsoInvariant, SsoPromise, SsoTypeOK, LoneSignInsAreNotMismatched, AnsweredFlowsLeaveTheJar,
               NumbersAreGiven, BegunFlowsAreFresh, CodesAreOneTabs, LoneSignInsHold, HoldsItsSignIn, Unspent, ssoVars
<1> QED BY <1>1, <1>2, <1>3, <1>4, <1>5, <1>6, <1>7, <1>8, <1>9, <1>10, <1>11 DEF SsoNext

\* However many tabs sign in at once over the one set of cookies, with pages left, gone back
\* to and reloaded and answers lost or late: a sign-in nothing has crossed keeps its cookies
\* and its code, and never ends with a mismatch; an answered flow is in the cookies no more.
THEOREM SsoCorrect == SsoSpec => []SsoInvariant
<1>1. SsoInit => SsoInvariant
  BY SsoBegins
<1>2. SsoInvariant /\ [SsoNext]_ssoVars => SsoInvariant'
  BY SsoSteps
<1> QED BY <1>1, <1>2, PTL DEF SsoSpec

\* SsoCorrect says in particular that a lone sign-in is not told to start again.
THEOREM SsoPromiseHolds == SsoSpec => []SsoPromise
<1>1. SsoInvariant => SsoPromise
  BY DEF SsoInvariant
<1> QED BY <1>1, SsoCorrect, PTL
=============================================================================
