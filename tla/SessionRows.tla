---------------------------- MODULE SessionRows ----------------------------
(***************************************************************************)
(* The life of the sessions of one account: auth/session.ts, the session   *)
(* routes of routes/auth.ts, and db/retention.ts, which deletes the rows.  *)
(* Time is a clock that ticks. A request that resolves its session reads   *)
(* the row, then its roles, and leaves behind an UPDATE of last_seen_at    *)
(* that nothing waits for: it lands late, or never. A deactivated account  *)
(* or one without a role is refused and changes nothing here.              *)
(***************************************************************************)
EXTENDS Integers, FiniteSets

CONSTANTS
  SessionIds,
  Handlers,
  Ttl,          \* SESSION_TTL_MINUTES, in ticks
  IdleTimeout,  \* SESSION_IDLE_TIMEOUT_MINUTES
  KeepExpired,  \* 7 days
  KeepRevoked,  \* 30 days
  MaxNow,       \* bound on the clock
  NoSession

ASSUME RowsAssumption ==
  /\ Ttl \in Nat \ {0} /\ IdleTimeout \in Nat /\ IdleTimeout <= Ttl
  /\ KeepExpired \in Nat /\ KeepRevoked \in Nat /\ MaxNow \in Nat
  /\ NoSession \notin SessionIds

VARIABLES
  moment,
  sessionRows,
  handling,
  quiet      \* history: sessions that were idle too long while nothing could touch them

rowsVars == <<moment, sessionRows, handling, quiet>>

Unrevoked == -1
Reasons == {"none", "idle_timeout", "user_logout", "revoked_by_user", "deactivated"}
SessionRow == [expiresAt : 0..MaxNow + Ttl, lastSeenAt : 0..MaxNow,
        revokedAt : {Unrevoked} \union 0..MaxNow, revokedReason : Reasons]
Gone == [expiresAt |-> 0, lastSeenAt |-> 0, revokedAt |-> Unrevoked, revokedReason |-> "none"]

\* touching: its heartbeat is under way, whatever the request does meanwhile.
Handler == [step : {"idle", "overslept", "resolved", "serving", "listed"},
            session : SessionIds \union {NoSession}, victim : SessionIds \union {NoSession},
            touching : BOOLEAN]
NoHandler == [step |-> "idle", session |-> NoSession, victim |-> NoSession, touching |-> FALSE]

Exists(s) == sessionRows[s] # Gone
LiveRow(s) == Exists(s) /\ sessionRows[s].revokedAt = Unrevoked /\ sessionRows[s].expiresAt > moment
Overslept(s) == moment - sessionRows[s].lastSeenAt > IdleTimeout

RowsTypeOK ==
  /\ moment \in 0..MaxNow
  /\ sessionRows \in [SessionIds -> SessionRow]
  /\ handling \in [Handlers -> Handler]
  /\ quiet \subseteq SessionIds

RowsInit ==
  /\ moment = 0
  /\ sessionRows = [s \in SessionIds |-> Gone]
  /\ handling = [r \in Handlers |-> NoHandler]
  /\ quiet = {}

----------------------------------------------------------------------------
\* Nobody has resolved s who could still touch it.
Untouched(s) ==
  \A r \in Handlers : handling[r].session = s => /\ handling[r].step # "resolved"
                                                 /\ ~handling[r].touching

Tick ==
  /\ moment < MaxNow
  /\ moment' = moment + 1
  /\ quiet' = quiet \union
       {s \in SessionIds : Exists(s) /\ moment' - sessionRows[s].lastSeenAt > IdleTimeout /\ Untouched(s)}
  /\ UNCHANGED <<sessionRows, handling>>

\* The insert of createSession, under a new primary key.
InsertSessionRow(s) ==
  /\ ~Exists(s)
  /\ \A r \in Handlers : s \notin {handling[r].session, handling[r].victim}
  /\ sessionRows' = [sessionRows EXCEPT ![s] =
       [expiresAt |-> moment + Ttl, lastSeenAt |-> moment,
        revokedAt |-> Unrevoked, revokedReason |-> "none"]]
  /\ quiet' = quiet \ {s}
  /\ UNCHANGED <<moment, handling>>

----------------------------------------------------------------------------
\* resolveSession.

\* Seeded bug: the heartbeat goes out before the checks.
TouchesFirst(s) == TRUE

Touches(s) == FALSE

\* The row is read and checked; every other refusal leaves things as they are.
ReadSession(r, s) ==
  /\ handling[r] = NoHandler
  /\ LiveRow(s)
  /\ handling' = [handling EXCEPT ![r] =
       [step |-> IF Overslept(s) THEN "overslept" ELSE "resolved",
        session |-> s, victim |-> NoSession, touching |-> Touches(s)]]
  /\ UNCHANGED <<moment, sessionRows, quiet>>

\* Seeded bug: a later revocation overwrites an earlier one.
RevokedAgain(s, reason) == [sessionRows EXCEPT ![s].revokedAt = moment, ![s].revokedReason = reason]

\* revokeSession: a row that is gone or revoked is left as it is.
RowsRevoking(s, reason) ==
  IF Exists(s) /\ sessionRows[s].revokedAt = Unrevoked
    THEN [sessionRows EXCEPT ![s].revokedAt = moment, ![s].revokedReason = reason]
    ELSE sessionRows

\* The request is over; its heartbeat may not be.
Answered(r) == [handling EXCEPT ![r] =
  IF handling[r].touching THEN [NoHandler EXCEPT !.session = handling[r].session, !.touching = TRUE]
                          ELSE NoHandler]

RevokeOverslept(r) ==
  /\ handling[r].step = "overslept"
  /\ sessionRows' = RowsRevoking(handling[r].session, "idle_timeout")
  /\ handling' = Answered(r)
  /\ UNCHANGED <<moment, quiet>>

\* The roles are there: the heartbeat is sent, and the handler runs.
Serve(r) ==
  /\ handling[r].step = "resolved"
  /\ handling' = [handling EXCEPT ![r].step = "serving", ![r].touching = TRUE]
  /\ UNCHANGED <<moment, sessionRows, quiet>>

LandTouch(r) ==
  /\ handling[r].touching
  /\ sessionRows' = IF Exists(handling[r].session)
               THEN [sessionRows EXCEPT ![handling[r].session].lastSeenAt = moment] ELSE sessionRows
  /\ handling' = [handling EXCEPT ![r] =
       IF handling[r].step = "idle" THEN NoHandler ELSE [handling[r] EXCEPT !.touching = FALSE]]
  /\ UNCHANGED <<moment, quiet>>

LoseTouch(r) ==
  /\ handling[r].touching
  /\ handling' = [handling EXCEPT ![r] =
       IF handling[r].step = "idle" THEN NoHandler ELSE [handling[r] EXCEPT !.touching = FALSE]]
  /\ UNCHANGED <<moment, sessionRows, quiet>>

----------------------------------------------------------------------------
\* The handlers.

Logout(r) ==
  /\ handling[r].step = "serving"
  /\ sessionRows' = RowsRevoking(handling[r].session, "user_logout")
  /\ handling' = Answered(r)
  /\ UNCHANGED <<moment, quiet>>

\* POST /sessions/:sessionId/revoke looks for the session among the live ones first.
ListOwn(r, victim) ==
  /\ handling[r].step = "serving"
  /\ LiveRow(victim)
  /\ handling' = [handling EXCEPT ![r].step = "listed", ![r].victim = victim]
  /\ UNCHANGED <<moment, sessionRows, quiet>>

RevokeOwn(r) ==
  /\ handling[r].step = "listed"
  /\ sessionRows' = RowsRevoking(handling[r].victim, "revoked_by_user")
  /\ handling' = Answered(r)
  /\ UNCHANGED <<moment, quiet>>

\* Any other handler, a refusal, or a statement that fails.
AnswerRequest(r) ==
  /\ handling[r].step # "idle"
  /\ handling' = Answered(r)
  /\ UNCHANGED <<moment, sessionRows, quiet>>

\* revokeAllSessionsForUser, after the account was deactivated or its roles changed.
RevokeAll ==
  /\ sessionRows' = [s \in SessionIds |-> RowsRevoking(s, "deactivated")[s]]
  /\ UNCHANGED <<moment, handling, quiet>>

----------------------------------------------------------------------------
\* runRetention.

\* Seeded bug: the rows younger than the limit go instead of the older ones.
PrunableYoung(s) == Exists(s) /\ sessionRows[s].expiresAt > moment - KeepExpired

Prunable(s) ==
  /\ Exists(s)
  /\ \/ sessionRows[s].expiresAt < moment - KeepExpired
     \/ sessionRows[s].revokedAt # Unrevoked /\ sessionRows[s].revokedAt < moment - KeepRevoked

Prune ==
  /\ \E s \in SessionIds : Prunable(s)
  /\ sessionRows' = [s \in SessionIds |-> IF Prunable(s) THEN Gone ELSE sessionRows[s]]
  /\ UNCHANGED <<moment, handling, quiet>>

RowsNext ==
  \/ Tick \/ RevokeAll \/ Prune
  \/ \E s \in SessionIds : InsertSessionRow(s)
  \/ \E r \in Handlers, s \in SessionIds : ReadSession(r, s) \/ ListOwn(r, s)
  \/ \E r \in Handlers : \/ RevokeOverslept(r) \/ Serve(r) \/ LandTouch(r) \/ LoseTouch(r)
                         \/ Logout(r) \/ RevokeOwn(r) \/ AnswerRequest(r)

RowsSpec == RowsInit /\ [][RowsNext]_rowsVars

----------------------------------------------------------------------------
\* Once a session has been idle for longer than its timeout while no request had resolved
\* it, no request resolves it ever again: the revocation that records this may fail, and
\* the refused request itself must not wake it.
IdleSessionsStayOut ==
  [][\A r \in Handlers :
       handling[r].step = "idle" /\ handling'[r].step = "resolved" =>
         handling'[r].session \notin quiet]_rowsVars

\* When and why a session ended is what the first revocation wrote, in whatever order a
\* logout, the idle timeout, the owner's device list and an administrator end it.
FirstRevocationStands ==
  [][\A s \in SessionIds :
       sessionRows[s].revokedAt # Unrevoked /\ sessionRows'[s] # Gone =>
         /\ sessionRows'[s].revokedAt = sessionRows[s].revokedAt
         /\ sessionRows'[s].revokedReason = sessionRows[s].revokedReason]_rowsVars

\* Retention takes no row that a request could still be served by, now or later.
PrunedSessionsWereOver ==
  [][\A s \in SessionIds : Exists(s) /\ sessionRows'[s] = Gone => ~LiveRow(s)]_rowsVars

\* What sessions promise: the end of one is final, told as it happened and kept until
\* nobody can ask for it.
RowsPromise ==
  /\ []RowsTypeOK
  /\ IdleSessionsStayOut
  /\ FirstRevocationStands
  /\ PrunedSessionsWereOver
=============================================================================
