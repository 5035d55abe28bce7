---------------------------- MODULE LocalSignIn ----------------------------
(***************************************************************************)
(* The development sign-in of auth/local.ts behind POST /auth/local, for   *)
(* one account: its row of local_credentials and the attempts on it. An    *)
(* attempt reads the row, compares the password, and writes what follows   *)
(* from the row it READ: an absolute count and an absolute lock.           *)
(*                                                                         *)
(* An unknown address, a deactivated account and a locked one are refused  *)
(* before anything is written, so those attempts change nothing.           *)
(***************************************************************************)
EXTENDS Naturals, FiniteSets, Combinatorics

CONSTANTS Attempts,          \* attempts in flight at once
          MaxFailedAttempts  \* MAX_FAILED_ATTEMPTS, 5 in the code

ASSUME MaxFailedAssumption == MaxFailedAttempts \in Nat \ {0}

VARIABLES
  credential,  \* the row; `locked` is that locked_until lies ahead
  isActive,    \* users.is_active, which an owner changes meanwhile
  attempts,
  guesses      \* history: wrong passwords compared since the count last began at 0

localVars == <<credential, isActive, attempts, guesses>>

\* `overlapped`, a history: the account was locked since this attempt read the row.
Attempt == [step : {"idle", "read", "authenticated"}, right : BOOLEAN,
            failedAttempts : Nat, overlapped : BOOLEAN]
NoAttempt == [step |-> "idle", right |-> FALSE, failedAttempts |-> 0, overlapped |-> FALSE]

\* The count never reaches the limit: it is set to 0 with the lock.
LocalTypeOK ==
  /\ credential \in [failedAttempts : 0..MaxFailedAttempts - 1, locked : BOOLEAN]
  /\ isActive \in BOOLEAN
  /\ attempts \in [Attempts -> Attempt]
  /\ guesses \in Nat

LocalInit ==
  /\ credential = [failedAttempts |-> 0, locked |-> FALSE]
  /\ isActive = TRUE
  /\ attempts = [a \in Attempts |-> NoAttempt]
  /\ guesses = 0

----------------------------------------------------------------------------
\* Seeded bug: a locked account goes on to the comparison.
MayCompareLocked == isActive

MayCompare == isActive /\ ~credential.locked

ReadCredential(a, right) ==
  /\ attempts[a].step = "idle"
  /\ MayCompare
  /\ attempts' = [attempts EXCEPT ![a] =
       [step |-> "read", right |-> right,
        failedAttempts |-> credential.failedAttempts, overlapped |-> FALSE]]
  /\ UNCHANGED <<credential, isActive, guesses>>

\* Seeded bug: a failure is not counted.
NotCounted(a) == attempts[a].failedAttempts

Counted(a) == attempts[a].failedAttempts + 1

\* Seeded bug: the lock begins one failure late.
LocksLate(a) == Counted(a) > MaxFailedAttempts

Locks(a) == Counted(a) >= MaxFailedAttempts

\* A wrong password: the count goes up by one, or the account is locked.
RecordFailure(a) ==
  /\ attempts[a].step = "read"
  /\ ~attempts[a].right
  /\ credential' = IF Locks(a)
       THEN [failedAttempts |-> 0, locked |-> TRUE]
       ELSE [failedAttempts |-> Counted(a), locked |-> FALSE]
  /\ attempts' = [b \in Attempts |->
       IF b = a THEN NoAttempt
       ELSE IF Locks(a) /\ attempts[b].step = "read" THEN [attempts[b] EXCEPT !.overlapped = TRUE]
       ELSE attempts[b]]
  /\ guesses' = IF Locks(a) THEN 0 ELSE guesses + 1
  /\ UNCHANGED isActive

\* The right one: both columns are cleared, and createSession goes on.
RecordSuccess(a) ==
  /\ attempts[a].step = "read"
  /\ attempts[a].right
  /\ credential' = [failedAttempts |-> 0, locked |-> FALSE]
  /\ attempts' = [attempts EXCEPT ![a].step = "authenticated"]
  /\ guesses' = 0
  /\ UNCHANGED isActive

\* createSession, which asks for an active account again, and the answer, or an error
\* of either; a statement of the attempt that fails leaves the row as it is.
AnswerAttempt(a) ==
  /\ attempts[a].step \in {"read", "authenticated"}
  /\ attempts' = [attempts EXCEPT ![a] = NoAttempt]
  /\ UNCHANGED <<credential, isActive, guesses>>

LockPasses ==
  /\ credential.locked
  /\ credential' = [credential EXCEPT !.locked = FALSE]
  /\ UNCHANGED <<isActive, attempts, guesses>>

SetAccountActive ==
  /\ isActive' = ~isActive
  /\ UNCHANGED <<credential, attempts, guesses>>

LocalNext ==
  \/ \E a \in Attempts, right \in BOOLEAN : ReadCredential(a, right)
  \/ \E a \in Attempts : RecordFailure(a) \/ RecordSuccess(a) \/ AnswerAttempt(a)
  \/ LockPasses
  \/ SetAccountActive

LocalSpec == LocalInit /\ [][LocalNext]_localVars

----------------------------------------------------------------------------
(***************************************************************************)
(* Attempts that overlap count less than they are, as they write what they *)
(* read plus one; but the least of the counts that are written or still to *)
(* be written never falls, so a lock comes all the same. With n attempts   *)
(* in flight it takes at most (MaxFailedAttempts - 1 + n over n) wrong      *)
(* passwords: 5 one after the other, 15 by twos, 35 by threes.             *)
(***************************************************************************)
GuessesAreLimited ==
  LET n == Cardinality(Attempts)
  IN guesses < choose(MaxFailedAttempts - 1 + n, n)

\* A lock that goes before its time is taken off by an attempt, right or wrong, that had
\* read the row before the account was locked: nothing begun later gets past a lock.
LocksGiveWayToOverlapsOnly ==
  [][credential.locked /\ ~credential'.locked =>
       \/ LockPasses
       \/ \E a \in Attempts : attempts[a].overlapped /\ attempts'[a] # attempts[a]]_localVars

\* What the lock of an account promises under attempts that overlap.
LockPromise ==
  /\ []LocalTypeOK
  /\ []GuessesAreLimited
  /\ LocksGiveWayToOverlapsOnly
=============================================================================
