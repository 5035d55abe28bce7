----------------------------- MODULE AuditChain -----------------------------
(***************************************************************************)
(* The hash-chained audit trail: audit/service.ts over the audit_events    *)
(* table of 0002_audit.sql.                                                *)
(*                                                                         *)
(* An insert is a READ COMMITTED transaction of four statements: it takes  *)
(* the advisory lock, reads the newest row's hash, inserts (which draws    *)
(* the next sequence number) and commits. It may fail at any of them: the  *)
(* lock is released with the transaction, a sequence number drawn is lost. *)
(*                                                                         *)
(* A record hash is modelled by what it covers, the canonical contents of  *)
(* its row and of every row before it: equal hashes mean equal contents,   *)
(* which is what the HMAC is trusted for.                                  *)
(***************************************************************************)
EXTENDS Naturals, Sequences, FiniteSets

CONSTANTS Writers,      \* operations that record an event at once, over all API instances
          Contents,     \* what canonicalise keeps of an event
          Labels,       \* what it leaves out (resource label, address, user agent)
          NoWriter,     \* the holder of the free advisory lock
          MaxSequence,  \* bound on the sequence numbers drawn
          Limit         \* how many rows verifyChain looks at

ASSUME AuditAssumption ==
  /\ NoWriter \notin Writers
  /\ MaxSequence \in Nat
  /\ Limit \in Nat

VARIABLES
  rows,          \* sequence number -> the committed row, or NoRow
  nextSequence,  \* the BIGSERIAL's next value
  lock,          \* who holds the advisory lock
  writers        \* the transactions in progress

vars == <<rows, nextSequence, lock, writers>>

SequenceNumbers == 1 .. MaxSequence
Hashes == Seq(Contents)
NoHash == <<>>                    \* SQL NULL in previous_hash
Events == [canonical : Contents, label : Labels]

Row == [event : Events, previousHash : Hashes, recordHash : Hashes]
NoRow == [absent |-> TRUE]

\* `previous` and `sequence` count from the steps "read" and "inserted".
Transaction == [step : {"waiting", "locked", "read", "inserted"}, event : Events,
                previous : Hashes, sequence : SequenceNumbers \union {0}]
Idle == [step |-> "idle"]

TypeOK ==
  /\ rows \in [SequenceNumbers -> Row \union {NoRow}]
  /\ nextSequence \in 1 .. MaxSequence + 1
  /\ lock \in Writers \union {NoWriter}
  /\ writers \in [Writers -> Transaction \union {Idle}]

Init ==
  /\ rows = [s \in SequenceNumbers |-> NoRow]
  /\ nextSequence = 1
  /\ lock = NoWriter
  /\ writers = [w \in Writers |-> Idle]

----------------------------------------------------------------------------

Recorded == {s \in SequenceNumbers : rows[s] # NoRow}

\* auditRecordHash(canonical, previousHash).
\* Seeded bugs: the hash does not cover the content, or not the row before it.
HashOfPreviousOnly(event, previous) == Append(previous, CHOOSE c \in Contents : TRUE)
HashOfContentOnly(event, previous) == <<event.canonical>>

Hash(event, previous) == Append(previous, event.canonical)

\* ORDER BY sequence DESC LIMIT 1.
\* Seeded bug: the oldest row instead of the newest.
IsOldest(s) == s \in Recorded /\ \A t \in Recorded : s <= t

IsNewest(s) == s \in Recorded /\ \A t \in Recorded : t <= s

IsPrevious(hash) ==
  \/ Recorded = {} /\ hash = NoHash
  \/ \E s \in Recorded : IsNewest(s) /\ hash = rows[s].recordHash

Begin(w, event) ==
  /\ writers[w] = Idle
  /\ writers' = [writers EXCEPT ![w] =
       [step |-> "waiting", event |-> event, previous |-> NoHash, sequence |-> 0]]
  /\ UNCHANGED <<rows, nextSequence, lock>>

\* Seeded bug: nobody waits for the lock.
LockFreeForAll(w) == TRUE

LockIsFree(w) == lock = NoWriter

TakeLock(w) ==
  /\ writers[w].step = "waiting"
  /\ LockIsFree(w)
  /\ lock' = w
  /\ writers' = [writers EXCEPT ![w].step = "locked"]
  /\ UNCHANGED <<rows, nextSequence>>

ReadPrevious(w) ==
  /\ writers[w].step = "locked"
  /\ \E hash \in {NoHash} \union {rows[s].recordHash : s \in Recorded} :
       /\ IsPrevious(hash)
       /\ writers' = [writers EXCEPT ![w].step = "read", ![w].previous = hash]
  /\ UNCHANGED <<rows, nextSequence, lock>>

InsertRow(w) ==
  /\ writers[w].step = "read"
  /\ nextSequence <= MaxSequence
  /\ nextSequence' = nextSequence + 1
  /\ writers' = [writers EXCEPT ![w].step = "inserted", ![w].sequence = nextSequence]
  /\ UNCHANGED <<rows, lock>>

\* Seeded bug: the canonical content is stored where its hash belongs.
NewRowUnhashed(transaction) ==
  [event        |-> transaction.event,
   previousHash |-> transaction.previous,
   recordHash   |-> transaction.event.canonical]

NewRow(transaction) ==
  [event        |-> transaction.event,
   previousHash |-> transaction.previous,
   recordHash   |-> Hash(transaction.event, transaction.previous)]

\* Seeded bug: a session-level lock, which a transaction's end does not release.
Keep(w) == lock

Release(w) == IF lock = w THEN NoWriter ELSE lock

Commit(w) ==
  /\ writers[w].step = "inserted"
  /\ rows' = [rows EXCEPT ![writers[w].sequence] = NewRow(writers[w])]
  /\ lock' = Release(w)
  /\ writers' = [writers EXCEPT ![w] = Idle]
  /\ UNCHANGED nextSequence

\* A statement fails, the connection drops or the process dies: Postgres rolls back,
\* and record() swallows the error or, when strict, throws it.
RollBack(w) ==
  /\ writers[w] # Idle
  /\ lock' = Release(w)
  /\ writers' = [writers EXCEPT ![w] = Idle]
  /\ UNCHANGED <<rows, nextSequence>>

Next ==
  \E w \in Writers :
    \/ \E event \in Events : Begin(w, event)
    \/ TakeLock(w) \/ ReadPrevious(w) \/ InsertRow(w) \/ Commit(w) \/ RollBack(w)

Spec == Init /\ [][Next]_vars

\* The statements of an open transaction keep coming, and Postgres serves the waiters
\* of a lock in the order they came, so one that waits is not passed over for ever.
Fairness ==
  \A w \in Writers : /\ WF_vars(ReadPrevious(w) \/ InsertRow(w) \/ Commit(w))
                     /\ SF_vars(TakeLock(w))

FairSpec == Spec /\ Fairness

----------------------------------------------------------------------------
\* verifyChain: the newest Limit rows, each recomputed from what it stores itself.

Recent == {s \in Recorded : Cardinality({t \in Recorded : t > s}) < Limit}

Reproduces(s) == rows[s].recordHash = Hash(rows[s].event, rows[s].previousHash)

Verified == \A s \in Recent : Reproduces(s)

----------------------------------------------------------------------------
\* Properties.

\* Each row carries the hash of the row before it, and the first carries none: the
\* chain stays linear however the inserts of several operations interleave and fail
\* (the advisory lock is held from the read of the newest row to the commit).
ChainIsLinear ==
  \A s \in Recorded :
    \/ rows[s].previousHash = NoHash /\ \A t \in Recorded : s <= t
    \/ \E p \in Recorded : /\ p < s
                           /\ \A t \in Recorded : t <= p \/ s <= t
                           /\ rows[s].previousHash = rows[p].recordHash

\* Rows are never changed once committed, and they become visible in the order of
\* their sequence numbers, which readers that page by sequence rely on.
AppendsAtTheEnd ==
  [][\A s \in SequenceNumbers : rows'[s] # rows[s] =>
       rows[s] = NoRow /\ \A t \in Recorded : t < s]_vars

\* Only the writer with the lock is past it, and what it read is still the newest row.
LockProtectsTheEnd ==
  /\ \A s \in Recorded : s < nextSequence
  /\ \A w \in Writers :
       /\ writers[w].step \in {"locked", "read", "inserted"} => lock = w
       /\ writers[w].step \in {"read", "inserted"} => IsPrevious(writers[w].previous)
       /\ writers[w].step = "inserted" =>
            /\ writers[w].sequence \in SequenceNumbers
            /\ writers[w].sequence < nextSequence
            /\ \A s \in Recorded : s < writers[w].sequence

\* The inductive invariant behind the chain.
ChainInvariant == TypeOK /\ ChainIsLinear /\ LockProtectsTheEnd

\* The log the newest row's hash covers.
Log == IF Recorded = {} THEN NoHash ELSE rows[CHOOSE s \in Recorded : IsNewest(s)].recordHash

Trail == INSTANCE AppendOnlyLog WITH log <- Log

\* The audit trail is one append-only log.
ImplementsLog == Trail!Spec

\* An operation that waits to record its event is not left waiting by the others:
\* record() is awaited by the request it belongs to.
EveryWriterEnds ==
  \A w \in Writers :
    writers[w].step = "waiting" ~> (writers[w] = Idle \/ nextSequence > MaxSequence)
=============================================================================
