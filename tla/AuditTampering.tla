--------------------------- MODULE AuditTampering ---------------------------
(***************************************************************************)
(* The audit trail when rows are altered or lost behind the application's  *)
(* back (a partial restore, a superuser's statement: the triggers of       *)
(* 0002_audit stop the application's own role), and what verifyChain says  *)
(* of it then.                                                             *)
(***************************************************************************)
EXTENDS AuditChain

VARIABLE committed   \* sequence number -> the row as it was committed, or NoRow

tamperedVars == <<rows, nextSequence, lock, writers, committed>>

TamperInit == Init /\ committed = rows

ApplicationStep ==
  /\ Next
  /\ committed' = [s \in SequenceNumbers |->
                     IF rows[s] = NoRow /\ rows'[s] # NoRow THEN rows'[s] ELSE committed[s]]

Alter(s, event) ==
  /\ s \in Recorded
  /\ rows' = [rows EXCEPT ![s].event = event]
  /\ UNCHANGED <<nextSequence, lock, writers, committed>>

Lose(s) ==
  /\ s \in Recorded
  /\ rows' = [rows EXCEPT ![s] = NoRow]
  /\ UNCHANGED <<nextSequence, lock, writers, committed>>

TamperNext ==
  \/ ApplicationStep
  \/ \E s \in SequenceNumbers : Lose(s) \/ \E event \in Events : Alter(s, event)

TamperSpec == TamperInit /\ [][TamperNext]_tamperedVars

----------------------------------------------------------------------------
Altered(s) == rows[s] # committed[s]

\* A recent row whose hashed content is not what was recorded makes verification fail,
\* whatever was appended, altered or lost besides (verifyChain recomputes every row).
ContentEditsAreDetected ==
  Verified => \A s \in Recent : rows[s].event.canonical = committed[s].event.canonical

\* What tampering leaves of the order of the writers: still one at a time past the lock,
\* and each behind every row there is, though no longer behind the row it read.
WritersInOrder ==
  /\ \A s \in Recorded : s < nextSequence
  /\ \A w \in Writers :
       /\ writers[w].step \in {"locked", "read", "inserted"} => lock = w
       /\ writers[w].step = "inserted" =>
            /\ writers[w].sequence \in SequenceNumbers
            /\ writers[w].sequence < nextSequence
            /\ \A s \in Recorded : s < writers[w].sequence

\* A row still stores the hash, and the previous hash, it was committed with.
HashesAreOriginal ==
  \A s \in Recorded :
    /\ committed[s] \in Row
    /\ rows[s].previousHash = committed[s].previousHash
    /\ rows[s].recordHash = Hash(committed[s].event, committed[s].previousHash)

\* The inductive invariant behind the detection of edits.
TamperInvariant ==
  /\ TypeOK
  /\ committed \in [SequenceNumbers -> Row \union {NoRow}]
  /\ WritersInOrder
  /\ HashesAreOriginal
  /\ ContentEditsAreDetected

\* audit/service.ts:22-24: "editing or deleting a row is then detectable by
\* `verifyChain`". Of editing:
EditingIsDetectable == Verified => \A s \in Recent : ~Altered(s)

\* The same sentence, of deleting; and 269-271: "which is where tampering or a lost row
\* would show up". The rows around the lost one are there to be compared.
DeletingIsDetectable ==
  Verified => \A s, t \in Recent : \A between \in s + 1 .. t - 1 :
                committed[between] # NoRow => rows[between] # NoRow
=============================================================================
