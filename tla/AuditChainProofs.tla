-------------------------- MODULE AuditChainProofs --------------------------
(***************************************************************************)
(* Proofs that concurrent, failing inserts keep the audit chain linear,    *)
(* and that verification finds the edits somebody else makes to its rows.  *)
(***************************************************************************)
EXTENDS AuditTampering, TLAPS

\* A row is never NoRow, a transaction never Idle: the sentinels have other shapes.
LEMMA Sentinels ==
  /\ \A row \in Row : row # NoRow
  /\ \A t \in Transaction : t # Idle
<1>1. \A row \in Row : DOMAIN row = {"event", "previousHash", "recordHash"}
  BY DEF Row
<1>2. \A t \in Transaction : t.step # "idle"
  BY DEF Transaction
<1>3. DOMAIN NoRow = {"absent"}
  BY DEF NoRow
<1> QED BY <1>1, <1>2, <1>3 DEF Idle

\* A writer past the first statement is a transaction.
LEMMA InTransaction ==
  ASSUME TypeOK, NEW w \in Writers, writers[w].step # "idle"
  PROVE  writers[w] \in Transaction
BY DEF TypeOK, Idle

LEMMA NewRowType ==
  ASSUME NEW t \in Transaction PROVE NewRow(t) \in Row
BY DEF NewRow, Row, Transaction, Hash, Hashes, Events

LEMMA InitTyped == Init => TypeOK
BY AuditAssumption DEF Init, TypeOK, SequenceNumbers

LEMMA TypeStep == TypeOK /\ [Next]_vars => TypeOK'
<1> SUFFICES ASSUME TypeOK, [Next]_vars PROVE TypeOK'
  OBVIOUS
<1> USE DEF TypeOK
<1>1. ASSUME NEW w \in Writers, NEW event \in Events, Begin(w, event) PROVE TypeOK'
  BY <1>1 DEF Begin, Transaction, Hashes, NoHash
<1>2. ASSUME NEW w \in Writers, TakeLock(w) PROVE TypeOK'
  BY <1>2, InTransaction DEF TakeLock, Transaction
<1>3. ASSUME NEW w \in Writers, ReadPrevious(w) PROVE TypeOK'
  <2>1. PICK hash \in {NoHash} \union {rows[s].recordHash : s \in Recorded} :
          writers' = [writers EXCEPT ![w].step = "read", ![w].previous = hash]
    BY <1>3 DEF ReadPrevious
  <2>2. hash \in Hashes
    <3>1. \A s \in Recorded : rows[s].recordHash \in Hashes
      BY DEF Recorded, Row
    <3>2. NoHash \in Hashes
      BY DEF NoHash, Hashes
    <3> QED BY <3>1, <3>2
  <2>3. writers[w] \in Transaction
    BY <1>3, InTransaction DEF ReadPrevious
  <2>4. [writers[w] EXCEPT !.step = "read", !.previous = hash] \in Transaction
    BY <2>2, <2>3 DEF Transaction
  <2>5. writers' = [writers EXCEPT ![w] = [writers[w] EXCEPT !.step = "read", !.previous = hash]]
    BY <2>1
  <2> QED BY <1>3, <2>4, <2>5 DEF ReadPrevious
<1>4. ASSUME NEW w \in Writers, InsertRow(w) PROVE TypeOK'
  <2>1. nextSequence \in SequenceNumbers /\ nextSequence' \in 1 .. MaxSequence + 1
    BY <1>4, AuditAssumption DEF InsertRow, SequenceNumbers
  <2> QED BY <1>4, <2>1, InTransaction DEF InsertRow, Transaction
<1>5. ASSUME NEW w \in Writers, Commit(w) PROVE TypeOK'
  BY <1>5, InTransaction, NewRowType DEF Commit, Release
<1>6. ASSUME NEW w \in Writers, RollBack(w) PROVE TypeOK'
  BY <1>6 DEF RollBack, Release
<1>7. CASE UNCHANGED vars
  BY <1>7 DEF vars
<1> QED BY <1>1, <1>2, <1>3, <1>4, <1>5, <1>6, <1>7 DEF Next

\* The trail and the transactions have their types in every reachable state.
THEOREM TypeCorrect == Spec => []TypeOK
BY InitTyped, TypeStep, PTL DEF Spec

----------------------------------------------------------------------------
\* The chain.

LEMMA InitChained == Init => ChainInvariant
<1> SUFFICES ASSUME Init PROVE ChainInvariant
  OBVIOUS
<1>1. Recorded = {} /\ \A w \in Writers : writers[w].step = "idle"
  BY DEF Init, Recorded, Idle
<1> QED BY <1>1, InitTyped DEF ChainInvariant, ChainIsLinear, LockProtectsTheEnd

\* A step that leaves the committed rows alone leaves what depends on them alone.
LEMMA RowsUntouched ==
  ASSUME rows' = rows
  PROVE  /\ Recorded' = Recorded
         /\ ChainIsLinear => ChainIsLinear'
         /\ \A hash : IsPrevious(hash) => IsPrevious(hash)'
BY DEF Recorded, ChainIsLinear, IsPrevious, IsNewest

LEMMA ChainStep == ChainInvariant /\ [Next]_vars => ChainInvariant'
<1> SUFFICES ASSUME ChainInvariant, [Next]_vars PROVE ChainInvariant'
  OBVIOUS
<1>0. TypeOK /\ ChainIsLinear /\ LockProtectsTheEnd /\ TypeOK'
  BY TypeStep DEF ChainInvariant
<1>N. SequenceNumbers \subseteq Nat /\ Recorded \subseteq SequenceNumbers
  BY AuditAssumption DEF SequenceNumbers, Recorded
<1>1. ASSUME rows' = rows PROVE ChainIsLinear'
  BY <1>0, <1>1, RowsUntouched
<1>2. ASSUME NEW w \in Writers, NEW event \in Events, Begin(w, event)
      PROVE  LockProtectsTheEnd'
  BY <1>0, <1>2, RowsUntouched DEF Begin, LockProtectsTheEnd, TypeOK
<1>3. ASSUME NEW w \in Writers, TakeLock(w) PROVE LockProtectsTheEnd'
  <2>1. writers[w] \in Transaction
    BY <1>0, <1>3, InTransaction DEF TakeLock
  <2>2. \A v \in Writers : writers[v].step \notin {"locked", "read", "inserted"}
    BY <1>0, <1>3, AuditAssumption DEF TakeLock, LockIsFree, LockProtectsTheEnd
  <2> QED BY <1>0, <1>3, <2>1, <2>2, RowsUntouched
          DEF TakeLock, LockProtectsTheEnd, TypeOK, Transaction
<1>4. ASSUME NEW w \in Writers, ReadPrevious(w) PROVE LockProtectsTheEnd'
  <2>1. writers[w] \in Transaction
    BY <1>0, <1>4, InTransaction DEF ReadPrevious
  <2>2. PICK hash : /\ IsPrevious(hash)
                    /\ writers' = [writers EXCEPT ![w].step = "read", ![w].previous = hash]
    BY <1>4 DEF ReadPrevious
  <2>3. writers'[w].step = "read" /\ writers'[w].previous = hash
    BY <1>0, <2>1, <2>2 DEF TypeOK, Transaction
  <2>4. \A v \in Writers \ {w} : writers'[v] = writers[v]
    BY <1>0, <2>2 DEF TypeOK
  <2> QED BY <1>0, <1>4, <2>2, <2>3, <2>4, RowsUntouched DEF ReadPrevious, LockProtectsTheEnd
<1>5. ASSUME NEW w \in Writers, InsertRow(w) PROVE LockProtectsTheEnd'
  <2>1. writers[w] \in Transaction
    BY <1>0, <1>5, InTransaction DEF InsertRow
  <2>2. /\ writers'[w].step = "inserted" /\ writers'[w].sequence = nextSequence
        /\ writers'[w].previous = writers[w].previous
        /\ \A v \in Writers \ {w} : writers'[v] = writers[v]
    BY <1>0, <1>5, <2>1 DEF InsertRow, TypeOK, Transaction
  <2>3. /\ nextSequence' = nextSequence + 1 /\ nextSequence \in SequenceNumbers
        /\ Recorded' = Recorded /\ Recorded \subseteq SequenceNumbers /\ lock' = lock
    BY <1>0, <1>5, RowsUntouched DEF InsertRow, Recorded, TypeOK, SequenceNumbers
  <2>4. IsPrevious(writers[w].previous)'
    BY <1>0, <1>5, <2>2, RowsUntouched DEF InsertRow, LockProtectsTheEnd
  <2>5. \A s \in Recorded' : s < nextSequence'
    <3>1. \A s \in Recorded : s < nextSequence /\ s \in Nat /\ nextSequence \in Nat
      BY <1>0, <1>N, <2>3 DEF LockProtectsTheEnd
    <3> QED BY <2>3, <3>1
  <2>6. lock = w /\ \A v \in Writers \ {w} : writers[v].step \notin {"locked", "read", "inserted"}
    BY <1>0, <1>5 DEF InsertRow, LockProtectsTheEnd
  <2>7. ASSUME NEW v \in Writers
        PROVE  /\ writers'[v].step \in {"locked", "read", "inserted"} => v = w
               /\ writers'[v].step \in {"read", "inserted"} => IsPrevious(writers[v].previous)'
               /\ writers'[v].step = "inserted" =>
                    /\ writers'[v].sequence \in SequenceNumbers
                    /\ writers'[v].sequence < nextSequence'
                    /\ \A s \in Recorded : s < writers'[v].sequence
    <3>1. nextSequence < nextSequence'
      BY <2>3 DEF SequenceNumbers
    <3>2. \A s \in Recorded : s < nextSequence
      BY <1>0 DEF LockProtectsTheEnd
    <3>3. CASE v = w
      BY <2>2, <2>3, <2>4, <3>1, <3>2, <3>3, Zenon
    <3>4. CASE v # w
      BY <2>2, <2>6, <3>4
    <3> QED BY <3>3, <3>4
  <2>8. lock' = w
    BY <2>3, <2>6
  <2> QED BY <2>3, <2>5, <2>7, <2>8 DEF LockProtectsTheEnd
<1>6. ASSUME NEW w \in Writers, Commit(w) PROVE ChainIsLinear' /\ LockProtectsTheEnd'
  <2> DEFINE n == writers[w].sequence
  <2>1. /\ writers[w] \in Transaction /\ n \in SequenceNumbers /\ lock = w
        /\ n < nextSequence /\ IsPrevious(writers[w].previous)
        /\ \A s \in Recorded : s < n
    BY <1>0, <1>6, InTransaction DEF Commit, LockProtectsTheEnd
  <2>2. /\ Recorded' = Recorded \union {n}
        /\ \A s \in Recorded : rows'[s] = rows[s]
        /\ rows'[n].previousHash = writers[w].previous
    <3>1. rows' = [rows EXCEPT ![n] = NewRow(writers[w])] /\ NewRow(writers[w]) # NoRow
      BY <1>6, <2>1, NewRowType, Sentinels DEF Commit
    <3>2. NewRow(writers[w]).previousHash = writers[w].previous
      BY DEF NewRow
    <3>3. n \notin Recorded
      BY <2>1 DEF SequenceNumbers
    <3> HIDE DEF n
    <3> QED BY <1>0, <2>1, <3>1, <3>2, <3>3 DEF Recorded, TypeOK
  <2>3. \A v \in Writers : writers'[v].step \notin {"locked", "read", "inserted"}
    BY <1>0, <1>6, <2>1 DEF Commit, LockProtectsTheEnd, TypeOK, Idle
  <2>4. LockProtectsTheEnd'
    BY <1>0, <1>6, <2>1, <2>2, <2>3 DEF LockProtectsTheEnd, Commit
  <2>5. ChainIsLinear'
    <3> SUFFICES ASSUME NEW s \in Recorded'
                 PROVE  \/ rows'[s].previousHash = NoHash /\ \A t \in Recorded' : s <= t
                        \/ \E p \in Recorded' : /\ p < s
                                                /\ \A t \in Recorded' : t <= p \/ s <= t
                                                /\ rows'[s].previousHash = rows'[p].recordHash
      BY DEF ChainIsLinear
    <3>1. n \in Nat /\ Recorded \subseteq Nat
      BY <1>N, <2>1
    <3> HIDE DEF n
    <3>2. CASE s \in Recorded
      BY <1>0, <2>1, <2>2, <3>1, <3>2 DEF ChainIsLinear
    <3>3. CASE s = n
      <4>1. CASE Recorded = {} /\ writers[w].previous = NoHash
        BY <2>2, <3>1, <3>3, <4>1
      <4>2. CASE \E p \in Recorded : IsNewest(p) /\ writers[w].previous = rows[p].recordHash
        <5>1. PICK p \in Recorded : IsNewest(p) /\ writers[w].previous = rows[p].recordHash
          BY <4>2
        <5>2. p < s
          BY <2>1, <3>3, <5>1
        <5>3. \A t \in Recorded' : t <= p \/ s <= t
          BY <2>2, <3>1, <3>3, <5>1 DEF IsNewest
        <5> QED BY <2>2, <3>3, <5>1, <5>2, <5>3
      <4> QED BY <2>1, <4>1, <4>2 DEF IsPrevious
    <3> QED BY <2>2, <3>2, <3>3
  <2> QED BY <2>4, <2>5
<1>7. ASSUME NEW w \in Writers, RollBack(w) PROVE LockProtectsTheEnd'
  BY <1>0, <1>7, RowsUntouched DEF RollBack, Release, LockProtectsTheEnd, TypeOK, Idle
<1>8. ASSUME UNCHANGED vars PROVE LockProtectsTheEnd'
  BY <1>0, <1>8, RowsUntouched DEF vars, LockProtectsTheEnd
<1> QED BY <1>0, <1>1, <1>2, <1>3, <1>4, <1>5, <1>6, <1>7, <1>8
        DEF ChainInvariant, Next, vars, Begin, TakeLock, ReadPrevious, InsertRow, RollBack

\* The chain is linear and its end protected, whatever is in flight.
THEOREM ChainInvariantHolds == Spec => []ChainInvariant
BY InitChained, ChainStep, PTL DEF Spec

\* However inserts interleave and fail, every row carries its predecessor's hash.
THEOREM ChainStaysLinear == Spec => []ChainIsLinear
<1>1. ChainInvariant => ChainIsLinear
  BY DEF ChainInvariant
<1> QED BY <1>1, ChainInvariantHolds, PTL

----------------------------------------------------------------------------
\* What a step may do to the trail.

\* A step commits one row after all others, or leaves the rows alone.
LEMMA StepAppends ==
  ASSUME ChainInvariant, [Next]_vars, rows' # rows
  PROVE  \E w \in Writers :
           /\ writers[w] \in Transaction /\ writers[w].sequence \in SequenceNumbers
           /\ \A t \in Recorded : t < writers[w].sequence
           /\ IsPrevious(writers[w].previous)
           /\ rows' = [rows EXCEPT ![writers[w].sequence] = NewRow(writers[w])]
<1>1. PICK w \in Writers : Commit(w)
  BY DEF Next, vars, Begin, TakeLock, ReadPrevious, InsertRow, RollBack
<1> QED BY <1>1, InTransaction DEF Commit, ChainInvariant, LockProtectsTheEnd

\* Committed rows never change, and sequence numbers become visible in order.
THEOREM AppendsAtTheEndHolds == Spec => AppendsAtTheEnd
<1>1. ASSUME ChainInvariant, [Next]_vars,
             NEW s \in SequenceNumbers, rows'[s] # rows[s]
      PROVE  rows[s] = NoRow /\ \A t \in Recorded : t < s
  <2>1. PICK w \in Writers :
          /\ writers[w].sequence \in SequenceNumbers
          /\ \A t \in Recorded : t < writers[w].sequence
          /\ rows' = [rows EXCEPT ![writers[w].sequence] = NewRow(writers[w])]
    BY <1>1, StepAppends
  <2>2. s = writers[w].sequence
    BY <1>1, <2>1 DEF ChainInvariant, TypeOK
  <2>3. s \notin Recorded
    BY <2>1, <2>2, AuditAssumption DEF SequenceNumbers
  <2> QED BY <2>1, <2>2, <2>3 DEF Recorded
<1>2. ChainInvariant /\ [Next]_vars =>
        [\A s \in SequenceNumbers : rows'[s] # rows[s] =>
           rows[s] = NoRow /\ \A t \in Recorded : t < s]_vars
  BY <1>1
<1> QED BY <1>2, ChainInvariantHolds, PTL DEF Spec, AppendsAtTheEnd

LEMMA LogOfNewest == TypeOK => \A hash : IsPrevious(hash) => Log = hash
<1> SUFFICES ASSUME TypeOK, NEW hash, IsPrevious(hash) PROVE Log = hash
  OBVIOUS
<1>1. CASE Recorded = {} /\ hash = NoHash
  BY <1>1 DEF Log
<1>2. CASE \E s \in Recorded : IsNewest(s) /\ hash = rows[s].recordHash
  <2>1. PICK s \in Recorded : IsNewest(s) /\ hash = rows[s].recordHash
    BY <1>2
  <2> DEFINE newest == CHOOSE t \in Recorded : IsNewest(t)
  <2>2. newest \in Recorded /\ IsNewest(newest)
    BY <2>1
  <2>3. newest = s
    <3>1. newest <= s /\ s <= newest /\ newest \in Nat /\ s \in Nat
      BY <2>1, <2>2, AuditAssumption DEF IsNewest, Recorded, SequenceNumbers
    <3> HIDE DEF newest
    <3> QED BY <3>1
  <2> QED BY <2>1, <2>3 DEF Log
<1> QED BY <1>1, <1>2 DEF IsPrevious

LEMMA LogOfNewestNext == (TypeOK => \A hash : IsPrevious(hash) => Log = hash)'
BY LogOfNewest, PTL

\* The trail implements one append-only log.
THEOREM LogImplemented == Spec => ImplementsLog
<1>1. Init => Trail!Init
  BY DEF Init, Trail!Init, Log, Recorded, NoHash
<1>2. ChainInvariant /\ ChainInvariant' /\ [Next]_vars => [Trail!Next]_Log
  <2> SUFFICES ASSUME ChainInvariant, ChainInvariant', [Next]_vars PROVE [Trail!Next]_Log
    OBVIOUS
  <2>1. CASE rows' = rows
    BY <2>1 DEF Log, Recorded, IsNewest
  <2>2. CASE rows' # rows
    <3>1. PICK w \in Writers :
            /\ writers[w] \in Transaction /\ writers[w].sequence \in SequenceNumbers
            /\ \A t \in Recorded : t < writers[w].sequence
            /\ IsPrevious(writers[w].previous)
            /\ rows' = [rows EXCEPT ![writers[w].sequence] = NewRow(writers[w])]
      BY <2>2, StepAppends
    <3> DEFINE n == writers[w].sequence
    <3>2. Log = writers[w].previous
      BY <3>1, LogOfNewest DEF ChainInvariant
    <3>3. /\ Recorded' = Recorded \union {n}
          /\ rows'[n] = NewRow(writers[w])
      BY <3>1, NewRowType, Sentinels DEF Recorded, ChainInvariant, TypeOK
    <3>4. n \in Nat /\ Recorded \subseteq Nat
      BY <3>1, AuditAssumption DEF SequenceNumbers, Recorded
    <3>5. Log' = rows'[n].recordHash
      <4>0. PICK hash : hash = NewRow(writers[w]).recordHash
        OBVIOUS
      <4>1. PICK m : m = n
        OBVIOUS
      <4>2. m \in Recorded' /\ \A t \in Recorded' : t <= m
        <5>1. m \in Nat /\ \A t \in Recorded : t < m /\ t \in Nat
          BY <3>1, <3>4, <4>1
        <5>2. Recorded' = Recorded \union {m}
          BY <3>3, <4>1
        <5> QED BY <5>1, <5>2
      <4>3. IsNewest(m)'
        BY <4>2 DEF IsNewest
      <4>4. hash = rows'[m].recordHash
        BY <3>3, <4>0, <4>1
      <4>5. IsPrevious(hash)'
        BY <4>2, <4>3, <4>4 DEF IsPrevious
      <4> QED BY <3>3, <4>0, <4>5, LogOfNewestNext DEF ChainInvariant
    <3>6. rows'[n].recordHash = Append(Log, writers[w].event.canonical)
      BY <3>2, <3>3 DEF NewRow, Hash
    <3>7. writers[w].event.canonical \in Contents
      BY <3>1 DEF Transaction, Events
    <3> QED BY <3>5, <3>6, <3>7 DEF Trail!Next, Trail!Add
  <2> QED BY <2>1, <2>2
<1> QED BY <1>1, <1>2, ChainInvariantHolds, PTL DEF Spec, ImplementsLog, Trail!Spec

----------------------------------------------------------------------------
\* Under tampering.

LEMMA InitTampered == TamperInit => TamperInvariant
<1> SUFFICES ASSUME TamperInit PROVE TamperInvariant
  OBVIOUS
<1>1. TypeOK /\ committed = rows
  BY InitTyped DEF TamperInit
<1>2. Recorded = {} /\ \A w \in Writers : writers[w].step = "idle"
  BY DEF TamperInit, Init, Recorded, Idle
<1> QED BY <1>1, <1>2
        DEF TamperInvariant, TypeOK, WritersInOrder, HashesAreOriginal, ContentEditsAreDetected, Recent

LEMMA TamperTypeStep == TypeOK /\ [TamperNext]_tamperedVars => TypeOK'
<1> SUFFICES ASSUME TypeOK, [TamperNext]_tamperedVars PROVE TypeOK'
  OBVIOUS
<1>1. CASE [Next]_vars
  BY <1>1, TypeStep
<1>2. ASSUME NEW s \in SequenceNumbers, NEW event \in Events, Alter(s, event) PROVE TypeOK'
  <2>1. rows[s] \in Row
    BY <1>2 DEF Alter, Recorded, TypeOK
  <2>2. [rows[s] EXCEPT !.event = event] \in Row
    BY <2>1 DEF Row
  <2> QED BY <1>2, <2>2 DEF Alter, TypeOK
<1>3. ASSUME NEW s \in SequenceNumbers, Lose(s) PROVE TypeOK'
  BY <1>3 DEF Lose, TypeOK
<1> QED BY <1>1, <1>2, <1>3 DEF TamperNext, ApplicationStep, tamperedVars, vars

\* Without rows the order of the writers asks no more than that numbers are drawn once.
LEMMA OrderLasts ==
  ASSUME WritersInOrder, Recorded' \subseteq Recorded, UNCHANGED <<nextSequence, lock, writers>>
  PROVE  WritersInOrder'
BY DEF WritersInOrder

LEMMA OrderStep ==
  ASSUME TypeOK, WritersInOrder, [Next]_vars
  PROVE  WritersInOrder'
<1>N. SequenceNumbers \subseteq Nat /\ Recorded \subseteq SequenceNumbers /\ nextSequence \in Nat
  BY AuditAssumption DEF SequenceNumbers, Recorded, TypeOK
<1>U. rows' = rows => Recorded' = Recorded
  BY DEF Recorded
<1>1. ASSUME NEW w \in Writers, NEW event \in Events, Begin(w, event) PROVE WritersInOrder'
  BY <1>1, <1>U DEF Begin, WritersInOrder, TypeOK
<1>2. ASSUME NEW w \in Writers, TakeLock(w) PROVE WritersInOrder'
  <2>1. writers[w] \in Transaction
    BY <1>2, InTransaction DEF TakeLock
  <2>2. \A v \in Writers : writers[v].step \notin {"locked", "read", "inserted"}
    BY <1>2, AuditAssumption DEF TakeLock, LockIsFree, WritersInOrder
  <2> QED BY <1>2, <1>U, <2>1, <2>2 DEF TakeLock, WritersInOrder, TypeOK, Transaction
<1>3. ASSUME NEW w \in Writers, ReadPrevious(w) PROVE WritersInOrder'
  <2>1. PICK hash : writers' = [writers EXCEPT ![w].step = "read", ![w].previous = hash]
    BY <1>3 DEF ReadPrevious
  <2>2. writers[w] \in Transaction
    BY <1>3, InTransaction DEF ReadPrevious
  <2>3. writers'[w].step = "read" /\ \A v \in Writers \ {w} : writers'[v] = writers[v]
    BY <2>1, <2>2 DEF TypeOK, Transaction
  <2> QED BY <1>3, <1>U, <2>3 DEF ReadPrevious, WritersInOrder
<1>4. ASSUME NEW w \in Writers, InsertRow(w) PROVE WritersInOrder'
  <2>1. writers[w] \in Transaction
    BY <1>4, InTransaction DEF InsertRow
  <2>2. /\ writers'[w].step = "inserted" /\ writers'[w].sequence = nextSequence
        /\ \A v \in Writers \ {w} : writers'[v] = writers[v]
    BY <1>4, <2>1 DEF InsertRow, TypeOK, Transaction
  <2>3. /\ nextSequence' = nextSequence + 1 /\ nextSequence \in SequenceNumbers
        /\ Recorded' = Recorded /\ lock' = lock
    BY <1>4, <1>U DEF InsertRow, TypeOK, SequenceNumbers
  <2>4. lock = w /\ \A v \in Writers \ {w} : writers[v].step \notin {"locked", "read", "inserted"}
    BY <1>4 DEF InsertRow, WritersInOrder
  <2>5. \A s \in Recorded : s < nextSequence /\ s \in Nat
    BY <1>N DEF WritersInOrder
  <2>6. nextSequence < nextSequence'
    BY <1>N, <2>3
  <2>7. \A s \in Recorded : s < nextSequence'
    BY <1>N, <2>3, <2>5
  <2> QED BY <2>2, <2>3, <2>4, <2>5, <2>6, <2>7 DEF WritersInOrder
<1>5. ASSUME NEW w \in Writers, Commit(w) PROVE WritersInOrder'
  <2>1. /\ writers[w].sequence \in SequenceNumbers /\ lock = w
        /\ writers[w].sequence < nextSequence
    BY <1>5 DEF Commit, WritersInOrder
  <2>2. Recorded' \subseteq Recorded \union {writers[w].sequence}
    BY <1>5 DEF Commit, Recorded, TypeOK
  <2>3. \A v \in Writers : writers'[v].step \notin {"locked", "read", "inserted"}
    BY <1>5, <2>1 DEF Commit, WritersInOrder, TypeOK, Idle
  <2> QED BY <1>5, <2>1, <2>2, <2>3 DEF WritersInOrder, Commit
<1>6. ASSUME NEW w \in Writers, RollBack(w) PROVE WritersInOrder'
  BY <1>6, <1>U DEF RollBack, Release, WritersInOrder, TypeOK, Idle
<1>7. CASE UNCHANGED vars
  BY <1>7, <1>U DEF vars, WritersInOrder
<1> QED BY <1>1, <1>2, <1>3, <1>4, <1>5, <1>6, <1>7 DEF Next

\* A step of the application leaves the rows alone, or commits one at a free number.
LEMMA ApplicationAppends ==
  ASSUME TypeOK, WritersInOrder, [Next]_vars, rows' # rows
  PROVE  \E w \in Writers :
           /\ writers[w] \in Transaction /\ writers[w].sequence \in SequenceNumbers \ Recorded
           /\ rows' = [rows EXCEPT ![writers[w].sequence] = NewRow(writers[w])]
<1>1. PICK w \in Writers : Commit(w)
  BY DEF Next, vars, Begin, TakeLock, ReadPrevious, InsertRow, RollBack
<1>2. writers[w].sequence \in SequenceNumbers \ Recorded
  BY <1>1, AuditAssumption DEF Commit, WritersInOrder, SequenceNumbers
<1> QED BY <1>1, <1>2, InTransaction DEF Commit

LEMMA OriginalStep ==
  ASSUME TypeOK, WritersInOrder, HashesAreOriginal, [TamperNext]_tamperedVars,
         committed \in [SequenceNumbers -> Row \union {NoRow}]
  PROVE  HashesAreOriginal' /\ committed' \in [SequenceNumbers -> Row \union {NoRow}]
<1>1. ASSUME ApplicationStep, rows' # rows
      PROVE  HashesAreOriginal' /\ committed' \in [SequenceNumbers -> Row \union {NoRow}]
  <2>1. PICK w \in Writers :
          /\ writers[w] \in Transaction /\ writers[w].sequence \in SequenceNumbers \ Recorded
          /\ rows' = [rows EXCEPT ![writers[w].sequence] = NewRow(writers[w])]
    BY <1>1, ApplicationAppends DEF ApplicationStep
  <2>2. PICK n, row : n = writers[w].sequence /\ row = NewRow(writers[w])
    OBVIOUS
  <2>3. row \in Row /\ row # NoRow /\ row.recordHash = Hash(row.event, row.previousHash)
    BY <2>1, <2>2, NewRowType, Sentinels DEF NewRow
  <2>4. /\ n \in SequenceNumbers /\ rows[n] = NoRow /\ rows'[n] = row
        /\ \A s \in SequenceNumbers \ {n} : rows'[s] = rows[s]
    BY <2>1, <2>2 DEF TypeOK, Recorded
  <2>5. committed' = [committed EXCEPT ![n] = row]
    BY <1>1, <2>3, <2>4 DEF ApplicationStep
  <2>6. Recorded' = Recorded \union {n}
    BY <2>3, <2>4 DEF Recorded
  <2> QED BY <2>3, <2>4, <2>5, <2>6 DEF HashesAreOriginal, Recorded
<1>2. ASSUME ApplicationStep, rows' = rows
      PROVE  HashesAreOriginal' /\ committed' \in [SequenceNumbers -> Row \union {NoRow}]
  <2>1. committed' = committed
    BY <1>2 DEF ApplicationStep
  <2> QED BY <1>2, <2>1 DEF HashesAreOriginal, Recorded
<1>3. ASSUME NEW s \in SequenceNumbers, NEW event \in Events, Alter(s, event)
      PROVE  HashesAreOriginal' /\ committed' \in [SequenceNumbers -> Row \union {NoRow}]
  <2>1. rows[s] \in Row /\ s \in Recorded
    BY <1>3 DEF Alter, Recorded, TypeOK
  <2>2. /\ rows'[s].previousHash = rows[s].previousHash /\ rows'[s].recordHash = rows[s].recordHash
        /\ \A t \in SequenceNumbers \ {s} : rows'[t] = rows[t]
    BY <1>3, <2>1 DEF Alter, TypeOK, Row
  <2>3. Recorded' \subseteq Recorded
    BY <2>1, <2>2 DEF Recorded
  <2> QED BY <1>3, <2>1, <2>2, <2>3 DEF HashesAreOriginal, Alter, Recorded
<1>4. ASSUME NEW s \in SequenceNumbers, Lose(s)
      PROVE  HashesAreOriginal' /\ committed' \in [SequenceNumbers -> Row \union {NoRow}]
  BY <1>4 DEF HashesAreOriginal, Recorded, Lose, TypeOK
<1>5. CASE UNCHANGED tamperedVars
  BY <1>5 DEF tamperedVars, HashesAreOriginal, Recorded
<1> QED BY <1>1, <1>2, <1>3, <1>4, <1>5 DEF TamperNext

\* Where the stored hashes are the original ones, a row that reproduces its hash has the
\* original content.
LEMMA OriginalsDetect == TypeOK /\ HashesAreOriginal => ContentEditsAreDetected
<1> SUFFICES ASSUME TypeOK, HashesAreOriginal, Verified, NEW s \in Recent
             PROVE  rows[s].event.canonical = committed[s].event.canonical
  BY DEF ContentEditsAreDetected
<1>1. s \in Recorded /\ rows[s] \in Row /\ committed[s] \in Row
  BY DEF Recent, Recorded, TypeOK, HashesAreOriginal
<1>2. PICK p, c, d : /\ p = committed[s].previousHash
                     /\ c = rows[s].event.canonical /\ d = committed[s].event.canonical
  OBVIOUS
<1>3. p \in Hashes /\ c \in Contents /\ d \in Contents
  BY <1>1, <1>2 DEF Row, Events
<1>4. Append(p, c) = Append(p, d)
  BY <1>1, <1>2 DEF Verified, Reproduces, HashesAreOriginal, Hash
<1>5. Append(p, c)[Len(p) + 1] = c /\ Append(p, d)[Len(p) + 1] = d
  BY <1>3 DEF Hashes
<1> QED BY <1>2, <1>4, <1>5

LEMMA TamperStep == TamperInvariant /\ [TamperNext]_tamperedVars => TamperInvariant'
<1> SUFFICES ASSUME TamperInvariant, [TamperNext]_tamperedVars PROVE TamperInvariant'
  OBVIOUS
<1>1. TypeOK' /\ HashesAreOriginal' /\ committed' \in [SequenceNumbers -> Row \union {NoRow}]
  BY TamperTypeStep, OriginalStep DEF TamperInvariant
<1>2. WritersInOrder'
  <2>1. CASE [Next]_vars
    BY <2>1, OrderStep DEF TamperInvariant
  <2>2. ASSUME NEW s \in SequenceNumbers, NEW event \in Events, Alter(s, event)
        PROVE  WritersInOrder'
    <3>1. Recorded' \subseteq Recorded
      BY <2>2 DEF Alter, Recorded, TamperInvariant, TypeOK
    <3> QED BY <2>2, <3>1, OrderLasts DEF Alter, TamperInvariant
  <2>3. ASSUME NEW s \in SequenceNumbers, Lose(s) PROVE WritersInOrder'
    <3>1. Recorded' \subseteq Recorded
      BY <2>3 DEF Lose, Recorded, TamperInvariant, TypeOK
    <3> QED BY <2>3, <3>1, OrderLasts DEF Lose, TamperInvariant
  <2> QED BY <2>1, <2>2, <2>3 DEF TamperNext, ApplicationStep, tamperedVars, vars
<1>3. ContentEditsAreDetected'
  <2>1. (TypeOK /\ HashesAreOriginal => ContentEditsAreDetected)'
    BY OriginalsDetect, PTL
  <2> QED BY <1>1, <2>1
<1> QED BY <1>1, <1>2, <1>3 DEF TamperInvariant

\* Whatever is altered or lost, what remains of a row keeps the hashes it was committed with,
\* and the writers stay in order behind it.
THEOREM TamperingCorrect == TamperSpec => []TamperInvariant
BY InitTampered, TamperStep, PTL DEF TamperSpec

\* However rows are appended, altered and lost, a row whose content is not what was
\* recorded makes verification fail (verifyChain recomputes the hash of every row it reads).
THEOREM ContentEditsAreDetectedHolds == TamperSpec => []ContentEditsAreDetected
<1>1. TamperInvariant => ContentEditsAreDetected
  BY DEF TamperInvariant
<1> QED BY <1>1, TamperingCorrect, PTL
=============================================================================
