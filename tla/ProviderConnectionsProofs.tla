--------------------- MODULE ProviderConnectionsProofs ---------------------
(***************************************************************************)
(* Proofs about ProviderConnections. What a lookup or a request has read   *)
(* is what is there, as long as its history says that nobody wrote in      *)
(* between; a write says so of everything that was read before it, so the  *)
(* invariant is kept by what the writer itself leaves behind.              *)
(***************************************************************************)
EXTENDS ProviderConnections, ConnectionDialog, ConnectionForm, TLAPS

LookupFits(k) ==
  /\ k.step = "secrets" => k.resolved.source \in Ids
  /\ k.step = "secrets" /\ k.clean =>
       /\ IsNewest(k.resolved.source)
       /\ k.resolved.shape.settings = rows[k.resolved.source].shape.settings
  /\ k.step = "store" /\ k.clean => IsCurrent(k.resolved)

LookupsFit == \A l \in Lookups, k \in Lookup : k = lookups[l] => LookupFits(k)

RowFits(row) ==
  row.state = "saved" /\ row.status # "not_tested" /\ ~row.raced /\ ~row.pending
    => row.probed = row.shape

RowsFit == \A i \in Ids, row \in Row : row = rows[i] => RowFits(row)

\* Which operations have which steps.
StepFits(q) ==
  /\ q.step \notin {"idle", "insert"} => q.id \in Ids
  /\ q.step = "idle" => ~q.clean /\ ~q.dirty
  /\ q.step = "credentials" => q.op = "test"
  /\ q.step \in {"insert", "seal"} => q.op \in {"create", "import"}
  /\ q.step = "write" => q.op \in {"update", "enable", "disable", "remove"}
  /\ q.step = "record" => q.op \in {"test", "create"}
  /\ q.step = "reload" => q.op \in {"create", "update", "enable", "disable"}
  /\ q.op = "import" => ~q.dirty

\* What an undisturbed request knows of its row.
Knows(q, row) ==
  /\ q.step = "credentials" => q.seen.settings = row.shape.settings
  /\ q.step = "write" => q.seen = row.shape
  /\ q.step = "record" /\ q.op = "test" => q.seen = row.shape
  /\ q.step \in {"reload", "record"} /\ q.op = "create" => q.sent = row.shape
  /\ q.step = "seal" => /\ row.pending
                        /\ q.sent.settings = row.shape.settings
                        /\ row.status # "not_tested" /\ ~row.raced => row.probed = q.sent

Fits(q) ==
  /\ StepFits(q)
  /\ \A row \in Row :
       q.id \in Ids /\ q.clean /\ row = rows[q.id] /\ row.state = "saved" => Knows(q, row)

RequestsFit == \A h \in Requests, q \in Request : q = requests[h] => Fits(q)

ConnectionsInvariant ==
  TypeOK /\ LookupsFit /\ OnlyOvertakenLookupsAreStale /\ RowsFit /\ RequestsFit

LEMMA ShapesAreTyped ==
  /\ Nothing \in Shape /\ Fallback \in Resolution /\ NoRow \in Row
  /\ NoEntry \in Entry /\ NoLookup \in Lookup /\ Idle \in Request
  /\ \A shape \in Shape : [shape EXCEPT !.secrets = Nothing.secrets] \in Shape
BY FallbackAssumption DEF Nothing, Shape, Resolution, NoRow, Row, NoEntry, Entry, NoLookup,
   Lookup, Idle, Request

LEMMA IdleFits == Fits(Idle)
BY NoIdAssumption DEF Fits, StepFits, Idle

\* A shape is its settings and its secrets.
LEMMA ShapesAreEqual ==
  ASSUME NEW a \in Shape, NEW b \in Shape, a.settings = b.settings, a.secrets = b.secrets
  PROVE  a = b
BY DEF Shape

LEMMA NoSecretsIsNothing ==
  ASSUME NEW a \in Shape, ~HasSecrets(a)
  PROVE  a.secrets = Nothing.secrets
<1>1. a.secrets \in [SecretFields -> Values \union {Absent}]
  BY DEF Shape
<1>2. \A f \in SecretFields : a.secrets[f] = Absent
  BY DEF HasSecrets
<1>3. Nothing.secrets = [f \in SecretFields |-> Absent]
  BY DEF Nothing
<1> QED
  BY <1>1, <1>2, <1>3

LEMMA MergedIsTyped ==
  ASSUME NEW S, NEW a \in [S -> Values \union {Absent}], NEW b \in [S -> Values \union {Absent}]
  PROVE  Merged(a, b) \in [S -> Values \union {Absent}]
BY DEF Merged

----------------------------------------------------------------------------
\* Nothing is written: what is known of the rows stays known.
LEMMA KnowledgeLasts ==
  ASSUME NEW q, Fits(q), UNCHANGED rows
  PROVE  Fits(q)'
BY DEF Fits, StepFits, Knows

\* One request moves on and nothing is written.
LEMMA OneRequestFits ==
  ASSUME TypeOK, RequestsFit, NEW h \in Requests, NEW p \in Request, Fits(p),
         requests' = [requests EXCEPT ![h] = p], UNCHANGED rows
  PROVE  RequestsFit' /\ requests' \in [Requests -> Request]
<1>1. requests' \in [Requests -> Request]
  BY DEF TypeOK
<1>2. ASSUME NEW g \in Requests, NEW q \in Request, q = requests'[g]
      PROVE  Fits(q)'
  <2>1. q = p \/ q = requests[g]
    BY <1>2 DEF TypeOK
  <2>2. Fits(q)
    BY <2>1 DEF RequestsFit
  <2> QED
    BY <2>2, KnowledgeLasts
<1> QED
  BY <1>1, <1>2 DEF RequestsFit

LEMMA LookupsLast ==
  ASSUME LookupsFit, UNCHANGED <<rows, newer, lookups>>
  PROVE  LookupsFit'
BY DEF LookupsFit, LookupFits, IsCurrent, IsNewest, Enabled, Saved

LEMMA RowsLast ==
  ASSUME RowsFit, UNCHANGED rows
  PROVE  RowsFit'
BY DEF RowsFit, RowFits

\* A request that is not dirty, or stays it, moves on over the same entry.
LEMMA EntryLasts ==
  ASSUME TypeOK, OnlyOvertakenLookupsAreStale, NEW h \in Requests, NEW p \in Request,
         requests[h].dirty => p.dirty, requests' = [requests EXCEPT ![h] = p],
         UNCHANGED <<rows, newer, entry>>
  PROVE  OnlyOvertakenLookupsAreStale'
<1>1. ASSUME \A g \in Requests : ~requests'[g].dirty
      PROVE  \A g \in Requests : ~requests[g].dirty
  BY <1>1 DEF TypeOK
<1> QED
  BY <1>1 DEF OnlyOvertakenLookupsAreStale, IsCurrent, IsNewest, Enabled, Saved

\* The three together.
LEMMA MovingOn ==
  ASSUME ConnectionsInvariant, NEW h \in Requests, NEW p \in Request, Fits(p),
         requests[h].dirty => p.dirty, requests' = [requests EXCEPT ![h] = p],
         UNCHANGED <<rows, newer, entry, lookups>>, made' \in Nat
  PROVE  ConnectionsInvariant'
<1>1. RequestsFit' /\ requests' \in [Requests -> Request]
  BY OneRequestFits DEF ConnectionsInvariant
<1>2. LookupsFit' /\ RowsFit'
  BY LookupsLast, RowsLast DEF ConnectionsInvariant
<1>3. OnlyOvertakenLookupsAreStale'
  BY EntryLasts DEF ConnectionsInvariant
<1>4. TypeOK'
  BY <1>1 DEF ConnectionsInvariant, TypeOK
<1> QED
  BY <1>1, <1>2, <1>3, <1>4 DEF ConnectionsInvariant

----------------------------------------------------------------------------
\* What a recorded probe leaves of the row.
KeepsShape(row, before) ==
  /\ row.state = before.state /\ row.shape = before.shape /\ row.pending = before.pending
  /\ row.pending => row.raced

LEMMA ProbesDisturbNobody ==
  ASSUME NEW q, NEW row, NEW before, Knows(q, before), KeepsShape(row, before)
  PROVE  Knows(q, row)
BY DEF Knows, KeepsShape

LEMMA DirtyIsOnlyAFlag ==
  ASSUME NEW q \in Request, NEW b \in BOOLEAN, StepFits(q),
         q.op = "import" \/ q.step = "idle" => ~b
  PROVE  /\ [q EXCEPT !.dirty = b] \in Request
         /\ StepFits([q EXCEPT !.dirty = b])
         /\ [q EXCEPT !.dirty = b].id = q.id
         /\ [q EXCEPT !.dirty = b].clean = q.clean
         /\ [q EXCEPT !.dirty = b].dirty = b
         /\ \A row : Knows(q, row) => Knows([q EXCEPT !.dirty = b], row)
<1> DEFINE p == [q EXCEPT !.dirty = b]
<1>1. p \in Request
  BY DEF Request
<1>2. /\ p.op = q.op /\ p.step = q.step /\ p.id = q.id /\ p.sent = q.sent
      /\ p.seen = q.seen /\ p.clean = q.clean /\ p.dirty = b
  BY DEF Request
<1> HIDE DEF p
<1>3. StepFits(p)
  BY <1>2 DEF StepFits
<1>4. \A row : Knows(q, row) => Knows(p, row)
  BY <1>2 DEF Knows
<1> QED
  BY <1>1, <1>2, <1>3, <1>4 DEF p

LEMMA DisturbedFits ==
  ASSUME NEW q \in Request, StepFits(q)
  PROVE  LET p == [q EXCEPT !.clean = FALSE] IN
         p \in Request /\ StepFits(p) /\ ~p.clean
<1> DEFINE p == [q EXCEPT !.clean = FALSE]
<1>1. p \in Request
  BY DEF Request
<1>2. /\ p.op = q.op /\ p.step = q.step /\ p.id = q.id /\ p.clean = FALSE
      /\ p.dirty = q.dirty
  BY DEF Request
<1> HIDE DEF p
<1>3. StepFits(p)
  BY <1>2 DEF StepFits
<1> QED
  BY <1>1, <1>2, <1>3 DEF p

LEMMA WritesFit ==
  ASSUME ConnectionsInvariant, NEW h \in Requests, NEW i \in Ids, NEW row \in Row,
         NEW q \in Request, Writes(h, i, row, q), RowFits(row), StepFits(q),
         q.op = "import" \/ q.step = "idle" => requests[h].op = "import",
         q.id \in Ids => q.id = i, q.clean /\ row.state = "saved" => Knows(q, row),
         requests[h].step = "record" => KeepsShape(row, rows[i])
  PROVE  ConnectionsInvariant'
<1> DEFINE b == (requests[h].op # "import")
           p == [q EXCEPT !.dirty = b]
<1>1. /\ p \in Request /\ StepFits(p) /\ p.id = q.id /\ p.clean = q.clean /\ p.dirty = b
      /\ \A r : Knows(q, r) => Knows(p, r)
  BY DirtyIsOnlyAFlag
<1>2. requests'[h] = p
  BY DEF Writes
<1>3. ASSUME NEW g \in Requests, g # h
      PROVE  /\ requests[g] \in Request /\ StepFits(requests[g])
             /\ \/ requests'[g] = [requests[g] EXCEPT !.clean = FALSE]
                \/ /\ requests'[g] = requests[g]
                   /\ requests[g].id # i \/ requests[h].step = "record"
  <2>1. requests[g] \in Request
    BY DEF ConnectionsInvariant, TypeOK
  <2>2. Fits(requests[g])
    BY <2>1 DEF ConnectionsInvariant, RequestsFit
  <2>3. requests'[g] = IF requests[g].id = i /\ requests[h].step # "record"
                         THEN [requests[g] EXCEPT !.clean = FALSE] ELSE requests[g]
    BY <1>3 DEF Writes
  <2> QED
    BY <2>1, <2>2, <2>3 DEF Fits
<1>4. rows' \in [Ids -> Row] /\ rows'[i] = row /\ \A j \in Ids \ {i} : rows'[j] = rows[j]
  BY DEF Writes, ConnectionsInvariant, TypeOK
<1>5. TypeOK'
  <2>1. requests' \in [Requests -> Request]
    <3>1. \A g \in Requests : requests'[g] \in Request
      BY <1>1, <1>2, <1>3, DisturbedFits
    <3>2. requests' = [g \in Requests |-> requests'[g]]
      BY DEF Writes
    <3> QED
      BY <3>1, <3>2
  <2>2. lookups' \in [Lookups -> Lookup]
    BY DEF Writes, ConnectionsInvariant, TypeOK, Lookup
  <2>3. entry' \in Entry
    BY DEF Writes, ConnectionsInvariant, TypeOK, Entry
  <2>4. newer' \subseteq Ids \X Ids
    BY DEF Writes, Touched, ConnectionsInvariant, TypeOK
  <2>5. made' \in Nat
    BY DEF Writes, ConnectionsInvariant, TypeOK
  <2> QED
    BY <1>4, <2>1, <2>2, <2>3, <2>4, <2>5 DEF TypeOK
<1>6. LookupsFit'
  <2>1. ASSUME NEW l \in Lookups, NEW k \in Lookup, k = lookups'[l]
        PROVE  LookupFits(k)'
    <3>1. PICK m \in Lookup : m = lookups[l]
      BY DEF ConnectionsInvariant, TypeOK
    <3>2. LookupFits(m)
      BY <3>1 DEF ConnectionsInvariant, LookupsFit
    <3>3. k = [m EXCEPT !.clean = FALSE]
      BY <2>1, <3>1 DEF Writes
    <3>4. k.step = m.step /\ k.clean = FALSE /\ k.resolved = m.resolved
      BY <3>3 DEF Lookup
    <3> QED
      BY <3>2, <3>4 DEF LookupFits
  <2> QED
    BY <2>1 DEF LookupsFit
<1>7. OnlyOvertakenLookupsAreStale'
  <2>1. CASE requests[h].op = "import"
    <3>1. ~entry'.clean
      BY <2>1 DEF Writes, ConnectionsInvariant, TypeOK, Entry
    <3> QED
      BY <3>1 DEF OnlyOvertakenLookupsAreStale
  <2>2. CASE requests[h].op # "import"
    <3>1. requests'[h].dirty
      BY <1>1, <1>2, <2>2
    <3> QED
      BY <3>1 DEF OnlyOvertakenLookupsAreStale
  <2> QED
    BY <2>1, <2>2
<1>8. RowsFit'
  BY <1>4 DEF RowsFit, RowFits, ConnectionsInvariant
<1>9. RequestsFit'
  <2>1. ASSUME NEW g \in Requests, NEW r \in Request, r = requests'[g],
               NEW s \in Row, r.id \in Ids, r.clean, s = rows'[r.id], s.state = "saved"
        PROVE  Knows(r, s)
    <3>1. CASE g = h
      <4>1. r = p
        BY <1>2, <2>1, <3>1
      <4>2. s = row
        BY <1>1, <1>4, <2>1, <4>1
      <4> QED
        BY <1>1, <2>1, <4>1, <4>2
    <3>2. CASE g # h
      <4>1. r = requests[g] /\ (r.id # i \/ requests[h].step = "record")
        BY <1>3, <2>1, <3>2, DisturbedFits
      <4>2. Fits(r)
        BY <4>1, <2>1 DEF ConnectionsInvariant, RequestsFit
      <4>3. CASE r.id # i
        BY <1>4, <2>1, <4>2, <4>3 DEF Fits
      <4>4. CASE r.id = i
        <5>1. PICK before \in Row : before = rows[i]
          BY DEF ConnectionsInvariant, TypeOK
        <5>2. KeepsShape(s, before)
          BY <1>4, <2>1, <4>1, <4>4, <5>1
        <5>3. before.state = "saved"
          BY <2>1, <5>2 DEF KeepsShape
        <5>4. Knows(r, before)
          BY <2>1, <4>2, <4>4, <5>1, <5>3 DEF Fits
        <5> QED
          BY <5>2, <5>4, ProbesDisturbNobody
      <4> QED
        BY <4>3, <4>4
    <3> QED
      BY <3>1, <3>2
  <2>2. ASSUME NEW g \in Requests, NEW r \in Request, r = requests'[g]
        PROVE  StepFits(r)
    BY <1>1, <1>2, <1>3, <2>2, DisturbedFits
  <2>3. ASSUME NEW g \in Requests, NEW r \in Request, r = requests'[g]
        PROVE  Fits(r)'
    BY <2>1, <2>2, <2>3 DEF Fits, StepFits, Knows
  <2> QED
    BY <2>3 DEF RequestsFit
<1> QED
  BY <1>5, <1>6, <1>7, <1>8, <1>9 DEF ConnectionsInvariant

----------------------------------------------------------------------------
\* The request that takes a step, by a name of its own.
LEMMA TheRequest ==
  ASSUME ConnectionsInvariant, NEW h \in Requests
  PROVE  /\ requests[h] \in Request /\ Fits(requests[h]) /\ StepFits(requests[h])
         /\ requests[h].id \in Ids /\ requests[h].clean
              /\ rows[requests[h].id].state = "saved"
            => Knows(requests[h], rows[requests[h].id])
<1>1. requests[h] \in Request
  BY DEF ConnectionsInvariant, TypeOK
<1>2. Fits(requests[h])
  BY <1>1 DEF ConnectionsInvariant, RequestsFit
<1>3. requests[h].id \in Ids => rows[requests[h].id] \in Row
  BY DEF ConnectionsInvariant, TypeOK
<1> QED
  BY <1>1, <1>2, <1>3 DEF Fits

\* A row on its own.
LEMMA TheRow ==
  ASSUME ConnectionsInvariant, NEW i \in Ids
  PROVE  rows[i] \in Row /\ RowFits(rows[i])
BY DEF ConnectionsInvariant, TypeOK, RowsFit

\* A request begins, knowing the row it read.
LEMMA BeganFits ==
  ASSUME ConnectionsInvariant, NEW h \in Requests, NEW q \in Request, Began(h, q),
         StepFits(q), ~q.dirty, q.id \in Ids => Knows(q, rows[q.id])
  PROVE  ConnectionsInvariant'
<1>1. requests[h].step = "idle" /\ made' \in Nat
  BY DEF Began, ConnectionsInvariant, TypeOK
<1>2. Fits(q)
  BY DEF Fits
<1>3. ~requests[h].dirty
  BY <1>1, TheRequest DEF StepFits
<1>4. /\ requests' = [requests EXCEPT ![h] = q]
      /\ UNCHANGED <<rows, newer, lookups>> /\ entry' = entry
  BY DEF Began
<1> QED
  BY <1>1, <1>2, <1>3, <1>4, MovingOn

----------------------------------------------------------------------------
(* The resolver. *)

LEMMA OneLookupFits ==
  ASSUME TypeOK, LookupsFit, NEW l \in Lookups, NEW m \in Lookup, LookupFits(m),
         lookups' = [lookups EXCEPT ![l] = m], UNCHANGED <<rows, newer>>
  PROVE  LookupsFit' /\ lookups' \in [Lookups -> Lookup]
<1>1. lookups' \in [Lookups -> Lookup]
  BY DEF TypeOK
<1>2. ASSUME NEW n \in Lookups, NEW k \in Lookup, k = lookups'[n]
      PROVE  LookupFits(k)'
  <2>1. k = m \/ k = lookups[n]
    BY <1>2 DEF TypeOK
  <2>2. LookupFits(k)
    BY <2>1 DEF LookupsFit
  <2> QED
    BY <2>2 DEF LookupFits, IsCurrent, IsNewest, Enabled, Saved
<1> QED
  BY <1>1, <1>2 DEF LookupsFit

LEMMA RequestsLast ==
  ASSUME RequestsFit, UNCHANGED <<rows, requests>>
  PROVE  RequestsFit'
<1>1. ASSUME NEW h \in Requests, NEW q \in Request, q = requests'[h]
      PROVE  Fits(q)'
  <2>1. Fits(q)
    BY <1>1 DEF RequestsFit
  <2> QED
    BY <2>1, KnowledgeLasts
<1> QED
  BY <1>1 DEF RequestsFit

LEMMA LookupMovesOn ==
  ASSUME ConnectionsInvariant, NEW l \in Lookups, NEW m \in Lookup, LookupFits(m),
         lookups' = [lookups EXCEPT ![l] = m], UNCHANGED <<rows, newer, entry, requests, made>>
  PROVE  ConnectionsInvariant'
<1>1. LookupsFit' /\ lookups' \in [Lookups -> Lookup]
  BY OneLookupFits DEF ConnectionsInvariant
<1>2. OnlyOvertakenLookupsAreStale'
  BY DEF ConnectionsInvariant, OnlyOvertakenLookupsAreStale, IsCurrent, IsNewest, Enabled, Saved
<1>3. RequestsFit' /\ RowsFit'
  BY RequestsLast, RowsLast DEF ConnectionsInvariant
<1>4. TypeOK'
  BY <1>1 DEF ConnectionsInvariant, TypeOK
<1> QED
  BY <1>1, <1>2, <1>3, <1>4 DEF ConnectionsInvariant

\* The lookup that takes a step, by a name of its own.
LEMMA TheLookup ==
  ASSUME ConnectionsInvariant, NEW l \in Lookups
  PROVE  lookups[l] \in Lookup /\ LookupFits(lookups[l])
BY DEF ConnectionsInvariant, TypeOK, LookupsFit

LEMMA MissKeepsInvariant ==
  ASSUME ConnectionsInvariant, NEW l \in Lookups, Miss(l)
  PROVE  ConnectionsInvariant'
<1> DEFINE m == [NoLookup EXCEPT !.step = "find"]
<1>1. m \in Lookup /\ m.step = "find"
  BY ShapesAreTyped DEF NoLookup, Lookup
<1>2. lookups' = [lookups EXCEPT ![l] = m] /\ UNCHANGED <<rows, newer, entry, requests, made>>
  BY DEF Miss, Lookup_
<1> HIDE DEF m
<1>3. LookupFits(m)
  BY <1>1 DEF LookupFits
<1> QED
  BY <1>1, <1>2, <1>3, LookupMovesOn

LEMMA FindActiveKeepsInvariant ==
  ASSUME ConnectionsInvariant, NEW l \in Lookups, FindActive(l)
  PROVE  ConnectionsInvariant'
<1>1. UNCHANGED <<rows, newer, entry, requests, made>>
  BY DEF FindActive
<1>2. ASSUME NEW i \in Ids, IsNewest(i),
             Lookup_(l, [step |-> "secrets", clean |-> TRUE,
                         resolved |-> [source |-> i, shape |->
                           [rows[i].shape EXCEPT !.secrets = Nothing.secrets]]])
      PROVE  ConnectionsInvariant'
  <2> DEFINE shape == [rows[i].shape EXCEPT !.secrets = Nothing.secrets]
             m == [step |-> "secrets", clean |-> TRUE,
                   resolved |-> [source |-> i, shape |-> shape]]
  <2>1. rows[i].shape \in Shape
    BY TheRow DEF Row
  <2>2. shape \in Shape
    BY <2>1, ShapesAreTyped
  <2>3. shape.settings = rows[i].shape.settings
    BY <2>1 DEF Shape
  <2> HIDE DEF shape
  <2>4. m \in Lookup
    BY <2>2 DEF Lookup, Resolution
  <2>5. LookupFits(m)
    BY <1>2, <2>3 DEF LookupFits
  <2>6. lookups' = [lookups EXCEPT ![l] = m]
    BY <1>2 DEF Lookup_, shape
  <2> QED
    BY <1>1, <2>4, <2>5, <2>6, LookupMovesOn
<1>3. ASSUME Enabled = {},
             Lookup_(l, [step |-> "store", clean |-> TRUE, resolved |-> Fallback])
      PROVE  ConnectionsInvariant'
  <2> DEFINE m == [step |-> "store", clean |-> TRUE, resolved |-> Fallback]
  <2>1. m \in Lookup
    BY ShapesAreTyped DEF Lookup
  <2>2. Fallback.source \notin Ids
    BY FallbackAssumption, SourceAssumption
  <2>3. LookupFits(m)
    BY <1>3, <2>2 DEF LookupFits, IsCurrent
  <2> QED
    BY <1>1, <1>3, <2>1, <2>3, LookupMovesOn DEF Lookup_
<1> QED
  BY <1>2, <1>3 DEF FindActive

LEMMA ReadSecretsKeepsInvariant ==
  ASSUME ConnectionsInvariant, NEW l \in Lookups, ReadSecrets(l)
  PROVE  ConnectionsInvariant'
<1> DEFINE k == lookups[l]
           i == k.resolved.source
           secrets == rows[i].shape.secrets
           m == [k EXCEPT !.step = "store", !.resolved.shape.secrets = secrets]
<1>1. k \in Lookup /\ LookupFits(k) /\ k.step = "secrets"
  BY TheLookup DEF ReadSecrets
<1>2. i \in Ids
  BY <1>1 DEF LookupFits
<1>3. rows[i].shape \in Shape
  BY <1>2, TheRow DEF Row
<1>4. secrets \in [SecretFields -> Values \union {Absent}]
  BY <1>3 DEF Shape
<1>5. lookups' = [lookups EXCEPT ![l] = m] /\ UNCHANGED <<rows, newer, entry, requests, made>>
  BY DEF ReadSecrets, Lookup_
<1> HIDE DEF secrets, k
<1>6. m \in Lookup
  BY <1>1, <1>4 DEF Lookup, Resolution, Shape
<1>7. /\ m.step = "store" /\ m.clean = k.clean /\ m.resolved.source = i
      /\ m.resolved.shape.settings = k.resolved.shape.settings
      /\ m.resolved.shape.secrets = secrets
  BY <1>1 DEF Lookup, Resolution, Shape
<1>8. m.resolved.shape \in Shape
  BY <1>6 DEF Lookup, Resolution
<1> HIDE DEF m
<1>9. LookupFits(m)
  <2>1. SUFFICES ASSUME k.clean PROVE IsCurrent(m.resolved)
    BY <1>7 DEF LookupFits
  <2>2. IsNewest(i) /\ k.resolved.shape.settings = rows[i].shape.settings
    BY <1>1, <2>1 DEF LookupFits
  <2>3. m.resolved.shape = rows[i].shape
    BY <1>3, <1>7, <1>8, <2>2, ShapesAreEqual DEF secrets
  <2> QED
    BY <1>2, <1>7, <2>2, <2>3 DEF IsCurrent
<1> QED
  BY <1>5, <1>6, <1>9, LookupMovesOn

LEMMA FallBackKeepsInvariant ==
  ASSUME ConnectionsInvariant, NEW l \in Lookups, FallBack(l)
  PROVE  ConnectionsInvariant'
<1> DEFINE m == [step |-> "store", resolved |-> Fallback, clean |-> FALSE]
<1>1. m \in Lookup
  BY ShapesAreTyped DEF Lookup
<1>2. LookupFits(m)
  BY DEF LookupFits
<1> QED
  BY <1>1, <1>2, LookupMovesOn DEF FallBack, Lookup_

LEMMA StoreKeepsInvariant ==
  ASSUME ConnectionsInvariant, NEW l \in Lookups, Store(l)
  PROVE  ConnectionsInvariant'
<1>1. lookups[l] \in Lookup /\ LookupFits(lookups[l]) /\ lookups[l].step = "store"
  BY TheLookup DEF Store
<1>2. NoLookup \in Lookup /\ LookupFits(NoLookup)
  BY ShapesAreTyped DEF NoLookup, LookupFits
<1>3. lookups' = [lookups EXCEPT ![l] = NoLookup] /\ UNCHANGED <<rows, newer, requests, made>>
  BY DEF Store, Lookup_
<1>4. LookupsFit' /\ lookups' \in [Lookups -> Lookup]
  BY <1>2, <1>3, OneLookupFits DEF ConnectionsInvariant
<1>5. entry' \in Entry /\ entry'.resolved = lookups[l].resolved /\ entry'.clean = lookups[l].clean
  BY <1>1 DEF Store, Entry, Lookup
<1>6. OnlyOvertakenLookupsAreStale'
  BY <1>1, <1>3, <1>5
     DEF OnlyOvertakenLookupsAreStale, LookupFits, IsCurrent, IsNewest, Enabled, Saved
<1>7. RequestsFit' /\ RowsFit'
  BY <1>3, RequestsLast, RowsLast DEF ConnectionsInvariant
<1>8. TypeOK'
  BY <1>3, <1>4, <1>5 DEF ConnectionsInvariant, TypeOK
<1> QED
  BY <1>4, <1>6, <1>7, <1>8 DEF ConnectionsInvariant

----------------------------------------------------------------------------
(* The requests. *)

LEMMA BeginKeepsInvariant ==
  ASSUME ConnectionsInvariant, NEW h \in Requests, Begin(h)
  PROVE  ConnectionsInvariant'
<1>1. CASE BeginTest(h)
  <2>1. PICK i \in Saved :
          Began(h, [Idle EXCEPT !.op = "test", !.step = "credentials", !.id = i, !.clean = TRUE,
                        !.seen = [rows[i].shape EXCEPT !.secrets = Nothing.secrets]])
    BY <1>1 DEF BeginTest
  <2> DEFINE seen == [rows[i].shape EXCEPT !.secrets = Nothing.secrets]
             q == [Idle EXCEPT !.op = "test", !.step = "credentials", !.id = i, !.clean = TRUE,
                               !.seen = seen]
  <2>2. i \in Ids /\ rows[i].shape \in Shape
    BY TheRow DEF Saved, Row
  <2>3. seen \in Shape /\ seen.settings = rows[i].shape.settings
    BY <2>2, ShapesAreTyped DEF Shape
  <2>4. Began(h, q)
    BY <2>1
  <2> HIDE DEF seen
  <2>5. q \in Request
    BY <2>2, <2>3, ShapesAreTyped DEF Idle, Request
  <2>6. q.op = "test" /\ q.step = "credentials" /\ q.id = i /\ ~q.dirty /\ q.seen = seen
    BY DEF Idle
  <2> HIDE DEF q
  <2>7. StepFits(q)
    BY <2>2, <2>6 DEF StepFits
  <2>8. Knows(q, rows[q.id])
    BY <2>3, <2>6 DEF Knows
  <2> QED
    BY <2>4, <2>5, <2>6, <2>7, <2>8, BeganFits
<1>2. CASE BeginUpdate(h) \/ BeginSwitch(h)
  <2>1. PICK i \in Saved, sent \in Shape, op \in {"update", "enable", "disable", "remove"} :
          Began(h, [Idle EXCEPT !.op = op, !.step = "write", !.id = i, !.clean = TRUE,
                                !.sent = sent, !.seen = rows[i].shape])
    <3>1. CASE BeginUpdate(h)
      BY <3>1 DEF BeginUpdate
    <3>2. CASE BeginSwitch(h)
      BY <3>2, ShapesAreTyped DEF BeginSwitch
    <3> QED
      BY <1>2, <3>1, <3>2
  <2> DEFINE q == [Idle EXCEPT !.op = op, !.step = "write", !.id = i, !.clean = TRUE,
                               !.sent = sent, !.seen = rows[i].shape]
  <2>2. i \in Ids /\ rows[i].shape \in Shape
    BY TheRow DEF Saved, Row
  <2>3. q \in Request
    BY <2>2, ShapesAreTyped DEF Idle, Request
  <2>4. q.op = op /\ q.step = "write" /\ q.id = i /\ ~q.dirty /\ q.seen = rows[i].shape
    BY DEF Idle
  <2>5. Began(h, q)
    BY <2>1
  <2> HIDE DEF q
  <2>6. StepFits(q)
    BY <2>2, <2>4 DEF StepFits
  <2>7. Knows(q, rows[q.id])
    BY <2>4 DEF Knows
  <2> QED
    BY <2>3, <2>4, <2>5, <2>6, <2>7, BeganFits
<1>3. CASE BeginCreate(h) \/ BeginImport(h)
  <2>1. PICK sent \in Shape, op \in {"create", "import"} :
          Began(h, [Idle EXCEPT !.op = op, !.step = "insert", !.sent = sent, !.clean = TRUE])
    <3>1. Fallback.shape \in Shape
      BY ShapesAreTyped DEF Resolution
    <3> QED
      BY <1>3, <3>1 DEF BeginCreate, BeginImport
  <2> DEFINE q == [Idle EXCEPT !.op = op, !.step = "insert", !.sent = sent, !.clean = TRUE]
  <2>2. q \in Request
    BY ShapesAreTyped DEF Idle, Request
  <2>3. q.op = op /\ q.step = "insert" /\ q.id \notin Ids /\ ~q.dirty
    BY NoIdAssumption DEF Idle
  <2>4. Began(h, q)
    BY <2>1
  <2> HIDE DEF q
  <2>5. StepFits(q)
    BY <2>3 DEF StepFits
  <2> QED
    BY <2>2, <2>3, <2>4, <2>5, BeganFits
<1> QED
  BY <1>1, <1>2, <1>3 DEF Begin

LEMMA ReadCredentialsKeepsInvariant ==
  ASSUME ConnectionsInvariant, NEW h \in Requests, ReadCredentials(h)
  PROVE  ConnectionsInvariant'
<1> DEFINE q == requests[h]
           secrets == rows[q.id].shape.secrets
           p == [q EXCEPT !.step = "record", !.seen.secrets = secrets]
<1>1. /\ q \in Request /\ Fits(q) /\ StepFits(q) /\ q.step = "credentials"
      /\ q.id \in Ids /\ q.op = "test" /\ rows[q.id].state = "saved"
      /\ q.clean => Knows(q, rows[q.id])
  BY TheRequest DEF ReadCredentials, StepFits
<1>2. rows[q.id] \in Row /\ rows[q.id].shape \in Shape
  BY <1>1, TheRow DEF Row
<1>3. secrets \in [SecretFields -> Values \union {Absent}]
  BY <1>2 DEF Shape
<1>4. /\ requests' = [requests EXCEPT ![h] = p]
      /\ UNCHANGED <<rows, newer, entry, lookups>> /\ made' = made
  BY <1>1 DEF ReadCredentials, ConnectionsInvariant, TypeOK
<1> HIDE DEF secrets, q
<1>5. p \in Request
  BY <1>1, <1>3 DEF Request, Shape
<1>6. /\ p.op = q.op /\ p.step = "record" /\ p.id = q.id /\ p.dirty = q.dirty
      /\ p.clean = q.clean /\ p.seen.settings = q.seen.settings /\ p.seen.secrets = secrets
      /\ p.seen \in Shape
  BY <1>1, <1>5 DEF Request, Shape
<1> HIDE DEF p
<1>7. StepFits(p)
  BY <1>1, <1>6 DEF StepFits
<1>8. q.clean => p.seen = rows[q.id].shape
  BY <1>1, <1>2, <1>6, ShapesAreEqual DEF Knows, secrets
<1>9. Fits(p)
  BY <1>1, <1>6, <1>7, <1>8 DEF Fits, Knows
<1>10. made' \in Nat
  BY <1>4 DEF ConnectionsInvariant, TypeOK
<1>11. requests[h].dirty => p.dirty
  BY <1>6 DEF q
<1> QED
  BY <1>4, <1>5, <1>9, <1>10, <1>11, MovingOn

LEMMA InsertKeepsInvariant ==
  ASSUME ConnectionsInvariant, NEW h \in Requests, Insert(h)
  PROVE  ConnectionsInvariant'
<1>1. PICK q \in Request : q = requests[h]
  BY TheRequest
<1>2. StepFits(q) /\ q.step = "insert" /\ q.op \in {"create", "import"}
  BY <1>1, TheRequest DEF Insert, StepFits
<1> DEFINE next(i) == IF HasSecrets(q.sent) THEN [q EXCEPT !.id = i, !.step = "seal"]
                      ELSE IF q.op = "import" THEN Idle
                      ELSE [q EXCEPT !.id = i, !.step = "reload"]
           row == Inserted(q)
<1>3. PICK i \in Ids : Writes(h, i, row, next(i))
  BY <1>1 DEF Insert
<1>4. q.sent \in Shape
  BY DEF Request
<1>5. /\ row \in Row /\ row.state = "saved" /\ row.pending = HasSecrets(q.sent)
      /\ row.probed = q.sent /\ row.shape.settings = q.sent.settings
      /\ row.shape.secrets = Nothing.secrets /\ row.shape \in Shape
      /\ q.op = "create" => row.status = "not_tested"
  <2> DEFINE shape == [q.sent EXCEPT !.secrets = Nothing.secrets]
  <2>1. /\ shape \in Shape /\ shape.settings = q.sent.settings
        /\ shape.secrets = Nothing.secrets
    BY <1>4, ShapesAreTyped DEF Shape
  <2>2. HasSecrets(q.sent) \in BOOLEAN
    BY DEF HasSecrets
  <2> HIDE DEF shape
  <2>3. row = [state |-> "saved", shape |-> shape, pending |-> HasSecrets(q.sent),
               enabled |-> TRUE,
               status |-> IF q.op = "import" THEN "connected" ELSE "not_tested",
               probed |-> q.sent, raced |-> FALSE]
    BY DEF Inserted, shape
  <2> QED
    BY <1>4, <2>1, <2>2, <2>3 DEF Row
<1> HIDE DEF row
<1>6. ~HasSecrets(q.sent) => row.shape = q.sent
  BY <1>4, <1>5, NoSecretsIsNothing, ShapesAreEqual
<1>7. RowFits(row)
  BY <1>5, <1>6 DEF RowFits
<1>8. PICK p \in Request : p = next(i)
  BY <1>1, ShapesAreTyped DEF Request
<1>9. CASE p = Idle /\ q.op = "import"
  BY <1>1, <1>2, <1>3, <1>5, <1>7, <1>8, <1>9, NoIdAssumption, WritesFit DEF Idle, StepFits
<1>10. CASE p # Idle \/ q.op # "import"
  <2>1. /\ p.op = q.op /\ p.id = i /\ p.sent = q.sent /\ p.dirty = q.dirty
        /\ p.step = IF HasSecrets(q.sent) THEN "seal" ELSE "reload"
        /\ p.step = "reload" => q.op = "create"
    BY <1>2, <1>8, <1>10 DEF Request
  <2>2. StepFits(p)
    BY <1>2, <2>1 DEF StepFits
  <2>3. Knows(p, row)
    BY <1>2, <1>5, <1>6, <2>1 DEF Knows
  <2>4. p.op = "import" \/ p.step = "idle" => requests[h].op = "import"
    BY <1>1, <2>1
  <2>5. requests[h].step # "record"
    BY <1>1, <1>2
  <2> QED
    BY <1>3, <1>5, <1>7, <1>8, <2>1, <2>2, <2>3, <2>4, <2>5, WritesFit
<1> QED
  BY <1>9, <1>10

\* The row of a request is gone: it moves on to the given step.
LEMMA WritesNothingFits ==
  ASSUME ConnectionsInvariant, NEW h \in Requests, NEW p \in Request, WritesNothing(h, p),
         Fits(p), requests[h].dirty => p.dirty
  PROVE  ConnectionsInvariant'
<1>1. made' \in Nat
  BY DEF WritesNothing, ConnectionsInvariant, TypeOK
<1> QED
  BY <1>1, MovingOn DEF WritesNothing

LEMMA SealKeepsInvariant ==
  ASSUME ConnectionsInvariant, NEW h \in Requests, Seal(h)
  PROVE  ConnectionsInvariant'
<1>1. PICK q \in Request : q = requests[h]
  BY TheRequest
<1>2. /\ StepFits(q) /\ q.step = "seal" /\ q.op \in {"create", "import"} /\ q.id \in Ids
      /\ q.clean /\ rows[q.id].state = "saved" => Knows(q, rows[q.id])
  BY <1>1, TheRequest DEF Seal, StepFits
<1>3. PICK before \in Row : before = rows[q.id]
  BY <1>2, TheRow
<1> DEFINE next == IF q.op = "import" THEN Idle ELSE [q EXCEPT !.step = "reload"]
           row == Sealed(before, q)
<1>4. PICK p \in Request : p = next
  BY ShapesAreTyped DEF Request
<1>5. IF before.state = "saved" THEN Writes(h, q.id, row, p) ELSE WritesNothing(h, p)
  BY <1>1, <1>3, <1>4 DEF Seal
<1>6. /\ row \in Row /\ row.state = before.state /\ row.status = before.status
      /\ row.probed = before.probed /\ row.raced = (before.raced \/ ~q.clean)
      /\ row.shape.settings = before.shape.settings /\ row.shape.secrets = q.sent.secrets
      /\ row.shape \in Shape /\ q.sent \in Shape
  BY DEF Sealed, Row, Request, Shape
<1> HIDE DEF row
<1>7. q.clean /\ before.state = "saved" => row.shape = q.sent
  BY <1>2, <1>3, <1>6, ShapesAreEqual DEF Knows
<1>8. before.state = "saved" => RowFits(row)
  BY <1>2, <1>3, <1>6, <1>7 DEF RowFits, Knows
<1>9. CASE q.op = "import"
  <2>1. p = Idle /\ ~requests[h].dirty
    BY <1>1, <1>2, <1>4, <1>9 DEF StepFits
  <2>2. p.op = "none" /\ p.step = "idle" /\ p.id \notin Ids /\ ~p.clean /\ StepFits(p) /\ Fits(p)
    BY <2>1, IdleFits, NoIdAssumption DEF Idle, Fits
  <2>3. CASE before.state = "saved"
    <3>1. requests[h].op = "import" /\ requests[h].step # "record"
      BY <1>1, <1>2, <1>9
    <3> QED
      BY <1>2, <1>5, <1>6, <1>8, <2>2, <2>3, <3>1, WritesFit
  <2>4. CASE before.state # "saved"
    BY <1>5, <2>1, <2>2, <2>4, WritesNothingFits
  <2> QED
    BY <2>3, <2>4
<1>10. CASE q.op = "create"
  <2>1. /\ p.op = "create" /\ p.step = "reload" /\ p.id = q.id /\ p.sent = q.sent
        /\ p.dirty = q.dirty /\ p.clean = q.clean
    BY <1>4, <1>10 DEF Request
  <2>2. StepFits(p)
    BY <1>2, <2>1 DEF StepFits
  <2>3. CASE before.state = "saved"
    <3>1. p.clean => Knows(p, row)
      BY <1>7, <2>1, <2>3 DEF Knows
    <3>2. requests[h].step # "record"
      BY <1>1, <1>2
    <3> QED
      BY <1>2, <1>5, <1>6, <1>8, <2>1, <2>2, <2>3, <3>1, <3>2, WritesFit
  <2>4. CASE before.state # "saved"
    <3>1. Fits(p)
      BY <1>3, <2>1, <2>2, <2>4 DEF Fits
    <3> QED
      BY <1>1, <1>5, <2>1, <2>4, <3>1, WritesNothingFits
  <2> QED
    BY <2>3, <2>4
<1> QED
  BY <1>2, <1>9, <1>10

LEMMA PatchedIsTyped ==
  ASSUME NEW row \in Row, NEW q \in Request, RowFits(row)
  PROVE  Patched(row, q) \in Row /\ RowFits(Patched(row, q))
<1>1. CASE ~(HasSettings(q.sent) \/ HasSecrets(q.sent))
  BY <1>1 DEF Patched
<1>2. CASE HasSettings(q.sent) \/ HasSecrets(q.sent)
  <2> DEFINE settings == IF HasSettings(q.sent) THEN Merged(q.seen.settings, q.sent.settings)
                         ELSE row.shape.settings
             secrets == IF HasSecrets(q.sent) THEN Merged(q.seen.secrets, q.sent.secrets)
                        ELSE row.shape.secrets
             pending == row.pending /\ ~HasSecrets(q.sent)
  <2>1. /\ settings \in [Fields -> Values \union {Absent}]
        /\ secrets \in [SecretFields -> Values \union {Absent}]
        /\ pending \in BOOLEAN
    <3>1. /\ q.seen.settings \in [Fields -> Values \union {Absent}]
          /\ q.sent.settings \in [Fields -> Values \union {Absent}]
          /\ row.shape.settings \in [Fields -> Values \union {Absent}]
          /\ q.seen.secrets \in [SecretFields -> Values \union {Absent}]
          /\ q.sent.secrets \in [SecretFields -> Values \union {Absent}]
          /\ row.shape.secrets \in [SecretFields -> Values \union {Absent}]
      BY DEF Request, Row, Shape
    <3> QED
      BY <3>1, MergedIsTyped
  <2> DEFINE shape == [settings |-> settings, secrets |-> secrets]
  <2>2. Patched(row, q) = [row EXCEPT !.shape = shape, !.pending = pending,
                                      !.status = "not_tested", !.raced = FALSE]
    BY <1>2 DEF Patched
  <2> HIDE DEF settings, secrets, pending
  <2>3. shape \in Shape
    BY <2>1 DEF Shape
  <2> HIDE DEF shape
  <2>4. Patched(row, q) \in Row /\ Patched(row, q).status = "not_tested"
    BY <2>1, <2>2, <2>3 DEF Row
  <2> QED
    BY <2>4 DEF RowFits
<1> QED
  BY <1>1, <1>2

LEMMA WriteKeepsInvariant ==
  ASSUME ConnectionsInvariant, NEW h \in Requests, Write(h)
  PROVE  ConnectionsInvariant'
<1>1. PICK q \in Request : q = requests[h]
  BY TheRequest
<1>2. /\ StepFits(q) /\ q.step = "write" /\ q.id \in Ids
      /\ q.op \in {"update", "enable", "disable", "remove"}
  BY <1>1, TheRequest DEF Write, StepFits
<1>3. PICK before \in Row : before = rows[q.id] /\ RowFits(before)
  BY <1>2, TheRow
<1> DEFINE next == [q EXCEPT !.step = IF q.op = "remove" THEN "invalidate" ELSE "reload"]
           row == CASE q.op = "update" -> Patched(before, q)
                    [] q.op = "remove" -> [NoRow EXCEPT !.state = "removed"]
                    [] OTHER -> Switched(before, q)
<1>4. PICK p \in Request : p = next
  BY DEF Request
<1>5. (before.state = "saved" /\ Writes(h, q.id, row, p)) \/ WritesNothing(h, p)
  BY <1>1, <1>3, <1>4 DEF Write
<1>6. row \in Row /\ RowFits(row)
  <2>1. CASE q.op = "update"
    BY <1>3, <2>1, PatchedIsTyped
  <2>2. CASE q.op = "remove"
    <3>1. row = [NoRow EXCEPT !.state = "removed"]
      BY <2>2
    <3>2. row \in Row /\ row.state = "removed"
      BY <3>1, ShapesAreTyped DEF NoRow, Row
    <3> QED
      BY <3>2 DEF RowFits
  <2>3. CASE q.op = "enable"
    <3>1. row = [before EXCEPT !.enabled = TRUE]
      BY <2>3 DEF Switched
    <3>2. /\ row \in Row /\ row.state = before.state /\ row.status = before.status
          /\ row.raced = before.raced /\ row.pending = before.pending
          /\ row.probed = before.probed /\ row.shape = before.shape
      BY <3>1 DEF Row
    <3> QED
      BY <1>3, <3>2 DEF RowFits
  <2>4. CASE q.op = "disable"
    <3>1. row = [before EXCEPT !.enabled = FALSE, !.status = "not_tested"]
      BY <2>4 DEF Switched
    <3>2. row \in Row /\ row.status = "not_tested"
      BY <3>1 DEF Row
    <3> QED
      BY <3>2 DEF RowFits
  <2> QED
    BY <1>2, <2>1, <2>2, <2>3, <2>4
<1> HIDE DEF row
<1>7. /\ p.op = q.op /\ p.id = q.id /\ p.dirty = q.dirty
      /\ p.step = IF q.op = "remove" THEN "invalidate" ELSE "reload"
  BY <1>4 DEF Request
<1>8. StepFits(p) /\ \A r \in Row : Knows(p, r)
  BY <1>2, <1>7 DEF StepFits, Knows
<1>9. CASE before.state = "saved" /\ Writes(h, q.id, row, p)
  <2>1. requests[h].step # "record"
    BY <1>1, <1>2
  <2>2. p.op # "import" /\ p.step # "idle"
    BY <1>2, <1>7
  <2> QED
    BY <1>2, <1>6, <1>7, <1>8, <1>9, <2>1, <2>2, WritesFit
<1>10. CASE WritesNothing(h, p)
  <2>1. Fits(p)
    BY <1>8 DEF Fits
  <2> QED
    BY <1>1, <1>7, <1>10, <2>1, WritesNothingFits
<1> QED
  BY <1>5, <1>9, <1>10

LEMMA ReloadKeepsInvariant ==
  ASSUME ConnectionsInvariant, NEW h \in Requests, Reload(h)
  PROVE  ConnectionsInvariant'
<1>1. PICK q \in Request : q = requests[h]
  BY TheRequest
<1>2. /\ Fits(q) /\ StepFits(q) /\ q.step = "reload" /\ q.id \in Ids
      /\ q.op \in {"create", "update", "enable", "disable"}
  BY <1>1, TheRequest DEF Reload, StepFits
<1>3. PICK p \in Request : p = [q EXCEPT !.step = IF q.op = "create" THEN "record" ELSE "invalidate"]
  BY DEF Request
<1>4. /\ p.op = q.op /\ p.id = q.id /\ p.dirty = q.dirty /\ p.sent = q.sent /\ p.clean = q.clean
      /\ p.step = IF q.op = "create" THEN "record" ELSE "invalidate"
  BY <1>3 DEF Request
<1>5. StepFits(p)
  BY <1>2, <1>4 DEF StepFits
<1>6. Fits(p)
  BY <1>2, <1>4, <1>5 DEF Fits, Knows
<1>7. /\ requests' = [requests EXCEPT ![h] = p] /\ UNCHANGED <<rows, newer, entry, lookups>>
      /\ made' \in Nat
  BY <1>1, <1>3 DEF Reload, ConnectionsInvariant, TypeOK
<1> QED
  BY <1>1, <1>4, <1>6, <1>7, MovingOn

LEMMA RecordKeepsInvariant ==
  ASSUME ConnectionsInvariant, NEW h \in Requests, Record(h)
  PROVE  ConnectionsInvariant'
<1>1. PICK q \in Request : q = requests[h]
  BY TheRequest
<1>2. /\ StepFits(q) /\ q.step = "record" /\ q.id \in Ids /\ q.op \in {"test", "create"}
      /\ q.clean /\ rows[q.id].state = "saved" => Knows(q, rows[q.id])
  BY <1>1, TheRequest DEF Record, StepFits
<1>3. PICK before \in Row : before = rows[q.id]
  BY <1>2, TheRow
<1>4. PICK p \in Request : p = [q EXCEPT !.step = "invalidate"]
  BY DEF Request
<1>5. p.op = q.op /\ p.id = q.id /\ p.dirty = q.dirty /\ p.step = "invalidate"
  BY <1>4 DEF Request
<1>6. StepFits(p) /\ \A r \in Row : Knows(p, r)
  BY <1>2, <1>5 DEF StepFits, Knows
<1>7. CASE before.state = "saved"
  <2>1. PICK status \in {"connected", "offline"} :
          Writes(h, q.id, Probed(before, q, status), p)
    BY <1>1, <1>3, <1>4, <1>7 DEF Record
  <2> DEFINE row == Probed(before, q, status)
             probed == IF q.op = "create" THEN q.sent ELSE q.seen
             raced == (~q.clean \/ before.pending)
  <2>2. probed \in Shape /\ raced \in BOOLEAN
    BY DEF Request, Row
  <2>3. row = [before EXCEPT !.status = status, !.raced = raced, !.probed = probed]
    BY DEF Probed
  <2> HIDE DEF probed, raced, row
  <2>4. /\ row \in Row /\ row.state = before.state /\ row.shape = before.shape
        /\ row.pending = before.pending /\ row.raced = raced /\ row.probed = probed
    BY <2>2, <2>3 DEF Row
  <2>5. q.clean => probed = before.shape
    BY <1>2, <1>3, <1>7 DEF Knows, probed
  <2>6. RowFits(row)
    BY <2>4, <2>5 DEF RowFits, raced
  <2>7. KeepsShape(row, rows[q.id])
    BY <1>3, <2>4 DEF KeepsShape, raced
  <2>8. p.op # "import" /\ p.step # "idle"
    BY <1>2, <1>5
  <2> QED
    BY <1>2, <1>5, <1>6, <2>1, <2>4, <2>6, <2>7, <2>8, WritesFit DEF row
<1>8. CASE before.state # "saved"
  <2>1. WritesNothing(h, p)
    BY <1>1, <1>3, <1>4, <1>8 DEF Record
  <2>2. Fits(p)
    BY <1>6 DEF Fits
  <2> QED
    BY <1>1, <1>5, <2>1, <2>2, WritesNothingFits
<1> QED
  BY <1>7, <1>8

LEMMA InvalidateKeepsInvariant ==
  ASSUME ConnectionsInvariant, NEW h \in Requests, Invalidate(h)
  PROVE  ConnectionsInvariant'
<1>1. /\ requests' = [requests EXCEPT ![h] = Idle] /\ entry' = NoEntry
      /\ UNCHANGED <<rows, newer, lookups, made>>
  BY DEF Invalidate, Invalidated
<1>2. RequestsFit' /\ requests' \in [Requests -> Request]
  BY <1>1, IdleFits, ShapesAreTyped, OneRequestFits DEF ConnectionsInvariant
<1>3. LookupsFit' /\ RowsFit'
  BY <1>1, LookupsLast, RowsLast DEF ConnectionsInvariant
<1>4. OnlyOvertakenLookupsAreStale'
  BY <1>1 DEF OnlyOvertakenLookupsAreStale, NoEntry
<1>5. TypeOK'
  BY <1>1, <1>2, ShapesAreTyped DEF ConnectionsInvariant, TypeOK
<1> QED
  BY <1>2, <1>3, <1>4, <1>5 DEF ConnectionsInvariant

LEMMA FailKeepsInvariant ==
  ASSUME ConnectionsInvariant, NEW h \in Requests, Fail(h)
  PROVE  ConnectionsInvariant'
<1>1. /\ requests' = [requests EXCEPT ![h] = Idle]
      /\ entry' = IF requests[h].dirty THEN [entry EXCEPT !.clean = FALSE] ELSE entry
      /\ UNCHANGED <<rows, newer, lookups, made>>
  BY DEF Fail
<1>2. RequestsFit' /\ requests' \in [Requests -> Request]
  BY <1>1, IdleFits, ShapesAreTyped, OneRequestFits DEF ConnectionsInvariant
<1>3. LookupsFit' /\ RowsFit'
  BY <1>1, LookupsLast, RowsLast DEF ConnectionsInvariant
<1>4. entry' \in Entry /\ (requests[h].dirty => ~entry'.clean)
  BY <1>1 DEF ConnectionsInvariant, TypeOK, Entry
<1>5. OnlyOvertakenLookupsAreStale'
  <2>1. CASE requests[h].dirty
    BY <1>4, <2>1 DEF OnlyOvertakenLookupsAreStale
  <2>2. CASE ~requests[h].dirty
    BY <1>1, <2>2, ShapesAreTyped, EntryLasts DEF ConnectionsInvariant
  <2> QED
    BY <2>1, <2>2
<1>6. TypeOK'
  BY <1>1, <1>2, <1>4 DEF ConnectionsInvariant, TypeOK
<1> QED
  BY <1>2, <1>3, <1>5, <1>6 DEF ConnectionsInvariant

LEMMA DieKeepsInvariant ==
  ASSUME ConnectionsInvariant, Die
  PROVE  ConnectionsInvariant'
<1>1. entry' = NoEntry /\ UNCHANGED <<rows, newer, made>>
  BY DEF Die
<1>2. \A l \in Lookups : lookups'[l] = NoLookup
  BY DEF Die
<1>3. ASSUME NEW h \in Requests, NEW q \in Request, q = requests'[h]
      PROVE  Fits(q)'
  <2>1. q = Idle \/ q = requests[h]
    BY <1>3 DEF Die
  <2>2. Fits(q)
    BY <2>1, IdleFits DEF ConnectionsInvariant, RequestsFit
  <2> QED
    BY <1>1, <2>2, KnowledgeLasts
<1>4. TypeOK'
  <2>1. lookups' \in [Lookups -> Lookup] /\ requests' \in [Requests -> Request]
    BY ShapesAreTyped DEF Die, ConnectionsInvariant, TypeOK
  <2> QED
    BY <1>1, <2>1, ShapesAreTyped DEF ConnectionsInvariant, TypeOK
<1>5. LookupsFit'
  BY <1>2 DEF LookupsFit, LookupFits, NoLookup
<1>6. OnlyOvertakenLookupsAreStale'
  BY <1>1 DEF OnlyOvertakenLookupsAreStale, NoEntry
<1>7. RowsFit'
  BY <1>1, RowsLast DEF ConnectionsInvariant
<1> QED
  BY <1>3, <1>4, <1>5, <1>6, <1>7 DEF ConnectionsInvariant, RequestsFit

LEMMA ExpireKeepsInvariant ==
  ASSUME ConnectionsInvariant, Expire
  PROVE  ConnectionsInvariant'
<1>1. entry' = NoEntry /\ UNCHANGED <<rows, newer, lookups, requests, made>>
  BY DEF Expire
<1>2. LookupsFit' /\ RowsFit' /\ RequestsFit'
  BY <1>1, LookupsLast, RowsLast, RequestsLast DEF ConnectionsInvariant
<1>3. OnlyOvertakenLookupsAreStale'
  BY <1>1 DEF OnlyOvertakenLookupsAreStale, NoEntry
<1>4. TypeOK'
  BY <1>1, ShapesAreTyped DEF ConnectionsInvariant, TypeOK
<1> QED
  BY <1>2, <1>3, <1>4 DEF ConnectionsInvariant

LEMMA InitEstablishesInvariant ==
  ASSUME Init
  PROVE  ConnectionsInvariant
<1>1. PICK old \in SUBSET Ids, on \in SUBSET Ids, shape \in Shape :
        rows = [i \in Ids |->
            IF i \in old
              THEN [NoRow EXCEPT !.state = "saved", !.shape = shape, !.enabled = (i \in on),
                                 !.status = IF i \in on THEN "connected" ELSE "not_tested",
                                 !.probed = shape]
              ELSE NoRow]
  BY DEF Init
<1>2. ASSUME NEW i \in Ids PROVE rows[i] \in Row /\ RowFits(rows[i])
  <2>1. CASE i \in old
    <3> DEFINE status == IF i \in on THEN "connected" ELSE "not_tested"
               enabled == i \in on
    <3>1. rows[i] = [NoRow EXCEPT !.state = "saved", !.shape = shape, !.enabled = enabled,
                                  !.status = status, !.probed = shape]
      BY <1>1, <2>1
    <3>2. enabled \in BOOLEAN /\ status \in {"not_tested", "connected", "offline"}
      OBVIOUS
    <3> HIDE DEF status, enabled
    <3>3. rows[i] \in Row /\ rows[i].probed = shape /\ rows[i].shape = shape
      BY <3>1, <3>2, ShapesAreTyped DEF Row
    <3> QED
      BY <3>3 DEF RowFits
  <2>2. CASE i \notin old
    <3>1. rows[i] = NoRow
      BY <1>1, <2>2
    <3> QED
      BY <3>1, ShapesAreTyped DEF RowFits, NoRow
  <2> QED
    BY <2>1, <2>2
<1>3. rows \in [Ids -> Row]
  BY <1>1, <1>2
<1>4. newer \subseteq Ids \X Ids
  BY DEF Init, Orders
<1>5. TypeOK
  BY <1>3, <1>4, ShapesAreTyped DEF Init, TypeOK
<1>6. LookupsFit
  <2>1. \A l \in Lookups : lookups[l].step = "idle"
    BY DEF Init, NoLookup
  <2> QED
    BY <2>1 DEF LookupsFit, LookupFits
<1>7. OnlyOvertakenLookupsAreStale
  BY DEF Init, OnlyOvertakenLookupsAreStale, NoEntry
<1>8. RowsFit
  BY <1>2 DEF RowsFit
<1>9. RequestsFit
  BY IdleFits DEF Init, RequestsFit
<1> QED
  BY <1>5, <1>6, <1>7, <1>8, <1>9 DEF ConnectionsInvariant

----------------------------------------------------------------------------
LEMMA StutteringKeepsInvariant ==
  ASSUME ConnectionsInvariant, UNCHANGED vars
  PROVE  ConnectionsInvariant'
<1>1. UNCHANGED <<rows, newer, entry, lookups, requests, made>>
  BY DEF vars
<1>2. LookupsFit' /\ RowsFit' /\ RequestsFit'
  BY <1>1, LookupsLast, RowsLast, RequestsLast DEF ConnectionsInvariant
<1>3. OnlyOvertakenLookupsAreStale' /\ TypeOK'
  BY <1>1 DEF ConnectionsInvariant, OnlyOvertakenLookupsAreStale, IsCurrent, IsNewest, Enabled,
     Saved, TypeOK
<1> QED
  BY <1>2, <1>3 DEF ConnectionsInvariant

LEMMA StepsKeepInvariant ==
  ASSUME ConnectionsInvariant, [Next]_vars
  PROVE  ConnectionsInvariant'
<1>1. CASE Expire
  BY <1>1, ExpireKeepsInvariant
<1>2. CASE Die
  BY <1>2, DieKeepsInvariant
<1>3. ASSUME NEW l \in Lookups, Resolve(l)
      PROVE  ConnectionsInvariant'
  BY <1>3, MissKeepsInvariant, FindActiveKeepsInvariant, ReadSecretsKeepsInvariant,
     FallBackKeepsInvariant, StoreKeepsInvariant DEF Resolve
<1>4. ASSUME NEW h \in Requests, Begin(h)
      PROVE  ConnectionsInvariant'
  BY <1>4, BeginKeepsInvariant
<1>5. ASSUME NEW h \in Requests, Handle(h)
      PROVE  ConnectionsInvariant'
  BY <1>5, ReadCredentialsKeepsInvariant, InsertKeepsInvariant, SealKeepsInvariant,
     WriteKeepsInvariant, ReloadKeepsInvariant, RecordKeepsInvariant,
     InvalidateKeepsInvariant, FailKeepsInvariant DEF Handle
<1>6. CASE UNCHANGED vars
  BY <1>6, StutteringKeepsInvariant
<1> QED
  BY <1>1, <1>2, <1>3, <1>4, <1>5, <1>6 DEF Next

\* The inductive invariant: whatever was read and not overtaken is still true.
THEOREM InvariantHolds == Spec => []ConnectionsInvariant
<1>1. Init => ConnectionsInvariant
  BY InitEstablishesInvariant
<1>2. ConnectionsInvariant /\ [Next]_vars => ConnectionsInvariant'
  BY StepsKeepInvariant
<1> QED
  BY <1>1, <1>2, PTL DEF Spec

\* Rows, cache, lookups and requests keep their types.
THEOREM TypeCorrect == Spec => []TypeOK
<1>1. ConnectionsInvariant => TypeOK
  BY DEF ConnectionsInvariant
<1> QED
  BY <1>1, InvariantHolds, PTL

\* What the cache serves is what is in use, unless a write overlapped its lookup.
THEOREM OnlyOvertakenLookupsAreStaleHolds == Spec => []OnlyOvertakenLookupsAreStale
<1>1. ConnectionsInvariant => OnlyOvertakenLookupsAreStale
  BY DEF ConnectionsInvariant
<1> QED
  BY <1>1, InvariantHolds, PTL

\* A status is about the shape its row has, unless a write overlapped the probe.
THEOREM StatusIsOfThisShapeHolds == Spec => []StatusIsOfThisShape
<1>1. ConnectionsInvariant => StatusIsOfThisShape
  <2>1. ASSUME ConnectionsInvariant, NEW i \in Saved
        PROVE  RowFits(rows[i]) /\ rows[i].state = "saved"
    BY <2>1, TheRow DEF Saved
  <2> QED
    BY <2>1 DEF StatusIsOfThisShape, RowFits
<1> QED
  BY <1>1, InvariantHolds, PTL

----------------------------------------------------------------------------
\* What Patched does to a row that the request has read as it is.
LEMMA PatchedKeepsTheRest ==
  ASSUME NEW row \in Row, NEW q \in Request, q.seen = row.shape
  PROVE  /\ Patched(row, q).shape.settings = Merged(row.shape.settings, q.sent.settings)
         /\ Patched(row, q).shape.secrets = Merged(row.shape.secrets, q.sent.secrets)
<1>1. /\ row.shape \in Shape /\ q.sent \in Shape
      /\ row.shape.settings \in [Fields -> Values \union {Absent}]
      /\ row.shape.secrets \in [SecretFields -> Values \union {Absent}]
  BY DEF Row, Request, Shape
<1>2. ~HasSettings(q.sent) => Merged(row.shape.settings, q.sent.settings) = row.shape.settings
  BY <1>1 DEF HasSettings, Merged
<1>3. ~HasSecrets(q.sent) => Merged(row.shape.secrets, q.sent.secrets) = row.shape.secrets
  BY <1>1 DEF HasSecrets, Merged
<1>4. CASE HasSettings(q.sent) \/ HasSecrets(q.sent)
  BY <1>2, <1>3, <1>4 DEF Patched, Row
<1>5. CASE ~(HasSettings(q.sent) \/ HasSecrets(q.sent))
  BY <1>2, <1>3, <1>5 DEF Patched
<1> QED
  BY <1>4, <1>5

\* The step of an undisturbed update writes its merge over the row as it is.
LEMMA UpdateWritesTheMerge ==
  ASSUME ConnectionsInvariant, NEW h \in Requests, NEW i \in Saved,
         UpdatesUndisturbed(h, i), Write(h)
  PROVE  /\ rows'[i].shape.settings =
              Merged(rows[i].shape.settings, requests[h].sent.settings)
         /\ rows'[i].shape.secrets = Merged(rows[i].shape.secrets, requests[h].sent.secrets)
<1>1. PICK q \in Request : q = requests[h] /\ Fits(q)
  BY TheRequest
<1>2. PICK row \in Row : row = rows[i] /\ row.state = "saved"
  BY TheRow DEF Saved
<1>3. i \in Ids /\ q.id = i /\ q.op = "update" /\ q.step = "write" /\ q.clean
  BY <1>1 DEF UpdatesUndisturbed, Saved
<1>4. q.seen = row.shape
  BY <1>1, <1>2, <1>3 DEF Fits, Knows
<1>5. CASE rows' = [rows EXCEPT ![i] = Patched(row, q)]
  <2>1. rows'[i] = Patched(row, q)
    BY <1>3, <1>5 DEF ConnectionsInvariant, TypeOK
  <2> QED
    BY <1>1, <1>2, <1>4, <2>1, PatchedKeepsTheRest
<1>6. CASE UNCHANGED rows /\ q.sent = Nothing
  <2>1. ~HasSettings(q.sent) /\ ~HasSecrets(q.sent)
    BY <1>6 DEF HasSettings, HasSecrets, Nothing
  <2>2. Patched(row, q) = row
    BY <2>1 DEF Patched
  <2> QED
    BY <1>1, <1>2, <1>4, <1>6, <2>2, PatchedKeepsTheRest
<1> QED
  BY <1>1, <1>2, <1>3, <1>5, <1>6 DEF Write, Writes, WritesNothing

\* Nothing but its own write takes an update to the reading of its row.
LEMMA OnlyItsWriteMovesAnUpdate ==
  ASSUME TypeOK, NEW h \in Requests, NEW i \in Saved, UpdatesUndisturbed(h, i),
         requests'[h].step = "reload", [Next]_vars
  PROVE  Write(h)
<1>1. requests[h].step = "write" /\ requests[h].op = "update"
  BY DEF UpdatesUndisturbed
<1> USE <1>1 DEF TypeOK, Request, Idle
<1>2. CASE Expire \/ Die \/ UNCHANGED vars
  BY <1>2 DEF Expire, Die, vars
<1>3. ASSUME NEW l \in Lookups, Resolve(l) PROVE FALSE
  BY <1>3 DEF Resolve, Miss, FindActive, ReadSecrets, FallBack, Store
<1>4. ASSUME NEW g \in Requests, Begin(g) PROVE FALSE
  BY <1>4 DEF Begin, BeginTest, BeginUpdate, BeginSwitch, BeginCreate, BeginImport, Began
<1>5. ASSUME NEW g \in Requests, Handle(g), ~Write(h) PROVE FALSE
  <2>1. CASE g = h
    <3>1. Fail(h)
      BY <1>5, <2>1 DEF Handle, ReadCredentials, Insert, Seal, Reload, Record, Invalidate
    <3> QED
      BY <3>1 DEF Fail
  <2>2. CASE g # h
    <3>1. ASSUME NEW i_, NEW row, NEW q, Writes(g, i_, row, q) PROVE FALSE
      <4>1. requests'[h] = requests[h] \/ requests'[h] = [requests[h] EXCEPT !.clean = FALSE]
        BY <2>2, <3>1 DEF Writes
      <4> QED
        BY <4>1
    <3>2. ASSUME requests'[h] = requests[h] PROVE FALSE
      BY <3>2
    <3>3. CASE Write(g)
      BY <2>2, <3>1, <3>2, <3>3 DEF Write, WritesNothing
    <3>4. CASE Insert(g) \/ Seal(g) \/ Record(g)
      BY <2>2, <3>1, <3>2, <3>4 DEF Insert, Seal, Record, WritesNothing
    <3>5. CASE ReadCredentials(g) \/ Reload(g) \/ Invalidate(g) \/ Fail(g)
      BY <2>2, <3>2, <3>5 DEF ReadCredentials, Reload, Invalidate, Fail
    <3> QED
      BY <1>5, <3>3, <3>4, <3>5 DEF Handle
  <2> QED
    BY <2>1, <2>2
<1> QED
  BY <1>2, <1>3, <1>4, <1>5 DEF Next

\* An undisturbed update changes the fields it was sent and no other.
THEOREM UpdatesKeepTheRestHolds == Spec => UpdatesKeepTheRest
<1> DEFINE Kept(h, i) ==
      LET sent == requests[h].sent IN
      /\ \A f \in Fields : rows'[i].shape.settings[f] =
           IF sent.settings[f] = Absent THEN rows[i].shape.settings[f] ELSE sent.settings[f]
      /\ \A f \in SecretFields : rows'[i].shape.secrets[f] =
           IF sent.secrets[f] = Absent THEN rows[i].shape.secrets[f] ELSE sent.secrets[f]
      A == \A h \in Requests, i \in Saved :
             UpdatesUndisturbed(h, i) /\ requests'[h].step = "reload" => Kept(h, i)
<1>1. ASSUME ConnectionsInvariant, [Next]_vars PROVE A
  <2> SUFFICES ASSUME NEW h \in Requests, NEW i \in Saved, UpdatesUndisturbed(h, i),
                      requests'[h].step = "reload"
               PROVE  Kept(h, i)
    OBVIOUS
  <2>1. TypeOK
    BY <1>1 DEF ConnectionsInvariant
  <2>2. Write(h)
    BY <1>1, <2>1, OnlyItsWriteMovesAnUpdate
  <2>3. /\ rows'[i].shape.settings =
              Merged(rows[i].shape.settings, requests[h].sent.settings)
        /\ rows'[i].shape.secrets = Merged(rows[i].shape.secrets, requests[h].sent.secrets)
    BY <1>1, <2>2, UpdateWritesTheMerge
  <2>4. rows[i] \in Row
    BY <2>1 DEF Saved, TypeOK
  <2>5. DOMAIN rows[i].shape.settings = Fields /\ DOMAIN rows[i].shape.secrets = SecretFields
    BY <2>4 DEF Row, Shape
  <2> QED
    BY <2>3, <2>5 DEF Merged
<1>2. ConnectionsInvariant /\ [Next]_vars => [A]_vars
  BY <1>1
<1> QED
  BY <1>2, InvariantHolds, PTL DEF Spec, UpdatesKeepTheRest

\* The tables keep their types, the cache serves what they say unless a lookup was
\* overtaken, and a status is of the shape the row has unless a write overlapped its probe.
THEOREM CacheCorrect == Spec => []CacheInvariant
<1>1. TypeOK /\ OnlyOvertakenLookupsAreStale /\ StatusIsOfThisShape => CacheInvariant
  BY DEF CacheInvariant
<1> QED BY <1>1, TypeCorrect, OnlyOvertakenLookupsAreStaleHolds, StatusIsOfThisShapeHolds, PTL----------------------------------------------------------------------------
\* The page of connections (ConnectionDialog).

LEMMA ConnTyped ==
  ASSUME ConnTypeOK
  PROVE  /\ connRows \in [Conns -> Shapes \union {NoConn}] /\ connPage \in Page
         /\ connPage.dialog \in Dialog /\ connPage.typed \in Shapes /\ connPage.result \in Result \union {NoConn}
         /\ connPage.rowBusy \in Conns \union {NoConn} /\ connPage.opened \in 0..MaxDialogs
         /\ connTest \in Result \union {NoConn} /\ connSave \in Save \union {NoConn}
         /\ rowCalls \in [RowCalls -> Call \union {NoConn}] /\ (\A r \in RowCalls : rowCalls[r] \in Call \union {NoConn})
         /\ connList \in List /\ connList.shown \in Snapshot /\ connList.fetched \in Snapshot \union {NoConn}
         /\ connList.fetching \in BOOLEAN /\ connList.failed \in BOOLEAN
         /\ connWrites \in [all : 0..MaxWrites, own : 0..MaxWrites]
         /\ connWrites.all \in 0..MaxWrites /\ connWrites.own \in 0..MaxWrites
         /\ MaxWrites \in Nat /\ MaxDialogs \in Nat /\ 0 \in 0..MaxDialogs /\ 0 \in 0..MaxWrites
         /\ NoConn \notin Conns /\ NoConn \notin Shapes /\ NoConn \notin Result /\ NoConn \notin Save
         /\ NoConn \notin Call /\ NoConn \notin Snapshot
<1>1. connPage \in Page /\ connList \in List /\ connWrites \in [all : 0..MaxWrites, own : 0..MaxWrites]
  BY DEF ConnTypeOK
<1>2. /\ connPage.dialog \in Dialog /\ connPage.typed \in Shapes /\ connPage.result \in Result \union {NoConn}
      /\ connPage.rowBusy \in Conns \union {NoConn} /\ connPage.opened \in 0..MaxDialogs
  BY <1>1 DEF Page
<1>3. /\ connList.shown \in Snapshot /\ connList.fetched \in Snapshot \union {NoConn}
      /\ connList.fetching \in BOOLEAN /\ connList.failed \in BOOLEAN
  BY <1>1 DEF List
<1>4. connWrites.all \in 0..MaxWrites /\ connWrites.own \in 0..MaxWrites
  BY <1>1
<1> QED BY <1>1, <1>2, <1>3, <1>4, ConnAssumption DEF ConnTypeOK

\* Every part of the page's promise follows from what is kept behind it.
LEMMA PromiseFollows ==
  ASSUME ConnTypeOK, TestsBelong, ListFollows, BusyRowsHaveCalls PROVE ConnInvariant
<1>1. GateIsOfThisDialog
  BY DEF GateIsOfThisDialog, TestsBelong, Belongs, CanSave
<1>2. OwnWritesAreShown
  BY DEF OwnWritesAreShown, ListFollows, Calling
<1> QED BY <1>1, <1>2 DEF ConnInvariant, ConnPromise

\* What a step leaves alone.
LEMMA BelongStays ==
  ASSUME TestsBelong, connTest' = connTest, connPage'.dialog = connPage.dialog, connPage'.result = connPage.result,
         connSave' # NoConn => connSave # NoConn
  PROVE  TestsBelong'
BY DEF TestsBelong, Belongs

LEMMA BusyStays ==
  ASSUME BusyRowsHaveCalls, connPage'.rowBusy = connPage.rowBusy,
         \A r \in RowCalls : rowCalls[r] # NoConn => rowCalls'[r] # NoConn /\ rowCalls'[r].conn = rowCalls[r].conn
  PROVE  BusyRowsHaveCalls'
BY DEF BusyRowsHaveCalls

LEMMA ListStays ==
  ASSUME ListFollows, UNCHANGED <<connList, connWrites>>, Calling("done") => Calling("done")',
         Calling("refreshing") => Calling("refreshing")'
  PROVE  ListFollows'
BY DEF ListFollows

\* Calls go on when the steps of those that are under way are kept.
LEMMA CallsGoOn ==
  ASSUME NEW step, Calling(step),
         connSave # NoConn => connSave' # NoConn /\ (connSave.step = step => connSave'.step = step),
         \A r \in RowCalls : rowCalls[r] # NoConn =>
           rowCalls'[r] # NoConn /\ (rowCalls[r].step = step => rowCalls'[r].step = step)
  PROVE  Calling(step)'
BY DEF Calling

\* The end of a fetch ends the wait of those who refresh by it, and of nobody else.
LEMMA WaitEnds ==
  ASSUME ConnTypeOK
  PROVE  /\ SaveAfterWait \in Save \union {NoConn} /\ (SaveAfterWait # NoConn => SaveAfterWait = connSave)
         /\ connSave # NoConn /\ connSave.step # "refreshing" => SaveAfterWait = connSave
         /\ Waiting \subseteq RowCalls /\ \A r \in Waiting : rowCalls[r] # NoConn /\ rowCalls[r].step = "refreshing"
BY ConnTyped DEF SaveAfterWait, Waiting

LEMMA CallsAfterWait ==
  ASSUME NEW calls \in [RowCalls -> Call \union {NoConn}], rowCalls' = AfterWait(calls)
  PROVE  /\ rowCalls' \in [RowCalls -> Call \union {NoConn}]
         /\ \A r \in Waiting : rowCalls'[r] = NoConn
         /\ \A r \in RowCalls \ Waiting : rowCalls'[r] = calls[r]
BY DEF AfterWait, Waiting

LEMMA PageWaits ==
  ASSUME ConnAssumption, NEW page \in Page, connPage' = PageAfterWait(page)
  PROVE  /\ connPage' \in Page /\ connPage'.dialog = page.dialog /\ connPage'.result = page.result
         /\ IF Waiting = {} THEN connPage'.rowBusy = page.rowBusy ELSE connPage'.rowBusy = NoConn
BY DEF PageAfterWait, Page

\* The rows' buttons after a wait has ended: a row that is still busy has kept its call.
LEMMA BusyAfterWait ==
  ASSUME ConnTypeOK, BusyRowsHaveCalls, NEW calls \in [RowCalls -> Call \union {NoConn}], rowCalls' = AfterWait(calls),
         \A r \in RowCalls : rowCalls[r] # NoConn => calls[r] # NoConn /\ calls[r].conn = rowCalls[r].conn,
         IF Waiting = {} THEN connPage'.rowBusy = connPage.rowBusy ELSE connPage'.rowBusy = NoConn
  PROVE  BusyRowsHaveCalls'
BY CallsAfterWait DEF BusyRowsHaveCalls
\* The list is asked for, or read.
LEMMA ListKeeps ==
  ASSUME ConnInvariant, PollConns \/ ReadConns PROVE ConnInvariant'
<1>0. ConnTypeOK /\ TestsBelong /\ ListFollows /\ BusyRowsHaveCalls
  BY DEF ConnInvariant, ConnPromise
<1>1. UNCHANGED <<connRows, connPage, connTest, connSave, rowCalls, connWrites>>
  BY DEF PollConns, ReadConns, RestUntouched
<1>2. TestsBelong' /\ BusyRowsHaveCalls'
  BY <1>0, <1>1, BelongStays, BusyStays
<1>3. /\ connList' \in List /\ connList'.shown = connList.shown /\ connList'.failed = connList.failed
      /\ connList'.fetching
      /\ connList'.fetched # NoConn => connList'.fetched.at = connWrites.all
  <2>1. CASE PollConns
    <3>1. connList' = [connList EXCEPT !.fetching = TRUE] /\ connList.fetched = NoConn
      BY <1>0, <2>1 DEF PollConns, ListFollows
    <3> QED BY <1>0, <3>1, ConnTyped DEF List
  <2>2. CASE ReadConns
    <3>1. PICK read : read = [rows |-> connRows, at |-> connWrites.all]
      OBVIOUS
    <3>2. read \in Snapshot /\ read.at = connWrites.all
      BY <1>0, <3>1, ConnTyped DEF Snapshot
    <3>3. connList' = [connList EXCEPT !.fetched = read] /\ connList.fetching
      BY <2>2, <3>1 DEF ReadConns
    <3> QED BY <1>0, <3>2, <3>3, ConnTyped DEF List
  <2> QED BY <2>1, <2>2
<1>4. ConnTypeOK'
  BY <1>0, <1>1, <1>3 DEF ConnTypeOK
<1>5. Calling("done")' = Calling("done") /\ Calling("refreshing")' = Calling("refreshing")
  BY <1>1 DEF Calling
<1>6. ListFollows'
  <2>1. connWrites.all \in Nat /\ connWrites.own <= connWrites.all /\ connList.shown.at <= connWrites.all
    BY <1>0, ConnTyped DEF ListFollows
  <2>2. Calling("done") \/ connList.failed \/ connWrites.own <= connList.shown.at \/ Calling("refreshing")
    BY <1>0 DEF ListFollows
  <2> QED BY <1>1, <1>3, <1>5, <2>1, <2>2 DEF ListFollows
<1> QED BY <1>2, <1>4, <1>6, PromiseFollows, PTL

\* A fetch ends: the list is what was read, or an error, and nobody waits any more.
LEMMA FetchEndsKeep ==
  ASSUME ConnInvariant, ConnsArrive \/ ConnsFail PROVE ConnInvariant'
<1>0. ConnTypeOK /\ TestsBelong /\ ListFollows /\ BusyRowsHaveCalls /\ connPage \in Page /\ ConnAssumption
  BY ConnTyped, ConnAssumption DEF ConnInvariant, ConnPromise
<1>1. /\ UNCHANGED <<connRows, connTest, connWrites>>
      /\ connSave' = SaveAfterWait /\ rowCalls' = AfterWait(rowCalls) /\ connPage' = PageAfterWait(connPage)
  BY DEF ConnsArrive, ConnsFail
<1>2. /\ connPage' \in Page /\ connPage'.dialog = connPage.dialog /\ connPage'.result = connPage.result
      /\ IF Waiting = {} THEN connPage'.rowBusy = connPage.rowBusy ELSE connPage'.rowBusy = NoConn
  BY <1>0, <1>1, PageWaits
<1>3. rowCalls \in [RowCalls -> Call \union {NoConn}]
  BY <1>0, ConnTyped
<1>4. TestsBelong' /\ BusyRowsHaveCalls'
  BY <1>0, <1>1, <1>2, <1>3, BelongStays, BusyAfterWait, WaitEnds
<1>5. /\ connList' \in List /\ connList'.fetched = NoConn
      /\ \/ connList'.shown = connList.fetched /\ connList.fetched # NoConn
         \/ connList'.shown = connList.shown /\ connList'.failed
  <2>1. CASE ConnsArrive
    BY <1>0, <2>1, ConnTyped DEF ConnsArrive, List
  <2>2. CASE ConnsFail
    BY <1>0, <2>2, ConnTyped DEF ConnsFail, List
  <2> QED BY <2>1, <2>2
<1>6. connSave' \in Save \union {NoConn} /\ rowCalls' \in [RowCalls -> Call \union {NoConn}]
  BY <1>0, <1>1, <1>3, WaitEnds, CallsAfterWait
<1>7. ConnTypeOK'
  BY <1>0, <1>1, <1>2, <1>5, <1>6 DEF ConnTypeOK
<1>8. Calling("done") => Calling("done")'
  BY <1>0, <1>1, <1>3, WaitEnds, CallsAfterWait DEF Calling
<1>9. ListFollows'
  BY <1>0, <1>1, <1>5, <1>8 DEF ListFollows
<1> QED BY <1>4, <1>7, <1>9, PromiseFollows, PTL

\* A dialog is opened: a test in flight is of the dialog it covers.
LEMMA CoversTests ==
  ASSUME ConnTypeOK, Covers
  PROVE  /\ connTest' \in Result \union {NoConn} /\ (connTest' # NoConn => connTest # NoConn)
         /\ connTest' # NoConn =>
              /\ connTest'.serial = connTest.serial /\ (connTest.amid => connTest'.amid)
              /\ (connTest.covered \/ connPage.dialog.mode # "none" => connTest'.covered)
<1>1. CASE connTest # NoConn /\ connPage.dialog.mode # "none"
  <2>1. PICK covered : covered = [connTest EXCEPT !.covered = TRUE]
    OBVIOUS
  <2>2. /\ covered \in Result /\ covered.serial = connTest.serial /\ covered.amid = connTest.amid
        /\ covered.covered
    BY <1>1, <2>1, ConnTyped DEF Result
  <2>3. connTest' = covered
    BY <1>1, <2>1 DEF Covers
  <2> QED BY <1>1, <2>2, <2>3
<1>2. CASE ~(connTest # NoConn /\ connPage.dialog.mode # "none")
  BY <1>2, ConnTyped DEF Covers
<1> QED BY <1>1, <1>2

LEMMA OpeningKeeps ==
  ASSUME ConnInvariant, StartCreate \/ \E c \in Conns : StartEdit(c) \/ StartDelete(c) PROVE ConnInvariant'
<1>0. ConnTypeOK /\ TestsBelong /\ ListFollows /\ BusyRowsHaveCalls /\ connPage \in Page
  BY ConnTyped DEF ConnInvariant, ConnPromise
<1>1. UNCHANGED <<connRows, connSave, rowCalls, connList, connWrites>> /\ Covers /\ connPage.opened < MaxDialogs
  BY Zenon DEF StartCreate, StartEdit, StartDelete, MayOpen
<1>2. connPage.opened + 1 \in 0..MaxDialogs
  BY <1>0, <1>1, ConnTyped
<1>3. /\ connPage' \in Page /\ connPage'.rowBusy = connPage.rowBusy
      /\ \/ connPage'.result = NoConn
         \/ connPage'.dialog.mode = "delete" /\ connPage'.result = connPage.result
  <2>1. CASE StartCreate
    <3>1. PICK dialog : dialog = Opened("create", NoConn)
      OBVIOUS
    <3>2. dialog \in Dialog
      BY <1>2, <3>1 DEF Opened, Dialog
    <3>3. connPage' = [connPage EXCEPT !.dialog = dialog, !.opened = connPage.opened + 1,
                                       !.typed = "fails", !.result = NoConn]
      BY <2>1, <3>1 DEF StartCreate, BlankForm
    <3> QED BY <1>0, <1>2, <3>2, <3>3 DEF Page, Shapes
  <2>2. ASSUME NEW c \in Conns, StartEdit(c) PROVE <1>3!:
    <3>1. PICK dialog : dialog = Opened("edit", c)
      OBVIOUS
    <3>2. dialog \in Dialog
      BY <1>2, <3>1 DEF Opened, Dialog
    <3>3. PICK shape : shape = connList.shown.rows[c]
      OBVIOUS
    <3>4. shape \in Shapes
      <4>1. Offered(c)
        BY <2>2, Zenon DEF StartEdit
      <4> QED BY <1>0, <3>3, <4>1, ConnTyped DEF Offered, Snapshot
    <3>5. connPage' = [connPage EXCEPT !.dialog = dialog, !.opened = connPage.opened + 1,
                                       !.result = NoConn, !.typed = shape]
      BY <2>2, <3>1, <3>3, Zenon DEF StartEdit
    <3> QED BY <1>0, <1>2, <3>2, <3>4, <3>5 DEF Page
  <2>3. ASSUME NEW c \in Conns, StartDelete(c) PROVE <1>3!:
    <3>1. PICK dialog : dialog = Opened("delete", c)
      OBVIOUS
    <3>2. dialog \in Dialog /\ dialog.mode = "delete"
      BY <1>2, <3>1 DEF Opened, Dialog
    <3>3. connPage' = [connPage EXCEPT !.dialog = dialog, !.opened = connPage.opened + 1]
      BY <2>3, <3>1, Zenon DEF StartDelete
    <3> QED BY <1>0, <1>2, <3>2, <3>3 DEF Page
  <2> QED BY <2>1, <2>2, <2>3
<1>4. ConnTypeOK'
  BY <1>0, <1>1, <1>3, CoversTests DEF ConnTypeOK
<1>5. TestsBelong'
  <2>1. ASSUME connTest' # NoConn PROVE connTest'.amid \/ connTest'.covered
    BY <1>0, <1>1, <2>1, CoversTests DEF TestsBelong, Belongs
  <2>2. ASSUME connTest' # NoConn PROVE connPage'.result = NoConn
    BY <1>0, <1>1, <1>3, <2>2, CoversTests DEF TestsBelong
  <2>3. connPage'.result # NoConn => connPage'.dialog.mode \notin {"create", "edit"}
    BY <1>3
  <2> QED BY <2>1, <2>2, <2>3 DEF TestsBelong, Belongs
<1>6. BusyRowsHaveCalls' /\ ListFollows'
  BY <1>0, <1>1, <1>3, BusyStays, ListStays DEF Calling
<1> QED BY <1>4, <1>5, <1>6, PromiseFollows, PTL

\* A dialog is left or typed in, and its form tested.
LEMMA FormKeeps ==
  ASSUME ConnInvariant,
         CloseConn \/ RunTest \/ (\E shape \in Shapes : TypeIn(shape)) \/ \E answered \in BOOLEAN : TestEnds(answered)
  PROVE  ConnInvariant'
<1>0. ConnTypeOK /\ TestsBelong /\ ListFollows /\ BusyRowsHaveCalls /\ connPage \in Page
      /\ connTest \in Result \union {NoConn} /\ connPage.result \in Result \union {NoConn}
      /\ NoConn \notin Result
  BY ConnTyped DEF ConnInvariant, ConnPromise
<1>1. UNCHANGED <<connRows, connSave, rowCalls, connList, connWrites>>
  BY DEF CloseConn, RunTest, TypeIn, TestEnds
<1>2. ASSUME connPage' \in Page, connPage'.rowBusy = connPage.rowBusy, connTest' \in Result \union {NoConn}, TestsBelong'
      PROVE  ConnInvariant'
  <2>1. ConnTypeOK'
    BY <1>0, <1>1, <1>2 DEF ConnTypeOK
  <2>2. BusyRowsHaveCalls' /\ ListFollows'
    BY <1>0, <1>1, <1>2, BusyStays, ListStays DEF Calling
  <2> QED BY <1>2, <2>1, <2>2, PromiseFollows, PTL
<1>3. CASE CloseConn
  <2>1. NoDialog \in Dialog /\ NoDialog.mode = "none"
    BY ConnAssumption DEF NoDialog, Dialog
  <2>2. connPage' = [connPage EXCEPT !.dialog = NoDialog, !.typed = "fails", !.result = NoConn]
        /\ connTest = NoConn /\ connTest' = connTest
    BY <1>3 DEF CloseConn, MayClose, BlankForm
  <2>3. connPage' \in Page /\ connPage'.rowBusy = connPage.rowBusy /\ connPage'.result = NoConn
    BY <1>0, <2>1, <2>2 DEF Page, Shapes
  <2> QED BY <1>0, <1>2, <2>2, <2>3 DEF TestsBelong
<1>4. CASE RunTest
  <2>1. PICK test : test = [serial |-> connPage.dialog.serial, shape |-> connPage.typed,
                            amid |-> connSave # NoConn, covered |-> FALSE]
    OBVIOUS
  <2>2. test.serial = connPage.dialog.serial /\ test.amid = (connSave # NoConn) /\ test.covered = FALSE
    BY <2>1, Zenon
  <2>3. test \in Result
    <3>1. (connSave # NoConn) \in BOOLEAN /\ FALSE \in BOOLEAN
      OBVIOUS
    <3>2. connPage.dialog.serial \in 0..MaxDialogs /\ connPage.typed \in Shapes
      BY <1>0, ConnTyped DEF Dialog
    <3> QED BY <2>1, <3>1, <3>2, Zenon DEF Result
  <2>4. connTest' = test /\ connPage' = [connPage EXCEPT !.result = NoConn] /\ connPage.dialog.mode \in {"create", "edit"}
    BY <1>4, <2>1 DEF RunTest
  <2>5. connPage' \in Page /\ connPage'.rowBusy = connPage.rowBusy /\ connPage'.result = NoConn
        /\ connPage'.dialog = connPage.dialog
    BY <1>0, <2>4 DEF Page
  <2>6. TestsBelong'
    BY <1>1, <2>2, <2>4, <2>5 DEF TestsBelong, Belongs
  <2> QED BY <1>2, <2>3, <2>4, <2>5, <2>6
<1>5. ASSUME NEW shape \in Shapes, TypeIn(shape) PROVE ConnInvariant'
  <2>1. connPage' = [connPage EXCEPT !.typed = shape] /\ connTest' = connTest
    BY <1>5 DEF TypeIn
  <2>2. connPage' \in Page /\ connPage'.rowBusy = connPage.rowBusy /\ connPage'.result = connPage.result
        /\ connPage'.dialog = connPage.dialog
    BY <1>0, <2>1 DEF Page
  <2>3. TestsBelong'
    BY <1>0, <1>1, <2>1, <2>2, BelongStays
  <2> QED BY <1>0, <1>2, <2>1, <2>2, <2>3
<1>6. ASSUME NEW answered \in BOOLEAN, TestEnds(answered) PROVE ConnInvariant'
  <2>1. PICK result : result = IF answered THEN connTest ELSE connPage.result
    OBVIOUS
  <2>2. connPage' = [connPage EXCEPT !.result = result] /\ connTest # NoConn /\ connTest' = NoConn
    BY <1>6, <2>1 DEF TestEnds
  <2>3. result \in Result \union {NoConn} /\ (result = NoConn \/ result = connTest)
    BY <1>0, <2>1, <2>2 DEF TestsBelong
  <2>4. connPage' \in Page /\ connPage'.rowBusy = connPage.rowBusy /\ connPage'.result = result
        /\ connPage'.dialog = connPage.dialog
    BY <1>0, <2>2, <2>3 DEF Page
  <2>5. TestsBelong'
    BY <1>0, <1>1, <2>2, <2>3, <2>4 DEF TestsBelong, Belongs
  <2> QED BY <1>2, <2>2, <2>4, <2>5
<1> QED BY <1>3, <1>4, <1>5, <1>6
\* A save or removal begins or has failed.
LEMMA SaveKeeps ==
  ASSUME ConnInvariant, BeginSave \/ BeginRemove \/ SaveFails \/ FailSave PROVE ConnInvariant'
<1>0. ConnTypeOK /\ TestsBelong /\ ListFollows /\ BusyRowsHaveCalls /\ connSave \in Save \union {NoConn}
      /\ connPage.dialog \in Dialog /\ connPage.typed \in Shapes /\ NoConn \notin Save
  BY ConnTyped DEF ConnInvariant, ConnPromise
<1>1. UNCHANGED <<connRows, connPage, connTest, rowCalls, connList, connWrites>>
  BY DEF BeginSave, BeginRemove, SaveFails, FailSave
<1>2. ASSUME connSave' \in Save \union {NoConn}, TestsBelong',
             connSave # NoConn => connSave.step \notin {"done", "refreshing"}
      PROVE  ConnInvariant'
  <2>1. ConnTypeOK'
    BY <1>0, <1>1, <1>2 DEF ConnTypeOK
  <2>2. BusyRowsHaveCalls'
    BY <1>0, <1>1, BusyStays
  <2>3. (Calling("done") => Calling("done")') /\ (Calling("refreshing") => Calling("refreshing")')
    BY <1>1, <1>2 DEF Calling
  <2>4. ListFollows'
    BY <1>0, <1>1, <2>3, ListStays
  <2> QED BY <1>2, <2>1, <2>2, <2>4, PromiseFollows, PTL
<1>3. CASE BeginSave
  <2>1. connSave' \in Save \union {NoConn} /\ connSave = NoConn
    BY <1>0, <1>3 DEF BeginSave, Save, Step, Dialog
  <2>2. connTest = NoConn
    BY <1>0, <1>3 DEF BeginSave, CanSave, TestsBelong
  <2> QED BY <1>0, <1>1, <1>2, <2>1, <2>2 DEF TestsBelong, Belongs
<1>4. CASE BeginRemove
  <2>1. connSave' \in Save \union {NoConn} /\ connSave = NoConn /\ connPage.dialog.mode = "delete"
    BY <1>0, <1>4 DEF BeginRemove, Save, Step, Dialog, BlankForm, Shapes
  <2> QED BY <1>0, <1>1, <1>2, <2>1 DEF TestsBelong, Belongs
<1>5. CASE SaveFails
  <2>1. connSave' = NoConn /\ connSave.step = "failed"
    BY <1>5 DEF SaveFails
  <2>2. TestsBelong'
    BY <1>0, <1>1, <2>1, BelongStays
  <2> QED BY <1>2, <2>1, <2>2
<1>6. CASE FailSave
  <2>1. connSave' = [connSave EXCEPT !.step = "failed"] /\ connSave.step = "sent" /\ connSave # NoConn
    BY <1>6 DEF FailSave
  <2>2. connSave' \in Save
    BY <1>0, <2>1 DEF Save, Step
  <2>3. TestsBelong'
    BY <1>0, <1>1, <2>1, BelongStays
  <2> QED BY <1>2, <2>1, <2>2, <2>3
<1> QED BY <1>3, <1>4, <1>5, <1>6

\* A call that wrote asks for the list anew, and gives up the fetch others wait for.
LEMMA RefreshKeeps ==
  ASSUME ConnTypeOK, ListFollows, connList' = Refresh(connList), connWrites' = connWrites, Calling("refreshing")'
  PROVE  connList' \in List /\ ListFollows'
<1>1. /\ connList' \in List /\ connList'.fetching /\ connList'.fetched = NoConn
      /\ connList'.shown = connList.shown
  BY ConnTyped DEF Refresh, List
<1> QED BY <1>1 DEF ListFollows

LEMMA SaveEndsKeeps ==
  ASSUME ConnInvariant, SaveEnds PROVE ConnInvariant'
<1>0. ConnTypeOK /\ TestsBelong /\ ListFollows /\ BusyRowsHaveCalls /\ connPage \in Page /\ ConnAssumption
      /\ rowCalls \in [RowCalls -> Call \union {NoConn}] /\ connSave \in Save /\ connSave # NoConn
      /\ connSave.step = "done" /\ NoConn \notin Save
  BY ConnTyped, ConnAssumption DEF ConnInvariant, ConnPromise, SaveEnds
<1>1. UNCHANGED <<connRows, connTest, connWrites>> /\ rowCalls' = AfterWait(rowCalls) /\ connList' = Refresh(connList)
      /\ connSave' = [connSave EXCEPT !.step = "refreshing"]
  BY DEF SaveEnds
<1>2. connSave' \in Save /\ connSave' # NoConn /\ connSave'.step = "refreshing"
  BY <1>0, <1>1 DEF Save, Step
<1>3. PICK page : page = IF connSave.mode = "delete" THEN [connPage EXCEPT !.dialog = NoDialog]
                         ELSE [connPage EXCEPT !.dialog = NoDialog, !.typed = BlankForm, !.result = NoConn]
  OBVIOUS
<1>4. connPage' = PageAfterWait(page)
  BY <1>3 DEF SaveEnds
<1>5. /\ page \in Page /\ page.dialog.mode = "none" /\ page.rowBusy = connPage.rowBusy
      /\ (connPage.result = NoConn => page.result = NoConn)
  <2>1. NoDialog \in Dialog /\ NoDialog.mode = "none"
    BY <1>0 DEF NoDialog, Dialog, ConnAssumption
  <2>2. CASE connSave.mode = "delete"
    BY <1>0, <1>3, <2>1, <2>2 DEF Page
  <2>3. CASE connSave.mode # "delete"
    BY <1>0, <1>3, <2>1, <2>3 DEF Page, BlankForm, Shapes
  <2> QED BY <2>2, <2>3
<1>6. /\ connPage' \in Page /\ connPage'.dialog = page.dialog /\ connPage'.result = page.result
      /\ IF Waiting = {} THEN connPage'.rowBusy = page.rowBusy ELSE connPage'.rowBusy = NoConn
  BY <1>0, <1>4, <1>5, PageWaits
<1>7. rowCalls' \in [RowCalls -> Call \union {NoConn}]
  BY <1>0, <1>1, CallsAfterWait
<1>8. connList' \in List /\ ListFollows'
  BY <1>0, <1>1, <1>2, RefreshKeeps DEF Calling
<1>9. ConnTypeOK'
  BY <1>0, <1>1, <1>2, <1>6, <1>7, <1>8 DEF ConnTypeOK
<1>10. BusyRowsHaveCalls'
  BY <1>0, <1>1, <1>5, <1>6, BusyAfterWait
<1>11. TestsBelong'
  BY <1>0, <1>1, <1>5, <1>6 DEF TestsBelong, Belongs
<1> QED BY <1>8, <1>9, <1>10, <1>11, PromiseFollows, PTL

LEMMA PressEndsKeeps ==
  ASSUME ConnInvariant, NEW r \in RowCalls, PressEnds(r) PROVE ConnInvariant'
<1>0. ConnTypeOK /\ TestsBelong /\ ListFollows /\ BusyRowsHaveCalls /\ connPage \in Page /\ ConnAssumption
      /\ rowCalls \in [RowCalls -> Call \union {NoConn}] /\ NoConn \notin Call
  BY ConnTyped, ConnAssumption DEF ConnInvariant, ConnPromise
<1>1. UNCHANGED <<connRows, connTest, connWrites>> /\ connList' = Refresh(connList)
      /\ connSave' = SaveAfterWait /\ connPage' = PageAfterWait(connPage)
      /\ rowCalls[r] # NoConn /\ rowCalls[r].step = "done" /\ rowCalls[r] \in Call
  BY <1>0 DEF PressEnds
<1>2. PICK call : call = [rowCalls[r] EXCEPT !.step = "refreshing"]
  OBVIOUS
<1>3. call \in Call /\ call.step = "refreshing" /\ call.conn = rowCalls[r].conn /\ call # NoConn
  BY <1>0, <1>1, <1>2 DEF Call, Step
<1>4. PICK calls : calls = [rowCalls EXCEPT ![r] = call]
  OBVIOUS
<1>5. calls \in [RowCalls -> Call \union {NoConn}] /\ calls[r] = call /\ \A s \in RowCalls \ {r} : calls[s] = rowCalls[s]
  BY <1>0, <1>3, <1>4
<1>6. rowCalls' = AfterWait(calls)
  <2>1. [rowCalls EXCEPT ![r].step = "refreshing"] = calls
    BY <1>0, <1>2, <1>4
  <2> QED BY <2>1 DEF PressEnds
<1>7. /\ connPage' \in Page /\ connPage'.dialog = connPage.dialog /\ connPage'.result = connPage.result
      /\ IF Waiting = {} THEN connPage'.rowBusy = connPage.rowBusy ELSE connPage'.rowBusy = NoConn
  BY <1>0, <1>1, PageWaits
<1>8. BusyRowsHaveCalls'
  BY <1>0, <1>3, <1>5, <1>6, <1>7, BusyAfterWait
<1>9. /\ rowCalls' \in [RowCalls -> Call \union {NoConn}] /\ connSave' \in Save \union {NoConn}
      /\ (connSave' # NoConn => connSave # NoConn)
  BY <1>0, <1>1, <1>5, <1>6, CallsAfterWait, WaitEnds
<1>10. Calling("refreshing")'
  <2>1. r \notin Waiting
    BY <1>0, <1>1, WaitEnds
  <2>2. rowCalls'[r] = call
    BY <1>5, <1>6, <2>1, CallsAfterWait
  <2> QED BY <1>3, <2>2 DEF Calling
<1>11. connList' \in List /\ ListFollows'
  BY <1>0, <1>1, <1>10, RefreshKeeps
<1>12. ConnTypeOK'
  BY <1>0, <1>1, <1>7, <1>9, <1>11 DEF ConnTypeOK
<1>13. TestsBelong'
  BY <1>0, <1>1, <1>7, <1>9, BelongStays
<1> QED BY <1>8, <1>11, <1>12, <1>13, PromiseFollows, PTL
\* The buttons of a row.
LEMMA RowKeeps ==
  ASSUME ConnInvariant, NEW r \in RowCalls,
         PressFails(r) \/ FailPress(r) \/ \E c \in Conns : Press(r, c)
  PROVE  ConnInvariant'
<1>0. ConnTypeOK /\ TestsBelong /\ ListFollows /\ BusyRowsHaveCalls /\ connPage \in Page
      /\ rowCalls \in [RowCalls -> Call \union {NoConn}] /\ NoConn \notin Call /\ NoConn \notin Conns
      /\ rowCalls[r] \in Call \union {NoConn}
  BY ConnTyped DEF ConnInvariant, ConnPromise
<1>1. UNCHANGED <<connRows, connTest, connSave, connList, connWrites>>
  BY DEF PressFails, FailPress, Press
<1>2. ASSUME NEW call \in Call \union {NoConn}, rowCalls' = [rowCalls EXCEPT ![r] = call],
             NEW busy \in Conns \union {NoConn}, connPage' = [connPage EXCEPT !.rowBusy = busy],
             busy # NoConn => \/ call # NoConn /\ call.conn = busy
                              \/ /\ busy = connPage.rowBusy /\ call # NoConn /\ call.conn = rowCalls[r].conn
                                 /\ rowCalls[r] # NoConn,
             rowCalls[r] # NoConn => rowCalls[r].step \notin {"done", "refreshing"}
      PROVE  ConnInvariant'
  <2>1. rowCalls' \in [RowCalls -> Call \union {NoConn}] /\ rowCalls'[r] = call
        /\ \A s \in RowCalls \ {r} : rowCalls'[s] = rowCalls[s]
    BY <1>0, <1>2
  <2>2. connPage' \in Page /\ connPage'.rowBusy = busy /\ connPage'.dialog = connPage.dialog
        /\ connPage'.result = connPage.result
    BY <1>0, <1>2 DEF Page
  <2>3. ConnTypeOK'
    BY <1>0, <1>1, <2>1, <2>2 DEF ConnTypeOK
  <2>4. BusyRowsHaveCalls'
    BY <1>0, <1>2, <2>1, <2>2 DEF BusyRowsHaveCalls
  <2>5. TestsBelong'
    BY <1>0, <1>1, <2>2, BelongStays
  <2>6. (Calling("done") => Calling("done")') /\ (Calling("refreshing") => Calling("refreshing")')
    BY <1>1, <1>2, <2>1 DEF Calling
  <2>7. ListFollows'
    BY <1>0, <1>1, <2>6, ListStays
  <2> QED BY <2>3, <2>4, <2>5, <2>7, PromiseFollows, PTL
<1>3. CASE PressFails(r)
  <2>1. rowCalls' = [rowCalls EXCEPT ![r] = NoConn] /\ connPage' = [connPage EXCEPT !.rowBusy = NoConn]
        /\ rowCalls[r].step = "failed"
    BY <1>3 DEF PressFails, ClearBusy
  <2> QED BY <1>2, <2>1
<1>4. CASE FailPress(r)
  <2>1. PICK call : call = [rowCalls[r] EXCEPT !.step = "failed"]
    OBVIOUS
  <2>2. rowCalls[r] \in Call /\ rowCalls[r] # NoConn /\ rowCalls[r].step = "sent" /\ connPage' = connPage
        /\ rowCalls' = [rowCalls EXCEPT ![r].step = "failed"]
    BY <1>0, <1>4 DEF FailPress
  <2>3. call \in Call /\ call # NoConn /\ call.conn = rowCalls[r].conn
    BY <1>0, <2>1, <2>2 DEF Call, Step
  <2>4. rowCalls' = [rowCalls EXCEPT ![r] = call]
    BY <1>0, <2>1, <2>2
  <2>5. PICK busy \in Conns \union {NoConn} : busy = connPage.rowBusy
    BY <1>0 DEF Page
  <2>6. connPage' = [connPage EXCEPT !.rowBusy = busy]
    BY <1>0, <2>2, <2>5 DEF Page
  <2>7. /\ busy # NoConn =>
             \/ call # NoConn /\ call.conn = busy
             \/ /\ busy = connPage.rowBusy /\ call # NoConn /\ call.conn = rowCalls[r].conn
                /\ rowCalls[r] # NoConn
        /\ rowCalls[r] # NoConn => rowCalls[r].step \notin {"done", "refreshing"}
        /\ call \in Call \union {NoConn}
    BY <2>2, <2>3, <2>5
  <2> QED BY <1>2, <2>4, <2>6, <2>7
<1>5. ASSUME NEW c \in Conns, Press(r, c) PROVE ConnInvariant'
  <2>1. PICK call : call = [conn |-> c, step |-> "sent"]
    OBVIOUS
  <2>2. call \in Call /\ call # NoConn /\ call.conn = c
    BY <1>0, <2>1 DEF Call, Step
  <2>3. rowCalls' = [rowCalls EXCEPT ![r] = call] /\ connPage' = [connPage EXCEPT !.rowBusy = c] /\ rowCalls[r] = NoConn
    BY <1>5, <2>1, Zenon DEF Press
  <2> QED BY <1>2, <2>2, <2>3
<1> QED BY <1>3, <1>4, <1>5

\* A write is the page's own, whose call has yet to ask for the list, or somebody else's.
LEMMA WriteKeeps ==
  ASSUME ConnInvariant, NEW stored \in [Conns -> Shapes \union {NoConn}], NEW own \in BOOLEAN, Wrote(stored, own),
         UNCHANGED <<connPage, connTest, connList>>,
         connSave' \in Save \union {NoConn}, rowCalls' \in [RowCalls -> Call \union {NoConn}],
         connSave' # NoConn => connSave # NoConn,
         \A r \in RowCalls : rowCalls[r] # NoConn => rowCalls'[r] # NoConn /\ rowCalls'[r].conn = rowCalls[r].conn,
         own \/ Calling("done") => Calling("done")', Calling("refreshing") => Calling("refreshing")'
  PROVE  ConnInvariant'
<1>0. ConnTypeOK /\ TestsBelong /\ ListFollows /\ BusyRowsHaveCalls
      /\ connWrites.all \in 0..MaxWrites /\ connWrites.own \in 0..MaxWrites /\ MaxWrites \in Nat
      /\ connList.shown \in Snapshot
  BY ConnTyped DEF ConnInvariant, ConnPromise
<1>1. /\ connRows' = stored /\ connWrites.all < MaxWrites
      /\ connWrites' = [all |-> connWrites.all + 1, own |-> IF own THEN connWrites.all + 1 ELSE connWrites.own]
  BY DEF Wrote
<1>2. connWrites.all + 1 \in 0..MaxWrites
  BY <1>0, <1>1
<1>3. /\ connWrites' \in [all : 0..MaxWrites, own : 0..MaxWrites] /\ connWrites'.all = connWrites.all + 1
      /\ connWrites'.own = IF own THEN connWrites.all + 1 ELSE connWrites.own
  BY <1>0, <1>1, <1>2
<1>4. ConnTypeOK'
  BY <1>0, <1>1, <1>3 DEF ConnTypeOK
<1>5. TestsBelong' /\ BusyRowsHaveCalls'
  BY <1>0, BelongStays, BusyStays
<1>6. ListFollows'
  <2>1. /\ connList.shown.at \in Nat
        /\ connList.fetched # NoConn => connList.fetched.at \in Nat
    <3>1. connList.fetched \in Snapshot \union {NoConn}
      BY <1>0, ConnTyped
    <3> QED BY <1>0, <3>1 DEF Snapshot
  <2>2. connWrites'.own <= connWrites'.all /\ connWrites.all <= connWrites'.all
    BY <1>0, <1>3 DEF ListFollows
  <2>3. /\ connList.shown.at <= connWrites'.all
        /\ connList.fetched # NoConn => connList.fetched.at <= connWrites'.all
    BY <1>0, <1>3, <2>1 DEF ListFollows
  <2>4. CASE own
    BY <1>0, <2>2, <2>3, <2>4 DEF ListFollows
  <2>5. CASE ~own
    BY <1>0, <1>3, <2>2, <2>3, <2>5 DEF ListFollows
  <2> QED BY <2>4, <2>5
<1> QED BY <1>4, <1>5, <1>6, PromiseFollows, PTL

\* The handlers, and another operator.
LEMMA HandlersKeep ==
  ASSUME ConnInvariant,
         \/ PatchConnection \/ DeleteConnection
         \/ \E c \in Conns : PostConnection(c) \/ RemovedElsewhere(c)
         \/ \E r \in RowCalls : PostRow(r)
  PROVE  ConnInvariant'
<1>0. connRows \in [Conns -> Shapes \union {NoConn}] /\ rowCalls \in [RowCalls -> Call \union {NoConn}]
      /\ connSave \in Save \union {NoConn} /\ NoConn \notin Save /\ NoConn \notin Call
      /\ \A r \in RowCalls : rowCalls[r] \in Call \union {NoConn}
  BY ConnTyped DEF ConnInvariant, ConnPromise
<1>1. UNCHANGED <<connPage, connTest, connList>>
  BY Zenon DEF PatchConnection, DeleteConnection, PostConnection, RemovedElsewhere, PostRow
<1>2. ASSUME NEW stored \in [Conns -> Shapes \union {NoConn}], Wrote(stored, TRUE), rowCalls' = rowCalls,
             connSave \in Save, connSave # NoConn, connSave.step = "sent",
             connSave' \in Save, connSave'.step = "done"
      PROVE  ConnInvariant'
  <2>1. Calling("done")' /\ (Calling("refreshing") => Calling("refreshing")')
    BY <1>0, <1>2 DEF Calling
  <2> QED BY <1>0, <1>1, <1>2, <2>1, WriteKeeps
<1>3. CASE PatchConnection
  <2>1. PICK stored : stored = [connRows EXCEPT ![connSave.conn] = connSave.shape]
    OBVIOUS
  <2>2. connSave \in Save /\ connSave # NoConn /\ connSave.step = "sent" /\ connSave.shape \in Shapes
        /\ connSave' = [connSave EXCEPT !.step = "done"] /\ rowCalls' = rowCalls /\ Wrote(stored, TRUE)
    BY <1>0, <1>3, <2>1 DEF PatchConnection, Save
  <2>3. stored \in [Conns -> Shapes \union {NoConn}]
    BY <1>0, <2>1, <2>2
  <2>4. connSave' \in Save /\ connSave'.step = "done"
    BY <2>2 DEF Save, Step
  <2> QED BY <1>2, <2>2, <2>3, <2>4
<1>4. CASE DeleteConnection
  <2>1. PICK stored : stored = [connRows EXCEPT ![connSave.conn] = NoConn]
    OBVIOUS
  <2>2. connSave \in Save /\ connSave # NoConn /\ connSave.step = "sent"
        /\ connSave' = [connSave EXCEPT !.step = "done"] /\ rowCalls' = rowCalls /\ Wrote(stored, TRUE)
    BY <1>0, <1>4, <2>1 DEF DeleteConnection
  <2>3. stored \in [Conns -> Shapes \union {NoConn}]
    BY <1>0, <2>1
  <2>4. connSave' \in Save /\ connSave'.step = "done"
    BY <2>2 DEF Save, Step
  <2> QED BY <1>2, <2>2, <2>3, <2>4
<1>5. ASSUME NEW c \in Conns, PostConnection(c) PROVE ConnInvariant'
  <2>1. PICK stored : stored = [connRows EXCEPT ![c] = connSave.shape]
    OBVIOUS
  <2>2. connSave \in Save /\ connSave # NoConn /\ connSave.step = "sent" /\ connSave.shape \in Shapes
        /\ connSave' = [connSave EXCEPT !.step = "done", !.conn = c] /\ rowCalls' = rowCalls /\ Wrote(stored, TRUE)
    <3>1. connSave # NoConn /\ connSave.step = "sent" /\ rowCalls' = rowCalls /\ Wrote(stored, TRUE)
          /\ connSave' = [connSave EXCEPT !.step = "done", !.conn = c]
      BY <1>5, <2>1, Zenon DEF PostConnection
    <3> QED BY <1>0, <3>1 DEF Save
  <2>3. stored \in [Conns -> Shapes \union {NoConn}]
    BY <1>0, <2>1, <2>2
  <2>4. connSave' \in Save /\ connSave'.step = "done"
    BY <1>5, <2>2 DEF Save, Step
  <2> QED BY <1>2, <2>2, <2>3, <2>4
<1>6. ASSUME NEW c \in Conns, RemovedElsewhere(c) PROVE ConnInvariant'
  <2>1. PICK stored : stored = [connRows EXCEPT ![c] = NoConn]
    OBVIOUS
  <2>2. Wrote(stored, FALSE) /\ connSave' = connSave /\ rowCalls' = rowCalls
    BY <1>6, <2>1 DEF RemovedElsewhere
  <2>3. stored \in [Conns -> Shapes \union {NoConn}]
    BY <1>0, <2>1
  <2>4. Calling("done")' = Calling("done") /\ Calling("refreshing")' = Calling("refreshing")
    BY <2>2 DEF Calling
  <2> QED BY <1>0, <1>1, <2>2, <2>3, <2>4, WriteKeeps
<1>7. ASSUME NEW r \in RowCalls, PostRow(r) PROVE ConnInvariant'
  <2>1. PICK call : call = [rowCalls[r] EXCEPT !.step = "done"]
    OBVIOUS
  <2>2. rowCalls[r] \in Call /\ rowCalls[r] # NoConn /\ rowCalls[r].step = "sent" /\ Wrote(connRows, TRUE)
        /\ connSave' = connSave /\ rowCalls' = [rowCalls EXCEPT ![r].step = "done"]
    BY <1>0, <1>7 DEF PostRow
  <2>3. call \in Call /\ call # NoConn /\ call.conn = rowCalls[r].conn /\ call.step = "done"
    BY <1>0, <2>1, <2>2 DEF Call, Step
  <2>4. rowCalls' = [rowCalls EXCEPT ![r] = call]
    BY <1>0, <2>1, <2>2
  <2>5. rowCalls' \in [RowCalls -> Call \union {NoConn}] /\ rowCalls'[r] = call
        /\ \A s \in RowCalls \ {r} : rowCalls'[s] = rowCalls[s]
    BY <1>0, <2>3, <2>4
  <2>6. Calling("done")' /\ (Calling("refreshing") => Calling("refreshing")')
    BY <1>0, <2>2, <2>3, <2>5 DEF Calling
  <2> QED BY <1>0, <1>1, <2>2, <2>3, <2>5, <2>6, WriteKeeps
<1> QED BY <1>3, <1>4, <1>5, <1>6, <1>7

\* Nothing is under way yet.
LEMMA ConnBegins ==
  ASSUME ConnInit PROVE ConnInvariant
<1>1. /\ connTest = NoConn /\ connSave = NoConn /\ \A r \in RowCalls : rowCalls[r] = NoConn
      /\ rowCalls \in [RowCalls -> Call \union {NoConn}]
  BY DEF ConnInit
<1>2. NoDialog \in Dialog /\ NoDialog.mode = "none" /\ 0 \in 0..MaxDialogs /\ 0 \in 0..MaxWrites
  BY ConnAssumption DEF NoDialog, Dialog
<1>3. /\ connPage \in Page /\ connPage.dialog = NoDialog /\ connPage.result = NoConn /\ connPage.rowBusy = NoConn
  BY <1>2 DEF ConnInit, Page, BlankForm, Shapes
<1>4. connRows \in [Conns -> Shapes \union {NoConn}]
  BY DEF ConnInit, Shapes
<1>5. PICK shown : shown = [rows |-> connRows, at |-> 0]
  OBVIOUS
<1>6. shown \in Snapshot /\ shown.at = 0
  BY <1>2, <1>4, <1>5 DEF Snapshot
<1>7. /\ connList \in List /\ connList.shown.at = 0 /\ connList.fetched = NoConn
      /\ connWrites \in [all : 0..MaxWrites, own : 0..MaxWrites] /\ connWrites.all = 0 /\ connWrites.own = 0
  BY <1>2, <1>5, <1>6 DEF ConnInit, List
<1>8. ConnTypeOK
  BY <1>1, <1>3, <1>4, <1>7 DEF ConnTypeOK
<1>9. TestsBelong /\ BusyRowsHaveCalls /\ ListFollows
  BY <1>1, <1>3, <1>7 DEF TestsBelong, BusyRowsHaveCalls, ListFollows
<1> QED BY <1>8, <1>9, PromiseFollows

\* However dialogs, tests, saves, rows and fetches overlap, a test belongs to the dialog
\* there is or is known not to, and what the page wrote is asked for until it is shown.
THEOREM ConnCorrect == ConnSpec => []ConnInvariant
<1>1. ConnInit => ConnInvariant
  BY ConnBegins
<1>2. ConnInvariant /\ [ConnNext]_connVars => ConnInvariant'
  <2>1. SUFFICES ASSUME ConnInvariant, [ConnNext]_connVars PROVE ConnInvariant'
    OBVIOUS
  <2>2. CASE PollConns \/ ReadConns
    BY <2>1, <2>2, ListKeeps
  <2>3. CASE ConnsArrive \/ ConnsFail
    BY <2>1, <2>3, FetchEndsKeep
  <2>4. CASE StartCreate \/ \E c \in Conns : StartEdit(c) \/ StartDelete(c)
    BY <2>1, <2>4, OpeningKeeps
  <2>5. CASE CloseConn \/ RunTest \/ (\E shape \in Shapes : TypeIn(shape)) \/ \E answered \in BOOLEAN : TestEnds(answered)
    BY <2>1, <2>5, FormKeeps
  <2>6. CASE BeginSave \/ BeginRemove \/ SaveFails \/ FailSave
    BY <2>1, <2>6, SaveKeeps
  <2>7. CASE SaveEnds
    BY <2>1, <2>7, SaveEndsKeeps
  <2>8. CASE \E r \in RowCalls : PressEnds(r)
    BY <2>1, <2>8, PressEndsKeeps
  <2>9. CASE \E r \in RowCalls : PressFails(r) \/ FailPress(r) \/ \E c \in Conns : Press(r, c)
    BY <2>1, <2>9, RowKeeps
  <2>10. CASE \/ PatchConnection \/ DeleteConnection
              \/ \E c \in Conns : PostConnection(c) \/ RemovedElsewhere(c)
              \/ \E r \in RowCalls : PostRow(r)
    BY <2>1, <2>10, HandlersKeep
  <2>11. CASE UNCHANGED connVars
    BY <2>1, <2>11 DEF connVars, ConnInvariant, ConnPromise, ConnTypeOK, GateIsOfThisDialog, CanSave, OwnWritesAreShown,
       BusyRowsHaveCalls, TestsBelong, Belongs, ListFollows, Calling
  <2> QED BY <2>1, <2>2, <2>3, <2>4, <2>5, <2>6, <2>7, <2>8, <2>9, <2>10, <2>11 DEF ConnNext
<1> QED BY <1>1, <1>2, PTL DEF ConnSpec

\* A save is let through by a test of its own dialog, own writes are shown, and busy rows have calls.
THEOREM ConnPromiseHolds == ConnSpec => []ConnPromise
<1>1. ConnInvariant => ConnPromise
  BY DEF ConnInvariant
<1> QED BY <1>1, ConnCorrect, PTL

-----------------------------------------------------------------------------
\* The form of a connection's settings.

\* What the form, the schemas, split and buildProbeConfig say of one type agrees: what is
\* needed is required, what is required is marked, every field is a setting or a secret, every
\* checkbox a setting, and no secret one.
TablesAgree(type) ==
  /\ type # "none"
  /\ DOMAIN FormFields[type] \subseteq ConfigurationNames[type] \union SecretNames[type]
  /\ SchemaRequired[type] \subseteq Marked(type, "required")
  /\ ProbeNeeds[type] \subseteq SchemaRequired[type]
  /\ Marked(type, "checkbox") \subseteq ConfigurationNames[type]
  /\ (ConfigurationNames[type] \union {"hasWriteToken"}) \intersect Marked(type, "secret") = {}

LEMMA DigitalOceanAgrees == TablesAgree("digitalocean")
<1>1. FormFields["digitalocean"] =
      [apiToken |-> {"required", "secret"}, writeApiToken |-> {"secret"}, apiUrl |-> {"default"}]
  BY DEF FormFields
<1>2. SchemaRequired["digitalocean"] = {"apiToken"} /\ ProbeNeeds["digitalocean"] = {"apiToken"}
  BY DEF SchemaRequired, ProbeNeeds
<1>3. /\ ConfigurationNames["digitalocean"] = {"apiUrl"}
      /\ SecretNames["digitalocean"] = {"apiToken", "writeApiToken"}
  BY DEF ConfigurationNames, SecretNames
<1> QED BY <1>1, <1>2, <1>3 DEF TablesAgree, Marked

LEMMA ProxmoxAgrees == TablesAgree("proxmox")
<1>1. FormFields["proxmox"] =
      [apiUrl |-> {"required"}, tokenId |-> {"required"}, tokenSecret |-> {"required", "secret"},
        rejectUnauthorized |-> {"checkbox", "default"}, caCertPath |-> {}]
  BY DEF FormFields
<1>2. SchemaRequired["proxmox"] = {"apiUrl", "tokenId", "tokenSecret"} /\ ProbeNeeds["proxmox"] = {"apiUrl", "tokenId", "tokenSecret"}
  BY DEF SchemaRequired, ProbeNeeds
<1>3. /\ ConfigurationNames["proxmox"] = {"apiUrl", "tokenId", "rejectUnauthorized", "caCertPath"}
      /\ SecretNames["proxmox"] = {"tokenSecret"}
  BY DEF ConfigurationNames, SecretNames
<1> QED BY <1>1, <1>2, <1>3 DEF TablesAgree, Marked

LEMMA PostgresAgrees == TablesAgree("postgres")
<1>1. FormFields["postgres"] =
      [host |-> {"required"}, port |-> {"default"}, database |-> {"required"}, username |-> {"required"},
        password |-> {"required", "secret"}, sslMode |-> {"default", "select"}]
  BY DEF FormFields
<1>2. SchemaRequired["postgres"] = {"host", "database", "username", "password"} /\ ProbeNeeds["postgres"] = {"host", "database", "username", "password"}
  BY DEF SchemaRequired, ProbeNeeds
<1>3. /\ ConfigurationNames["postgres"] = {"host", "port", "database", "username", "sslMode", "readOnlyOverride"}
      /\ SecretNames["postgres"] = {"password"}
  BY DEF ConfigurationNames, SecretNames
<1> QED BY <1>1, <1>2, <1>3 DEF TablesAgree, Marked

LEMMA RedisAgrees == TablesAgree("redis")
<1>1. FormFields["redis"] =
      [host |-> {"required"}, port |-> {"default"}, password |-> {"secret"}, tls |-> {"checkbox"}, db |-> {"default"}]
  BY DEF FormFields
<1>2. SchemaRequired["redis"] = {"host"} /\ ProbeNeeds["redis"] = {"host"}
  BY DEF SchemaRequired, ProbeNeeds
<1>3. /\ ConfigurationNames["redis"] = {"host", "port", "tls", "db"}
      /\ SecretNames["redis"] = {"password"}
  BY DEF ConfigurationNames, SecretNames
<1> QED BY <1>1, <1>2, <1>3 DEF TablesAgree, Marked

LEMMA PrometheusAgrees == TablesAgree("prometheus")
<1>1. FormFields["prometheus"] =
      [url |-> {"required"}, username |-> {}, password |-> {"secret"}]
  BY DEF FormFields
<1>2. SchemaRequired["prometheus"] = {"url"} /\ ProbeNeeds["prometheus"] = {"url"}
  BY DEF SchemaRequired, ProbeNeeds
<1>3. /\ ConfigurationNames["prometheus"] = {"url", "username"}
      /\ SecretNames["prometheus"] = {"password"}
  BY DEF ConfigurationNames, SecretNames
<1> QED BY <1>1, <1>2, <1>3 DEF TablesAgree, Marked

LEMMA GrafanaAgrees == TablesAgree("grafana")
<1>1. FormFields["grafana"] =
      [url |-> {"required"}, apiToken |-> {"secret"}, organisationId |-> {}]
  BY DEF FormFields
<1>2. SchemaRequired["grafana"] = {"url"} /\ ProbeNeeds["grafana"] = {"url"}
  BY DEF SchemaRequired, ProbeNeeds
<1>3. /\ ConfigurationNames["grafana"] = {"url", "organisationId"}
      /\ SecretNames["grafana"] = {"apiToken"}
  BY DEF ConfigurationNames, SecretNames
<1> QED BY <1>1, <1>2, <1>3 DEF TablesAgree, Marked

LEMMA AllTablesAgree == \A type \in FormTypes : TablesAgree(type)
<1>1. DOMAIN FormFields = {"digitalocean", "proxmox", "postgres", "redis", "prometheus", "grafana"}
  BY DEF FormFields
<1>2. \A type \in FormTypes : type \in {"digitalocean", "proxmox", "postgres", "redis", "prometheus", "grafana"}
  BY <1>1, FormAssumption
<1> QED BY <1>2, DigitalOceanAgrees, ProxmoxAgrees, PostgresAgrees, RedisAgrees, PrometheusAgrees, GrafanaAgrees

\* What makes the promise of the form inductive: a dialog is of a type, an edit of the row's
\* own; and of the row, its names are those of its type and its flags are checkboxes.
FormStands ==
  /\ form = [mode |-> form.mode, type |-> form.type, filled |-> form.filled, tested |-> form.tested]
  /\ form.mode = "none" => form = NoForm
  /\ form.mode # "none" => form.type \in FormTypes
  /\ form.mode = "edit" => kept.type = form.type
  /\ kept = [type |-> kept.type, configuration |-> kept.configuration, secrets |-> kept.secrets, checked |-> kept.checked]
  /\ kept.type # "none" =>
       /\ kept.configuration \subseteq ConfigurationNames[kept.type] \union {"hasWriteToken"}
       /\ kept.checked \subseteq Marked(kept.type, "checkbox")

FormInvariant == FormTypeOK /\ RowsCanBeProbed /\ FormStands

\* A dialog that is open, in its parts.
LEMMA OpenForm ==
  ASSUME FormInvariant, form.mode # "none"
  PROVE  /\ form.type \in FormTypes /\ form.type # "none" /\ TablesAgree(form.type)
         /\ form.filled \subseteq DOMAIN FormFields[form.type] /\ form.tested \in BOOLEAN
         /\ form.mode \in {"create", "edit"} /\ form # NoForm
BY AllTablesAgree DEF FormInvariant, FormTypeOK, FormStands, TablesAgree, NoForm

LEMMA FormStarts == FormInit => FormInvariant
BY DEF FormInit, NoForm, NoneKept, FormInvariant, FormTypeOK, RowsCanBeProbed, FormStands

\* A step that leaves the row alone and opens, fills, tests or closes the dialog.
LEMMA DialogKeepsRow ==
  ASSUME FormInvariant, UNCHANGED kept, NEW mode \in {"create", "edit"}, NEW type \in FormTypes,
         NEW filled \in SUBSET DOMAIN FormFields[type], NEW tested \in BOOLEAN,
         form' = [mode |-> mode, type |-> type, filled |-> filled, tested |-> tested],
         mode = "edit" => kept.type = type
  PROVE  FormInvariant'
<1>1. /\ form'.mode = mode /\ form'.type = type /\ form'.filled = filled /\ form'.tested = tested
      /\ mode # "none"
  OBVIOUS
<1>2. FormTypeOK'
  BY <1>1 DEF FormInvariant, FormTypeOK
<1>3. RowsCanBeProbed'
  BY DEF FormInvariant, RowsCanBeProbed
<1>4. FormStands'
  BY <1>1 DEF FormInvariant, FormStands
<1> QED BY <1>2, <1>3, <1>4 DEF FormInvariant

LEMMA FormOpens ==
  ASSUME FormInvariant, StartEditOf \/ \E type \in FormTypes : StartCreateOf(type)
  PROVE  FormInvariant'
<1>1. ASSUME NEW type \in FormTypes, StartCreateOf(type) PROVE FormInvariant'
  <2>1. InitialValues(type) \in SUBSET DOMAIN FormFields[type]
    BY DEF InitialValues, Marked
  <2>2. /\ form' = [mode |-> "create", type |-> type, filled |-> InitialValues(type), tested |-> FALSE]
        /\ UNCHANGED kept
    BY <1>1 DEF StartCreateOf
  <2> QED BY <2>1, <2>2, DialogKeepsRow
<1>2. CASE StartEditOf
  <2>1. PICK names : names = (InitialValues(kept.type) \union kept.configuration)
                             \ ((Marked(kept.type, "checkbox") \intersect kept.configuration) \ kept.checked)
    OBVIOUS
  <2>2. /\ form' = [mode |-> "edit", type |-> kept.type, tested |-> FALSE, filled |-> OfTheForm(kept.type, names)]
        /\ kept.type # "none" /\ UNCHANGED kept
    BY <1>2, <2>1 DEF StartEditOf
  <2>3. PICK filled \in SUBSET DOMAIN FormFields[kept.type] : filled = OfTheForm(kept.type, names)
    BY DEF OfTheForm
  <2>4. form' = [mode |-> "edit", type |-> kept.type, filled |-> filled, tested |-> FALSE]
    BY <2>2, <2>3
  <2>5. kept.type \in FormTypes
    BY <2>2 DEF FormInvariant, FormTypeOK
  <2> QED BY <2>2, <2>4, <2>5, DialogKeepsRow
<1> QED BY <1>1, <1>2

LEMMA FormFills ==
  ASSUME FormInvariant, TestForm \/ \E field : Fill(field) \/ Blank(field)
  PROVE  FormInvariant'
<1>1. form.mode # "none" /\ UNCHANGED kept
  BY DEF TestForm, Fill, Blank
<1>2. form = [mode |-> form.mode, type |-> form.type, filled |-> form.filled, tested |-> form.tested]
  BY DEF FormInvariant, FormStands
<1>3. /\ form.type \in FormTypes /\ form.filled \subseteq DOMAIN FormFields[form.type]
      /\ form.mode \in {"create", "edit"} /\ form.tested \in BOOLEAN
      /\ form.mode = "edit" => kept.type = form.type
  BY <1>1, OpenForm DEF FormInvariant, FormStands
<1>4. CASE TestForm
  <2>1. form' = [mode |-> form.mode, type |-> form.type, filled |-> form.filled, tested |-> TRUE]
    BY <1>2, <1>4 DEF TestForm
  <2> QED BY <1>1, <1>3, <2>1, DialogKeepsRow
<1>5. ASSUME NEW field, Fill(field) \/ Blank(field) PROVE FormInvariant'
  <2>1. PICK filled \in SUBSET DOMAIN FormFields[form.type] : form' = [form EXCEPT !.filled = filled]
    BY <1>3, <1>5 DEF Fill, Blank
  <2>2. form' = [mode |-> form.mode, type |-> form.type, filled |-> filled, tested |-> form.tested]
    BY <1>2, <2>1
  <2> QED BY <1>1, <1>3, <2>2, DialogKeepsRow
<1> QED BY <1>4, <1>5

\* What a save stores.
SavedAs(configuration, secrets, checked) ==
  /\ kept' = [type |-> form.type, configuration |-> configuration, secrets |-> secrets, checked |-> checked]
  /\ checked = form.filled \intersect Marked(form.type, "checkbox")
  /\ configuration \subseteq ConfigurationNames[form.type] \union {"hasWriteToken"}
  /\ Sent \subseteq configuration \union secrets
  /\ Sent \intersect ConfigurationNames[form.type] \subseteq configuration
  /\ ProbeNeeds[form.type] \subseteq configuration \union secrets
  /\ form.mode # "none"

\* Of what is sent, every field is a setting or a secret, and is stored as that.
LEMMA SplitKeepsFields ==
  ASSUME FormInvariant, form.mode # "none", NEW body, Sent \subseteq body
  PROVE  /\ Sent \subseteq Split(form.type, body).configuration \union Split(form.type, body).secrets
         /\ Sent \intersect ConfigurationNames[form.type] \subseteq Split(form.type, body).configuration
         /\ Split(form.type, body).configuration \subseteq ConfigurationNames[form.type] \union {"hasWriteToken"}
<1>1. Sent \subseteq ConfigurationNames[form.type] \union SecretNames[form.type]
  BY OpenForm DEF Sent, ToPayload, TablesAgree
<1>2. /\ body \intersect ConfigurationNames[form.type] \subseteq Split(form.type, body).configuration
      /\ Split(form.type, body).configuration \subseteq ConfigurationNames[form.type] \union {"hasWriteToken"}
      /\ Split(form.type, body).secrets = body \intersect SecretNames[form.type]
  BY DEF Split
<1> QED BY <1>1, <1>2

LEMMA SavesNew ==
  ASSUME FormInvariant, SaveNew
  PROVE  \E configuration, secrets, checked : SavedAs(configuration, secrets, checked)
<1>1. form.mode # "none" /\ form.type \in FormTypes
  BY OpenForm DEF SaveNew
<1>2. PICK parts : parts = Split(form.type, ParsedCreate(form.type, Sent))
  OBVIOUS
<1>3. kept' = [type |-> form.type, configuration |-> parts.configuration, secrets |-> parts.secrets,
               checked |-> form.filled \intersect Marked(form.type, "checkbox")]
  BY <1>2 DEF SaveNew
<1>4. Sent \subseteq ParsedCreate(form.type, Sent)
  BY DEF ParsedCreate
<1>5. ProbeNeeds[form.type] \subseteq Sent
  BY <1>1, OpenForm DEF SaveNew, CreateAccepts, TablesAgree
<1>6. /\ Sent \subseteq parts.configuration \union parts.secrets
      /\ Sent \intersect ConfigurationNames[form.type] \subseteq parts.configuration
      /\ parts.configuration \subseteq ConfigurationNames[form.type] \union {"hasWriteToken"}
  BY <1>1, <1>2, <1>4, SplitKeepsFields
<1>7. SavedAs(parts.configuration, parts.secrets, form.filled \intersect Marked(form.type, "checkbox"))
  BY <1>1, <1>3, <1>5, <1>6 DEF SavedAs
<1> QED BY <1>7

\* Every checkbox is sent, so nothing of the old flags is left.
LEMMA SavesEdited ==
  ASSUME FormInvariant, SaveEdited
  PROVE  \E configuration, secrets, checked : SavedAs(configuration, secrets, checked)
<1>1. form.mode # "none" /\ form.type \in FormTypes /\ kept.type = form.type /\ form.type # "none"
  BY OpenForm DEF SaveEdited, FormInvariant, FormStands
<1>2. PICK parts : parts = Split(form.type, Sent)
  OBVIOUS
<1>3. PICK checked : checked = (kept.checked \ Sent) \union (form.filled \intersect Sent \intersect Marked(form.type, "checkbox"))
  OBVIOUS
<1>4. PICK configuration : configuration = kept.configuration \union parts.configuration
  OBVIOUS
<1>5. PICK secrets : secrets = kept.secrets \union parts.secrets
  OBVIOUS
<1>6. kept' = [type |-> form.type, configuration |-> configuration, secrets |-> secrets, checked |-> checked]
  <2>1. kept = [type |-> form.type, configuration |-> kept.configuration, secrets |-> kept.secrets, checked |-> kept.checked]
    BY <1>1 DEF FormInvariant, FormStands
  <2>2. kept' = [kept EXCEPT !.configuration = MergedParts(@, Split(form.type, Sent).configuration),
                             !.secrets = MergedParts(@, Split(form.type, Sent).secrets),
                             !.checked = (@ \ Sent) \union (form.filled \intersect Sent \intersect Marked(form.type, "checkbox"))]
    BY Zenon DEF SaveEdited
  <2>3. MergedParts(kept.configuration, Split(form.type, Sent).configuration) = configuration
    BY <1>2, <1>4 DEF MergedParts
  <2>4. MergedParts(kept.secrets, Split(form.type, Sent).secrets) = secrets
    BY <1>2, <1>5 DEF MergedParts
  <2>5. /\ kept'.type = kept.type
        /\ kept'.configuration = MergedParts(kept.configuration, Split(form.type, Sent).configuration)
        /\ kept'.secrets = MergedParts(kept.secrets, Split(form.type, Sent).secrets)
        /\ kept'.checked = checked
        /\ kept' = [type |-> kept'.type, configuration |-> kept'.configuration, secrets |-> kept'.secrets, checked |-> kept'.checked]
    BY <1>3, <2>1, <2>2
  <2> QED BY <1>1, <2>3, <2>4, <2>5
<1>7. checked = form.filled \intersect Marked(form.type, "checkbox")
  <2>1. kept.checked \subseteq Sent /\ form.filled \subseteq Sent
    BY <1>1 DEF Sent, ToPayload, FormInvariant, FormStands
  <2> QED BY <1>3, <2>1
<1>8. /\ Sent \subseteq parts.configuration \union parts.secrets
      /\ Sent \intersect ConfigurationNames[form.type] \subseteq parts.configuration
      /\ parts.configuration \subseteq ConfigurationNames[form.type] \union {"hasWriteToken"}
  BY <1>1, <1>2, SplitKeepsFields
<1>9. /\ ProbeNeeds[form.type] \subseteq kept.configuration \union kept.secrets
      /\ kept.configuration \subseteq ConfigurationNames[form.type] \union {"hasWriteToken"}
  BY <1>1 DEF FormInvariant, FormStands, RowsCanBeProbed
<1>10. SavedAs(configuration, secrets, checked)
  BY <1>1, <1>4, <1>5, <1>6, <1>7, <1>8, <1>9 DEF SavedAs
<1> QED BY <1>10

LEMMA SavesStand ==
  ASSUME FormInvariant, NEW configuration, NEW secrets, NEW checked, SavedAs(configuration, secrets, checked)
  PROVE  /\ form' = NoForm => FormInvariant'
         /\ kept'.type = form.type
         /\ form.filled \subseteq kept'.configuration \union kept'.secrets
         /\ kept'.checked = form.filled \intersect Marked(form.type, "checkbox")
         /\ kept'.configuration \intersect Marked(form.type, "secret") = {}
<1>1. /\ kept'.type = form.type /\ kept'.configuration = configuration
      /\ kept'.secrets = secrets /\ kept'.checked = checked
  BY DEF SavedAs
<1>2. form.filled \subseteq Sent /\ TablesAgree(form.type) /\ form.type \in FormTypes
  BY OpenForm DEF SavedAs, Sent, ToPayload
<1>3. checked \subseteq configuration
  BY <1>2 DEF SavedAs, TablesAgree
<1>4. configuration \intersect Marked(form.type, "secret") = {}
  BY <1>2 DEF SavedAs, TablesAgree
<1>5. form.filled \subseteq kept'.configuration \union kept'.secrets
  BY <1>1, <1>2 DEF SavedAs
<1>6. ASSUME form' = NoForm PROVE FormInvariant'
  <2>1. FormTypeOK'
    BY <1>1, <1>2, <1>3, <1>6 DEF FormTypeOK, NoForm
  <2>2. RowsCanBeProbed'
    BY <1>1 DEF RowsCanBeProbed, SavedAs
  <2>3. FormStands'
    BY <1>1, <1>6 DEF FormStands, SavedAs, NoForm
  <2> QED BY <2>1, <2>2, <2>3 DEF FormInvariant
<1> QED BY <1>1, <1>4, <1>5, <1>6 DEF SavedAs

LEMMA FormCloses ==
  ASSUME FormInvariant, CancelForm \/ RemoveKept
  PROVE  FormInvariant'
<1>1. CASE CancelForm
  BY <1>1 DEF CancelForm, NoForm, FormInvariant, FormTypeOK, RowsCanBeProbed, FormStands
<1>2. CASE RemoveKept
  BY <1>2 DEF RemoveKept, NoneKept, NoForm, FormInvariant, FormTypeOK, RowsCanBeProbed, FormStands
<1> QED BY <1>1, <1>2

LEMMA FormStep == FormInvariant /\ [FormNext]_formVars => FormInvariant'
<1> SUFFICES ASSUME FormInvariant, [FormNext]_formVars PROVE FormInvariant'
  OBVIOUS
<1>1. CASE UNCHANGED formVars
  BY <1>1 DEF formVars, FormInvariant, FormTypeOK, RowsCanBeProbed, FormStands
<1>2. CASE SaveNew \/ SaveEdited
  <2>1. form' = NoForm
    BY <1>2 DEF SaveNew, SaveEdited
  <2> QED BY <1>2, <2>1, SavesNew, SavesEdited, SavesStand
<1> QED BY <1>1, <1>2, FormOpens, FormFills, FormCloses DEF FormNext

\* A new form whose marks are filled has what the schema requires.
LEMMA MarksSuffice == FormInvariant => MarkedFieldsSuffice
<1> SUFFICES ASSUME FormInvariant, form.mode = "create", Marked(form.type, "required") \subseteq form.filled
             PROVE  CreateAccepts(form.type, Sent)
  BY DEF MarkedFieldsSuffice
<1> QED BY OpenForm DEF CreateAccepts, Sent, ToPayload, TablesAgree

\* What a step that stores a row may do.
KeepsWhatIsShown ==
  kept' # kept /\ kept'.type # "none" =>
    /\ form.filled \subseteq kept'.configuration \union kept'.secrets
    /\ kept'.checked = form.filled \intersect Marked(form.type, "checkbox")
    /\ kept'.configuration \intersect Marked(form.type, "secret") = {}

LEMMA SavesKeep == FormInvariant /\ FormNext => KeepsWhatIsShown
<1> SUFFICES ASSUME FormInvariant, FormNext, kept' # kept, kept'.type # "none"
             PROVE  /\ form.filled \subseteq kept'.configuration \union kept'.secrets
                    /\ kept'.checked = form.filled \intersect Marked(form.type, "checkbox")
                    /\ kept'.configuration \intersect Marked(form.type, "secret") = {}
  BY DEF KeepsWhatIsShown
<1>1. SaveNew \/ SaveEdited
  BY DEF FormNext, StartCreateOf, StartEditOf, TestForm, Fill, Blank, CancelForm, RemoveKept, NoneKept
<1>2. PICK configuration, secrets, checked : SavedAs(configuration, secrets, checked)
  BY <1>1, SavesNew, SavesEdited
<1> QED BY <1>2, SavesStand

\* The form is correct: whatever is typed, tested, saved and edited, it asks for enough, and
\* its row can be probed and holds what the form showed.
THEOREM FormPromiseHolds == FormSpec => FormPromise
<1>1. FormInvariant => FormTypeOK /\ MarkedFieldsSuffice /\ RowsCanBeProbed
  BY MarksSuffice DEF FormInvariant
<1>2. FormInvariant /\ [FormNext]_formVars => [KeepsWhatIsShown]_formVars
  BY SavesKeep
<1> QED BY <1>1, <1>2, FormStarts, FormStep, PTL
    DEF FormSpec, FormPromise, SavesKeepWhatIsShown, KeepsWhatIsShown

=============================================================================
