------------------------- MODULE TargetPoolsProofs -------------------------
(***************************************************************************)
(* Proofs that the registry of managed databases gives out open pools      *)
(* only, keeps to the limit of sessions, and leaves old settings in use    *)
(* only where a first use overtook the update.                             *)
(***************************************************************************)
EXTENDS TargetPools, FiniteSetTheorems, TLAPS

----------------------------------------------------------------------------
\* Types of what the actions write.

LEMMA KeyTypes ==
  /\ AnyKey \in PoolKeys /\ AnyKey[1] \in Connections
  /\ \A k \in PoolKeys : k[1] \in Connections
  /\ \A c \in Connections : KeysOf(c) \subseteq PoolKeys /\ \A k \in KeysOf(c) : k[1] = c
<1>1. PICK c : c \in Connections
  BY InstanceAssumption
<1>2. <<c, "ro">> \in PoolKeys
  BY <1>1 DEF PoolKeys, Modes
<1>3. AnyKey \in PoolKeys
  BY <1>2 DEF AnyKey
<1> QED BY <1>3 DEF PoolKeys, KeysOf

LEMMA RecordTypes ==
  /\ NoUse \in Use /\ NoAdmin \in Admin /\ NoReaper \in Reaper
  /\ NoUse.step = "idle" /\ NoAdmin.step = "idle" /\ NoReaper.step = "idle"
  /\ \A k \in PoolKeys, v \in 0 .. MaxVersion, stale \in BOOLEAN : NewPool(k, v, stale) \in Pool
BY KeyTypes, VersionAssumption, SessionAssumption
   DEF NoUse, NoAdmin, NoReaper, NewPool, Use, Admin, Reaper, Pool

LEMMA EndedType ==
  ASSUME PoolsTypeOK, NEW p \in Pools
  PROVE  /\ Ended(p) \in Pool /\ Ended(p).idle = 0 /\ Ended(p).state = "ending"
<1>1. pools[p] \in Pool
  BY DEF PoolsTypeOK
<1>2. \A q \in Pool : [q EXCEPT !.state = "ending", !.idle = 0, !.quiet = FALSE, !.stale = FALSE] \in Pool
  <2> SUFFICES ASSUME NEW q \in Pool
               PROVE  [q EXCEPT !.state = "ending", !.idle = 0, !.quiet = FALSE, !.stale = FALSE] \in Pool
    OBVIOUS
  <2>1. PICK r : r = [q EXCEPT !.state = "ending", !.idle = 0]
    OBVIOUS
  <2>2. r \in Pool
    <3>1. 0 \in 0 .. MaxSessions
      BY SessionAssumption
    <3> QED BY <2>1, <3>1 DEF Pool
  <2>3. [r EXCEPT !.quiet = FALSE, !.stale = FALSE] \in Pool
    BY <2>2 DEF Pool
  <2> QED BY <2>1, <2>3
<1> QED BY <1>1, <1>2 DEF Ended, Pool

----------------------------------------------------------------------------
\* Sessions. What changes the number of a pool's sessions is a use that begins or ends
\* to have one, and a session the pool keeps or closes.

LEMMA UsersAreFinite ==
  \A p : IsFiniteSet(UsersOf(p)) /\ Cardinality(UsersOf(p)) \in Nat
<1> SUFFICES ASSUME NEW p PROVE IsFiniteSet(UsersOf(p)) /\ Cardinality(UsersOf(p)) \in Nat
  OBVIOUS
<1>1. UsersOf(p) \in SUBSET UseSlots
  BY DEF UsersOf
<1>2. IsFiniteSet(UsersOf(p))
  BY <1>1, InstanceAssumption, FS_Subset
<1> QED BY <1>2, FS_CardinalityType

\* Where nobody begins to use the pool and it keeps no more, the limit stays.
LEMMA FewerSessions ==
  ASSUME NEW p \in Pools, Sessions(p) <= MaxSessions, PoolsTypeOK,
         UsersOf(p)' \subseteq UsersOf(p),
         pools'[p].idle \in Nat, pools'[p].idle <= pools[p].idle
  PROVE  Sessions(p)' <= MaxSessions
<1>1. PICK m, n : m = UsersOf(p) /\ n = UsersOf(p)'
  OBVIOUS
<1>2. IsFiniteSet(m) /\ Cardinality(m) \in Nat
  BY <1>1, UsersAreFinite
<1>3. IsFiniteSet(n) /\ Cardinality(n) <= Cardinality(m)
  BY <1>1, <1>2, FS_Subset
<1>4. Cardinality(n) \in Nat
  BY <1>3, FS_CardinalityType
<1>5. pools[p].idle \in Nat
  BY SessionAssumption DEF PoolsTypeOK, Pool
<1>6. Sessions(p) = Cardinality(m) + pools[p].idle /\ Sessions(p)' = Cardinality(n) + pools'[p].idle
  BY <1>1 DEF Sessions
<1> QED BY <1>2, <1>3, <1>4, <1>5, <1>6, SessionAssumption

----------------------------------------------------------------------------
\* Types.

\* What a request at its second statement or later reads of itself.
LEMMA Typed ==
  ASSUME PoolsTypeOK
  PROVE  /\ \A u \in UseSlots : uses[u] \in Use /\ uses[u].key \in PoolKeys
         /\ \A a \in Admins : admins[a] \in Admin /\ admins[a].connection \in Connections
         /\ \A r \in Reapers : reapers[r] \in Reaper
         /\ \A p \in Pools : pools[p] \in Pool /\ pools[p].idle \in Nat
         /\ \A k \in PoolKeys : targets[k] \in Pools \union {NoPool}
         /\ \A c \in Connections : connectionRows[c] \in TargetRow
BY SessionAssumption DEF PoolsTypeOK, Use, Admin, Pool

LEMMA TakeOutTypes ==
  ASSUME PoolsTypeOK, NEW k \in PoolKeys, targets[k] # NoPool, TakeOut(k)
  PROVE  targets' \in [PoolKeys -> Pools \union {NoPool}] /\ pools' \in [Pools -> Pool]
<1>1. targets[k] \in Pools
  BY Typed
<1>2. Ended(targets[k]) \in Pool
  BY <1>1, EndedType
<1> QED BY <1>1, <1>2 DEF TakeOut, PoolsTypeOK

LEMMA AskTypes ==
  ASSUME PoolsTypeOK, NEW u \in UseSlots, NEW k \in PoolKeys, Ask(u, k) PROVE PoolsTypeOK'
<1>1. [NoUse EXCEPT !.step = "asked", !.key = k] \in Use
  BY RecordTypes DEF Use
<1> QED BY <1>1 DEF Ask, PoolsTypeOK

LEMMA UseTypes ==
  ASSUME PoolsTypeOK, SessionsAreLimited, UsesHavePools, NEW u \in UseSlots, UseStep(u)
  PROVE  PoolsTypeOK'
<1> DEFINE use == uses[u]
<1>0. use \in Use /\ use.key \in PoolKeys /\ use.key[1] \in Connections
  BY Typed, KeyTypes
<1>1. CASE FindPool(u)
  <2>1. PICK p : p = targets[use.key]
    OBVIOUS
  <2>2. p \in Pools /\ pools[p] \in Pool
    BY <1>0, <1>1, <2>1, Typed DEF FindPool
  <2>3. [use EXCEPT !.step = "holding", !.pool = p] \in Use
    BY <1>0, <2>2 DEF Use
  <2>4. [pools[p] EXCEPT !.quiet = FALSE] \in Pool
    BY <2>2 DEF Pool
  <2>5. /\ pools' = [pools EXCEPT ![p] = [pools[p] EXCEPT !.quiet = FALSE]]
        /\ uses' = [uses EXCEPT ![u] = [use EXCEPT !.step = "holding", !.pool = p]]
    BY <1>1, <2>1 DEF FindPool
  <2>6. pools' \in [Pools -> Pool] /\ uses' \in [UseSlots -> Use]
    BY <2>2, <2>3, <2>4, <2>5 DEF PoolsTypeOK
  <2> QED BY <1>1, <2>6 DEF FindPool, PoolsTypeOK
<1>2. CASE MissPool(u)
  <2>1. [use EXCEPT !.step = "loading"] \in Use
    BY <1>0 DEF Use
  <2> QED BY <1>2, <2>1 DEF MissPool, PoolsTypeOK
<1>3. CASE LoadRow(u)
  <2>1. PICK version : version = connectionRows[use.key[1]].version
    OBVIOUS
  <2>2. version \in 0 .. MaxVersion
    BY <1>0, <2>1, Typed DEF TargetRow
  <2>3. [use EXCEPT !.step = "creating", !.version = version] \in Use
    BY <1>0, <2>2 DEF Use
  <2>4. uses' = [uses EXCEPT ![u] = [use EXCEPT !.step = "creating", !.version = version]]
    BY <1>3, <2>1 DEF LoadRow
  <2> QED BY <1>3, <2>3, <2>4 DEF LoadRow, PoolsTypeOK
<1>4. CASE LoadRowFails(u) \/ ConnectFails(u)
  BY <1>4, RecordTypes DEF LoadRowFails, ConnectFails, PoolsTypeOK
<1>5. CASE CreatePool(u)
  <2>1. PICK p \in Pools, new \in Pool :
          /\ pools' = [pools EXCEPT ![p] = new]
          /\ targets' = [targets EXCEPT ![use.key] = p]
          /\ uses' = [uses EXCEPT ![u] = [use EXCEPT !.step = "holding", !.pool = p]]
    <3> DEFINE p == CHOOSE q \in Pools : pools[q].state = "unused"
               new == NewPool(use.key, use.version,
                        connectionRows[use.key[1]] # [state |-> "saved", version |-> use.version])
    <3>1. p \in Pools
      BY <1>5 DEF CreatePool
    <3>2. use.version \in 0 .. MaxVersion
      BY <1>0 DEF Use
    <3>3. new \in Pool
      BY <1>0, <3>2, RecordTypes
    <3>4. /\ pools' = [pools EXCEPT ![p] = new]
          /\ targets' = [targets EXCEPT ![use.key] = p]
          /\ uses' = [uses EXCEPT ![u] = [use EXCEPT !.step = "holding", !.pool = p]]
      BY <1>5 DEF CreatePool
    <3> QED BY <3>1, <3>3, <3>4
  <2>2. [use EXCEPT !.step = "holding", !.pool = p] \in Use
    BY <1>0, <2>1 DEF Use
  <2>3. /\ pools' \in [Pools -> Pool] /\ uses' \in [UseSlots -> Use]
        /\ targets' \in [PoolKeys -> Pools \union {NoPool}]
    BY <1>0, <2>1, <2>2 DEF PoolsTypeOK
  <2> QED BY <1>5, <2>3 DEF CreatePool, PoolsTypeOK
<1>6. CASE Connect(u)
  <2>1. PICK p : p = use.pool
    OBVIOUS
  <2>2. p \in Pools
    BY <1>0, <1>6, <2>1 DEF Connect, UsesHavePools, Use
  <2>3. [use EXCEPT !.step = "using"] \in Use
    BY <1>0 DEF Use
  <2>4. pools' \in [Pools -> Pool]
    <3>1. CASE pools[p].idle > 0 /\ pools' = [pools EXCEPT ![p].idle = @ - 1]
      <4>1. [pools[p] EXCEPT !.idle = @ - 1] \in Pool
        BY <2>2, <3>1, Typed, SessionAssumption DEF Pool
      <4> QED BY <2>2, <3>1, <4>1 DEF PoolsTypeOK
    <3>2. CASE UNCHANGED pools
      BY <3>2 DEF PoolsTypeOK
    <3> QED BY <1>6, <2>1, <3>1, <3>2 DEF Connect
  <2> QED BY <1>6, <2>3, <2>4 DEF Connect, PoolsTypeOK
<1>7. CASE GiveBack(u)
  <2>1. PICK p : p = use.pool
    OBVIOUS
  <2>2. p \in Pools /\ u \in UsersOf(p)
    BY <1>0, <1>7, <2>1 DEF GiveBack, UsesHavePools, Use, UsersOf
  <2>3. pools[p].idle + 1 \in 0 .. MaxSessions
    <3>1. Cardinality(UsersOf(p)) # 0
      BY <2>2, UsersAreFinite, FS_EmptySet
    <3>2. pools[p].idle \in Nat /\ Cardinality(UsersOf(p)) \in Nat
      BY <2>2, Typed, UsersAreFinite
    <3>3. Cardinality(UsersOf(p)) + pools[p].idle <= MaxSessions
      BY <2>2 DEF SessionsAreLimited, Sessions
    <3> QED BY <3>1, <3>2, <3>3, SessionAssumption
  <2>4. pools' \in [Pools -> Pool]
    <3>1. [pools[p] EXCEPT !.idle = @ + 1] \in Pool
      BY <2>2, <2>3, Typed DEF Pool
    <3> QED BY <1>7, <2>1, <2>2, <3>1 DEF GiveBack, PoolsTypeOK
  <2> QED BY <1>7, <2>4, RecordTypes DEF GiveBack, PoolsTypeOK
<1> QED BY <1>1, <1>2, <1>3, <1>4, <1>5, <1>6, <1>7 DEF UseStep

LEMMA AdminTypes ==
  ASSUME PoolsTypeOK, NEW a \in Admins, AdminStep(a)
  PROVE  PoolsTypeOK'
<1> DEFINE admin == admins[a]
<1>0. admin \in Admin /\ admin.connection \in Connections
  BY Typed
<1>1. CASE SealCredential(a)
  <2>1. PICK c \in Connections : connectionRows' = [connectionRows EXCEPT ![c].state = "saved"]
    BY <1>0, <1>1 DEF SealCredential
  <2>2. [connectionRows[c] EXCEPT !.state = "saved"] \in TargetRow
    BY Typed DEF TargetRow
  <2> QED BY <1>1, <2>1, <2>2, RecordTypes DEF SealCredential, AdminAt, PoolsTypeOK
<1>2. CASE WriteTarget(a)
  <2>1. [admin EXCEPT !.step = "closing"] \in Admin
    BY <1>0 DEF Admin
  <2>2. connectionRows' \in [Connections -> TargetRow]
    <3>1. CASE UNCHANGED connectionRows
      BY <3>1 DEF PoolsTypeOK
    <3>2. ASSUME connectionRows[admin.connection].version < MaxVersion,
                 NEW state \in {connectionRows[admin.connection].state, "saved"},
                 connectionRows' = [connectionRows EXCEPT ![admin.connection] =
                                      [state |-> state, version |-> @.version + 1]]
          PROVE  connectionRows' \in [Connections -> TargetRow]
      <4>1. PICK row : row = connectionRows[admin.connection]
        OBVIOUS
      <4>2. row \in TargetRow /\ row.version \in 0 .. MaxVersion
        BY <1>0, <4>1, Typed DEF TargetRow
      <4>3. row.version + 1 \in 0 .. MaxVersion
        BY <3>2, <4>1, <4>2, VersionAssumption
      <4>4. [state |-> state, version |-> row.version + 1] \in TargetRow
        BY <3>2, <4>1, <4>2, <4>3 DEF TargetRow
      <4> QED BY <1>0, <3>2, <4>1, <4>4 DEF PoolsTypeOK
    <3> QED BY <1>2, <3>1, <3>2 DEF WriteTarget
  <2> QED BY <1>2, <2>1, <2>2 DEF WriteTarget, AdminAt, PoolsTypeOK
<1>3. CASE CloseOne(a)
  <2>1. PICK k \in KeysOf(admin.connection) :
          /\ targets[k] # NoPool /\ TakeOut(k)
          /\ AdminAt(a, [admin EXCEPT !.step = "ending", !.pool = targets[k]])
    BY <1>3 DEF CloseOne
  <2>2. k \in PoolKeys
    BY <1>0, <2>1, KeyTypes
  <2>3. targets' \in [PoolKeys -> Pools \union {NoPool}] /\ pools' \in [Pools -> Pool]
    BY <2>1, <2>2, TakeOutTypes
  <2>4. [admin EXCEPT !.step = "ending", !.pool = targets[k]] \in Admin
    <3>1. PICK p : p = targets[k]
      OBVIOUS
    <3>2. p \in Pools \union {NoPool}
      BY <2>2, <3>1, Typed
    <3>3. [admin EXCEPT !.step = "ending", !.pool = p] \in Admin
      BY <1>0, <3>2 DEF Admin
    <3> QED BY <3>1, <3>3
  <2> QED BY <1>3, <2>1, <2>3, <2>4 DEF CloseOne, AdminAt, PoolsTypeOK
<1>4. CASE PoolHasEnded(a)
  <2>1. [admin EXCEPT !.step = "closing", !.pool = NoPool] \in Admin
    BY <1>0 DEF Admin
  <2> QED BY <1>4, <2>1 DEF PoolHasEnded, AdminAt, PoolsTypeOK
<1>5. CASE EndClosing(a)
  <2>1. [connectionRows[admin.connection] EXCEPT !.state = "deleted"] \in TargetRow
    BY <1>0, Typed DEF TargetRow
  <2>2. connectionRows' \in [Connections -> TargetRow]
    BY <1>0, <1>5, <2>1 DEF EndClosing, PoolsTypeOK
  <2> QED BY <1>5, <2>2, RecordTypes DEF EndClosing, AdminAt, PoolsTypeOK
<1>6. CASE AdminFails(a)
  BY <1>6, RecordTypes DEF AdminFails, AdminAt, PoolsTypeOK
<1> QED BY <1>1, <1>2, <1>3, <1>4, <1>5, <1>6 DEF AdminStep

LEMMA BeginTypes ==
  ASSUME PoolsTypeOK, NEW a \in Admins, NEW c \in Connections,
         InsertPlaceholder(a, c) \/ BeginUpdate(a, c) \/ BeginDelete(a, c)
  PROVE  PoolsTypeOK'
<1>1. CASE InsertPlaceholder(a, c)
  <2>1. [NoAdmin EXCEPT !.step = "seal", !.connection = c] \in Admin
    BY RecordTypes DEF Admin
  <2>2. [connectionRows[c] EXCEPT !.state = "pending"] \in TargetRow
    BY Typed DEF TargetRow
  <2> QED BY <1>1, <2>1, <2>2 DEF InsertPlaceholder, AdminAt, PoolsTypeOK
<1>2. CASE BeginUpdate(a, c)
  BY <1>2 DEF BeginUpdate, AdminAt, PoolsTypeOK, Admin
<1>3. CASE BeginDelete(a, c)
  BY <1>3 DEF BeginDelete, AdminAt, PoolsTypeOK, Admin
<1> QED BY <1>1, <1>2, <1>3

LEMMA ReaperTypes ==
  ASSUME PoolsTypeOK, NEW r \in Reapers, BeginReaping(r) \/ ReaperStep(r)
  PROVE  PoolsTypeOK'
<1>0. reapers[r] \in Reaper
  BY Typed
<1>1. CASE BeginReaping(r)
  <2>1. PICK due : due = {p \in Pools : pools[p].quiet /\ Mapped(p)}
    OBVIOUS
  <2>2. [NoReaper EXCEPT !.step = "reaping", !.due = due] \in Reaper
    BY <2>1, RecordTypes DEF Reaper
  <2> QED BY <1>1, <2>1, <2>2 DEF BeginReaping, PoolsTypeOK
<1>2. CASE ReapOne(r)
  <2>1. PICK k \in PoolKeys, p \in Pools :
          /\ p = targets[k] /\ TakeOut(k)
          /\ reapers' = [reapers EXCEPT ![r] = [reapers[r] EXCEPT !.step = "ending", !.pool = p]]
    <3>1. PICK k \in PoolKeys :
            /\ targets[k] # NoPool /\ TakeOut(k)
            /\ reapers' = [reapers EXCEPT ![r].step = "ending", ![r].pool = targets[k]]
      BY <1>2 DEF ReapOne, IsDue
    <3>2. targets[k] \in Pools
      BY <3>1, Typed
    <3> QED BY <3>1, <3>2
  <2>2. targets' \in [PoolKeys -> Pools \union {NoPool}] /\ pools' \in [Pools -> Pool]
    BY <2>1, TakeOutTypes, NoPoolAssumption
  <2>3. [reapers[r] EXCEPT !.step = "ending", !.pool = p] \in Reaper
    BY <1>0, <2>1 DEF Reaper
  <2>4. reapers' \in [Reapers -> Reaper]
    BY <2>1, <2>3 DEF PoolsTypeOK
  <2> QED BY <1>2, <2>2, <2>4 DEF ReapOne, PoolsTypeOK
<1>3. CASE ReapedHasEnded(r)
  <2>1. [reapers[r] EXCEPT !.step = "reaping", !.pool = NoPool] \in Reaper
    BY <1>0 DEF Reaper
  <2> QED BY <1>3, <2>1 DEF ReapedHasEnded, PoolsTypeOK
<1>4. CASE EndReaping(r)
  BY <1>4, RecordTypes DEF EndReaping, PoolsTypeOK
<1> QED BY <1>1, <1>2, <1>3, <1>4 DEF ReaperStep

LEMMA OtherTypes ==
  ASSUME PoolsTypeOK,
         BeginShutdown \/ CloseAll \/ \E p \in Pools : ExpireSession(p) \/ GetsQuiet(p)
  PROVE  PoolsTypeOK'
<1>1. CASE BeginShutdown
  BY <1>1 DEF BeginShutdown, PoolsTypeOK
<1>2. CASE CloseAll
  <2>1. \A p \in Pools : Ended(p) \in Pool /\ pools[p] \in Pool
    BY EndedType, Typed
  <2>2. pools' \in [Pools -> Pool]
    BY <1>2, <2>1 DEF CloseAll
  <2>3. targets' \in [PoolKeys -> Pools \union {NoPool}]
    BY <1>2 DEF CloseAll
  <2> QED BY <1>2, <2>2, <2>3 DEF CloseAll, PoolsTypeOK
<1>3. ASSUME NEW p \in Pools, ExpireSession(p) PROVE PoolsTypeOK'
  <2>1. pools[p].idle - 1 \in 0 .. MaxSessions
    <3>1. pools[p].idle \in 0 .. MaxSessions
      BY Typed DEF Pool
    <3> QED BY <1>3, <3>1, SessionAssumption DEF ExpireSession
  <2>2. [pools[p] EXCEPT !.idle = @ - 1] \in Pool
    BY <2>1, Typed DEF Pool
  <2> QED BY <1>3, <2>2 DEF ExpireSession, PoolsTypeOK
<1>4. ASSUME NEW p \in Pools, GetsQuiet(p) PROVE PoolsTypeOK'
  <2>1. [pools[p] EXCEPT !.quiet = TRUE] \in Pool
    BY Typed DEF Pool
  <2> QED BY <1>4, <2>1 DEF GetsQuiet, PoolsTypeOK
<1> QED BY <1>1, <1>2, <1>3, <1>4

LEMMA PoolTypesStep == PoolsInvariant /\ [PoolsNext]_poolVars => PoolsTypeOK'
<1> SUFFICES ASSUME PoolsInvariant, [PoolsNext]_poolVars PROVE PoolsTypeOK'
  OBVIOUS
<1>1. CASE UNCHANGED poolVars
  BY <1>1 DEF poolVars, PoolsInvariant, PoolsTypeOK
<1> QED BY <1>1, AskTypes, UseTypes, AdminTypes, BeginTypes, ReaperTypes, OtherTypes
        DEF PoolsNext, PoolsInvariant

----------------------------------------------------------------------------
\* What a step does to the map, the pools and the uses, in four kinds.

\* The pools stay what they are, but for the sessions they keep.
SamePools ==
  /\ targets' = targets
  /\ \A p \in Pools : /\ pools'[p].state = pools[p].state /\ pools'[p].key = pools[p].key
                      /\ pools'[p].version = pools[p].version /\ pools'[p].stale = pools[p].stale

\* A pool at a key is taken out and ended; nobody begins to use one.
OneTakenOut == \E k \in PoolKeys : targets[k] # NoPool /\ TakeOut(k)

ReapSteps(r) == BeginReaping(r) \/ ReaperStep(r)

LEMMA ReaperKinds ==
  ASSUME NEW r \in Reapers, ReapSteps(r)
  PROVE  /\ UNCHANGED <<connectionRows, uses, admins>>
         /\ UNCHANGED <<targets, pools>> \/ OneTakenOut
BY DEF ReapSteps, BeginReaping, ReaperStep, ReapOne, IsDue, ReapedHasEnded, EndReaping, OneTakenOut

\* A request that changes the connection goes on: its rows, or a pool, or neither.
LEMMA AdminKinds ==
  ASSUME PoolsTypeOK, NEW a \in Admins, AdminStep(a)
  PROVE  /\ UNCHANGED uses
         /\ UNCHANGED <<targets, pools>> \/ (OneTakenOut /\ UNCHANGED connectionRows)
<1>1. CASE CloseOne(a)
  <2>1. \A k \in KeysOf(admins[a].connection) : k \in PoolKeys
    BY Typed, KeyTypes
  <2> QED BY <1>1, <2>1 DEF CloseOne, OneTakenOut
<1>2. SealCredential(a) \/ WriteTarget(a) => targets' = targets /\ pools' = pools /\ uses' = uses
  BY DEF SealCredential, WriteTarget
<1>3. PoolHasEnded(a) \/ EndClosing(a) \/ AdminFails(a) => targets' = targets /\ pools' = pools /\ uses' = uses
  BY DEF PoolHasEnded, EndClosing, AdminFails
<1> QED BY <1>1, <1>2, <1>3 DEF AdminStep

LEMMA SamePoolsWhere ==
  ASSUME PoolsTypeOK, targets' = targets, NEW p \in Pools, NEW new,
         pools' = [pools EXCEPT ![p] = new],
         new.state = pools[p].state, new.key = pools[p].key,
         new.version = pools[p].version, new.stale = pools[p].stale
  PROVE  SamePools
BY DEF PoolsTypeOK, SamePools

\* A use that creates no pool leaves all of them what they are.
LEMMA UseKinds ==
  ASSUME PoolsTypeOK, UsesHavePools, NEW u \in UseSlots, UseStep(u)
  PROVE  CreatePool(u) \/ SamePools
<1>1. CASE FindPool(u)
  <2>1. PICK p : p = targets[uses[u].key]
    OBVIOUS
  <2>2. p \in Pools /\ pools[p] \in Pool
    BY <1>1, <2>1, Typed DEF FindPool
  <2>3. PICK new : new = [pools[p] EXCEPT !.quiet = FALSE]
    OBVIOUS
  <2>4. /\ new.state = pools[p].state /\ new.key = pools[p].key
        /\ new.version = pools[p].version /\ new.stale = pools[p].stale
    BY <2>2, <2>3 DEF Pool
  <2>5. targets' = targets /\ pools' = [pools EXCEPT ![p] = new]
    BY <1>1, <2>1, <2>3 DEF FindPool
  <2> QED BY <2>2, <2>4, <2>5, SamePoolsWhere
<1>2. CASE Connect(u) \/ GiveBack(u)
  <2>1. PICK p : p = uses[u].pool
    OBVIOUS
  <2>2. p \in Pools /\ pools[p] \in Pool
    BY <1>2, <2>1, Typed DEF Connect, GiveBack, UsesHavePools, Use
  <2>3. CASE UNCHANGED pools
    BY <1>2, <2>3 DEF Connect, GiveBack, SamePools
  <2>4. CASE \E n : pools' = [pools EXCEPT ![p].idle = n]
    <3>1. PICK n : pools' = [pools EXCEPT ![p].idle = n]
      BY <2>4
    <3>2. PICK new : new = [pools[p] EXCEPT !.idle = n]
      OBVIOUS
    <3>3. /\ new.state = pools[p].state /\ new.key = pools[p].key
          /\ new.version = pools[p].version /\ new.stale = pools[p].stale
      BY <2>2, <3>2 DEF Pool
    <3>4. targets' = targets /\ pools' = [pools EXCEPT ![p] = new]
      BY <1>2, <3>1, <3>2 DEF Connect, GiveBack
    <3> QED BY <2>2, <3>3, <3>4, SamePoolsWhere
  <2> QED BY <1>2, <2>1, <2>3, <2>4 DEF Connect, GiveBack
<1> QED BY <1>1, <1>2 DEF UseStep, MissPool, LoadRow, LoadRowFails, ConnectFails, SamePools

LEMMA TimerKinds ==
  ASSUME PoolsTypeOK, NEW p \in Pools, ExpireSession(p) \/ GetsQuiet(p)
  PROVE  SamePools /\ UNCHANGED <<connectionRows, uses, admins>>
<1>1. pools[p] \in Pool
  BY Typed
<1>2. CASE ExpireSession(p)
  <2>1. PICK new : new = [pools[p] EXCEPT !.idle = @ - 1]
    OBVIOUS
  <2>2. /\ new.state = pools[p].state /\ new.key = pools[p].key
        /\ new.version = pools[p].version /\ new.stale = pools[p].stale
    BY <1>1, <2>1 DEF Pool
  <2> QED BY <1>2, <2>1, <2>2, SamePoolsWhere DEF ExpireSession
<1>3. CASE GetsQuiet(p)
  <2>1. PICK new : new = [pools[p] EXCEPT !.quiet = TRUE]
    OBVIOUS
  <2>2. /\ new.state = pools[p].state /\ new.key = pools[p].key
        /\ new.version = pools[p].version /\ new.stale = pools[p].stale
    BY <1>1, <2>1 DEF Pool
  <2> QED BY <1>3, <2>1, <2>2, SamePoolsWhere DEF GetsQuiet
<1> QED BY <1>2, <1>3

\* A pool nobody has used yet takes the place of whatever is at its key.
LEMMA CreateKinds ==
  ASSUME PoolsTypeOK, NEW u \in UseSlots, CreatePool(u)
  PROVE  \E p \in Pools, k \in PoolKeys, new \in Pool :
           /\ pools[p].state = "unused" /\ k = uses[u].key
           /\ pools' = [pools EXCEPT ![p] = new] /\ targets' = [targets EXCEPT ![k] = p]
           /\ uses' = [uses EXCEPT ![u].step = "holding", ![u].pool = p]
           /\ new.state = "open" /\ new.key = k /\ new.idle = 0
           /\ new.version # connectionRows[k[1]].version => new.stale
<1> DEFINE use == uses[u]
           row == connectionRows[use.key[1]]
           stale == row # [state |-> "saved", version |-> use.version]
           p == CHOOSE q \in Pools : pools[q].state = "unused"
           new == NewPool(use.key, use.version, stale)
<1>1. p \in Pools /\ pools[p].state = "unused"
  BY DEF CreatePool
<1>2. use \in Use /\ use.key \in PoolKeys /\ use.version \in 0 .. MaxVersion
  BY Typed DEF Use
<1>3. new \in Pool
  BY <1>2, RecordTypes
<1>4. new.state = "open" /\ new.key = use.key /\ new.idle = 0
  BY DEF NewPool
<1>5. new.version # row.version => new.stale
  <2>1. new.version = use.version /\ new.stale = stale
    BY DEF NewPool
  <2>2. ~stale => row.version = use.version
    OBVIOUS
  <2> QED BY <2>1, <2>2
<1>6. /\ pools' = [pools EXCEPT ![p] = new] /\ targets' = [targets EXCEPT ![use.key] = p]
      /\ uses' = [uses EXCEPT ![u].step = "holding", ![u].pool = p]
  BY DEF CreatePool
<1> HIDE DEF p, new, stale
<1> QED BY <1>1, <1>2, <1>3, <1>4, <1>5, <1>6

----------------------------------------------------------------------------
\* The map holds open pools, each at its own key.

LEMMA MappedLasts ==
  ASSUME PoolsTypeOK, MappedPoolsAreOpen, SamePools PROVE MappedPoolsAreOpen'
BY Typed DEF MappedPoolsAreOpen, SamePools

LEMMA EndedFields ==
  ASSUME PoolsTypeOK, MappedPoolsAreOpen, NEW k \in PoolKeys, targets[k] # NoPool, TakeOut(k)
  PROVE  /\ targets'[k] = NoPool
         /\ pools'[targets[k]].state = "ending" /\ pools'[targets[k]].idle = 0
         /\ \A p \in Pools : p # targets[k] => pools'[p] = pools[p]
         /\ \A j \in PoolKeys : j # k => /\ targets'[j] = targets[j]
                                         /\ targets[j] # NoPool => pools'[targets[j]] = pools[targets[j]]
<1>1. PICK p : p = targets[k]
  OBVIOUS
<1>2. p \in Pools /\ Ended(p).idle = 0 /\ Ended(p).state = "ending"
  BY <1>1, Typed, EndedType
<1>3. pools' = [pools EXCEPT ![p] = Ended(p)] /\ targets' = [targets EXCEPT ![k] = NoPool]
  BY <1>1 DEF TakeOut
<1>4. \A j \in PoolKeys : j # k /\ targets[j] # NoPool => targets[j] # p /\ targets[j] \in Pools
  BY <1>1, Typed DEF MappedPoolsAreOpen
<1>5. /\ targets'[k] = NoPool /\ pools'[p] = Ended(p)
      /\ \A j \in PoolKeys : j # k => targets'[j] = targets[j]
      /\ \A q \in Pools : q # p => pools'[q] = pools[q]
  BY <1>2, <1>3 DEF PoolsTypeOK
<1> HIDE DEF Ended
<1> QED BY <1>1, <1>2, <1>4, <1>5

LEMMA MappedAfterTakeOut ==
  ASSUME PoolsTypeOK, MappedPoolsAreOpen, OneTakenOut PROVE MappedPoolsAreOpen'
<1>1. PICK k \in PoolKeys : targets[k] # NoPool /\ TakeOut(k)
  BY DEF OneTakenOut
<1> QED BY <1>1, EndedFields DEF MappedPoolsAreOpen

LEMMA MappedAfterCreate ==
  ASSUME PoolsTypeOK, MappedPoolsAreOpen, NEW u \in UseSlots, CreatePool(u)
  PROVE  MappedPoolsAreOpen'
<1>1. PICK p \in Pools, k \in PoolKeys, new \in Pool :
        /\ pools[p].state = "unused" /\ k = uses[u].key
        /\ pools' = [pools EXCEPT ![p] = new] /\ targets' = [targets EXCEPT ![k] = p]
        /\ uses' = [uses EXCEPT ![u].step = "holding", ![u].pool = p]
        /\ new.state = "open" /\ new.key = k /\ new.idle = 0
        /\ new.version # connectionRows[k[1]].version => new.stale
  BY CreateKinds
<1>2. \A j \in PoolKeys : targets[j] # NoPool => targets[j] # p /\ targets[j] \in Pools
  BY <1>1, Typed DEF MappedPoolsAreOpen
<1>3. /\ targets'[k] = p /\ pools'[p] = new
      /\ \A j \in PoolKeys : j # k => targets'[j] = targets[j]
      /\ \A q \in Pools : q # p => pools'[q] = pools[q]
  BY <1>1 DEF PoolsTypeOK
<1> QED BY <1>1, <1>2, <1>3 DEF MappedPoolsAreOpen

----------------------------------------------------------------------------
\* Uses and registered connections.

\* No row becomes unused again.
LEMMA RegisteredStay ==
  ASSUME PoolsTypeOK, [PoolsNext]_poolVars, NEW c \in Connections,
         connectionRows[c].state # "unused"
  PROVE  connectionRows'[c].state # "unused"
<1>1. ASSUME NEW a \in Admins, NEW d \in Connections, InsertPlaceholder(a, d)
      PROVE  connectionRows'[c].state # "unused"
  BY <1>1, Typed DEF InsertPlaceholder, PoolsTypeOK
<1>2. ASSUME NEW a \in Admins, AdminStep(a) PROVE connectionRows'[c].state # "unused"
  <2>0. admins[a].connection \in Connections /\ connectionRows[c] \in TargetRow
    BY Typed
  <2>1. CASE SealCredential(a)
    BY <2>0, <2>1 DEF SealCredential, PoolsTypeOK, TargetRow
  <2>2. CASE WriteTarget(a)
    BY <2>0, <2>2 DEF WriteTarget, PoolsTypeOK, TargetRow
  <2>3. CASE EndClosing(a)
    BY <2>0, <2>3 DEF EndClosing, PoolsTypeOK, TargetRow
  <2>4. CASE CloseOne(a) \/ PoolHasEnded(a) \/ AdminFails(a)
    BY <2>4 DEF CloseOne, PoolHasEnded, AdminFails
  <2> QED BY <1>2, <2>1, <2>2, <2>3, <2>4 DEF AdminStep
<1>3. CASE \E u \in UseSlots : UseStep(u) \/ \E k \in PoolKeys : Ask(u, k)
  BY <1>3 DEF UseStep, Ask, FindPool, MissPool, LoadRow, LoadRowFails, CreatePool, Connect,
              ConnectFails, GiveBack
<1>4. CASE \E r \in Reapers : BeginReaping(r) \/ ReaperStep(r)
  BY <1>4, ReaperKinds DEF ReapSteps
<1>5. CASE \E p \in Pools : ExpireSession(p) \/ GetsQuiet(p)
  BY <1>5 DEF ExpireSession, GetsQuiet
<1> QED BY <1>1, <1>2, <1>3, <1>4, <1>5
        DEF PoolsNext, poolVars, BeginUpdate, BeginDelete, BeginShutdown, CloseAll

\* A use as it may stand in its slot, while rows only get registered.
UseFits(use) ==
  /\ use.step \in {"holding", "using"} => use.pool # NoPool
  /\ use.step # "idle" => connectionRows[use.key[1]].state # "unused"

LEMMA NewUseFits ==
  ASSUME PoolsTypeOK, UsesHavePools, NEW u \in UseSlots,
         UseStep(u) \/ \E k \in PoolKeys : Ask(u, k)
  PROVE  UseFits(uses'[u]) /\ \A v \in UseSlots \ {u} : uses'[v] = uses[v]
<1> DEFINE use == uses[u]
<1>0. use \in Use /\ use.key \in PoolKeys /\ use.key[1] \in Connections
  BY Typed, KeyTypes
<1>1. \A k \in PoolKeys : Ask(u, k) => UseFits(uses'[u]) /\ \A v \in UseSlots \ {u} : uses'[v] = uses[v]
  <2> SUFFICES ASSUME NEW k \in PoolKeys, Ask(u, k)
               PROVE  UseFits(uses'[u]) /\ \A v \in UseSlots \ {u} : uses'[v] = uses[v]
    OBVIOUS
  <2>1. PICK new : new = [NoUse EXCEPT !.step = "asked", !.key = k]
    OBVIOUS
  <2>2. new.step = "asked" /\ new.key = k
    BY <2>1, RecordTypes DEF Use
  <2>3. uses'[u] = new /\ \A v \in UseSlots \ {u} : uses'[v] = uses[v]
    BY <2>1 DEF Ask, PoolsTypeOK
  <2>4. connectionRows[k[1]].state # "unused"
    BY DEF Ask, Exists
  <2> QED BY <2>2, <2>3, <2>4 DEF UseFits
<1>2. CASE LoadRowFails(u) \/ ConnectFails(u) \/ GiveBack(u)
  <2>1. uses' = [uses EXCEPT ![u] = NoUse]
    BY <1>2 DEF LoadRowFails, ConnectFails, GiveBack
  <2> QED BY <2>1, RecordTypes DEF UseFits, PoolsTypeOK
<1>3. ASSUME NEW p \in Pools, uses' = [uses EXCEPT ![u].step = "holding", ![u].pool = p],
             use.step # "idle"
      PROVE  UseFits(uses'[u]) /\ \A v \in UseSlots \ {u} : uses'[v] = uses[v]
  <2>1. PICK new : new = [use EXCEPT !.step = "holding", !.pool = p]
    OBVIOUS
  <2>2. new.step = "holding" /\ new.pool = p /\ new.key = use.key
    BY <1>0, <2>1 DEF Use
  <2>3. uses'[u] = new /\ \A v \in UseSlots \ {u} : uses'[v] = uses[v]
    BY <1>3, <2>1 DEF PoolsTypeOK
  <2>4. connectionRows[use.key[1]].state # "unused"
    BY <1>3 DEF UsesHavePools
  <2> QED BY <2>2, <2>3, <2>4, NoPoolAssumption DEF UseFits
<1>4. CASE FindPool(u)
  <2>1. PICK p : p = targets[use.key]
    OBVIOUS
  <2>2. p \in Pools
    BY <1>0, <1>4, <2>1, Typed DEF FindPool
  <2> QED BY <1>3, <1>4, <2>1, <2>2 DEF FindPool
<1>5. CASE CreatePool(u)
  <2>1. PICK p \in Pools : uses' = [uses EXCEPT ![u].step = "holding", ![u].pool = p]
    BY <1>5, CreateKinds
  <2> QED BY <1>3, <1>5, <2>1 DEF CreatePool
<1>6. CASE MissPool(u) \/ Connect(u)
  <2>1. PICK step : step \in {"loading", "using"} /\ uses' = [uses EXCEPT ![u].step = step]
                    /\ (step = "using" => use.step = "holding")
    BY <1>6 DEF MissPool, Connect
  <2>2. PICK new : new = [use EXCEPT !.step = step]
    OBVIOUS
  <2>3. new.step = step /\ new.key = use.key /\ new.pool = use.pool
    BY <1>0, <2>2 DEF Use
  <2>4. uses'[u] = new /\ \A v \in UseSlots \ {u} : uses'[v] = uses[v]
    BY <2>1, <2>2 DEF PoolsTypeOK
  <2>5. use.step # "idle"
    BY <1>6 DEF MissPool, Connect
  <2> QED BY <2>1, <2>3, <2>4, <2>5 DEF UseFits, UsesHavePools
<1>7. CASE LoadRow(u)
  <2>1. PICK version : uses' = [uses EXCEPT ![u].step = "creating", ![u].version = version]
    BY <1>7 DEF LoadRow
  <2>2. PICK new : new = [use EXCEPT !.step = "creating", !.version = version]
    OBVIOUS
  <2>3. new.step = "creating" /\ new.key = use.key
    BY <1>0, <2>2 DEF Use
  <2>4. uses'[u] = new /\ \A v \in UseSlots \ {u} : uses'[v] = uses[v]
    BY <2>1, <2>2 DEF PoolsTypeOK
  <2> QED BY <1>7, <2>3, <2>4 DEF UseFits, UsesHavePools, LoadRow
<1> QED BY <1>1, <1>2, <1>4, <1>5, <1>6, <1>7 DEF UseStep

LEMMA StutterKeeps ==
  ASSUME PoolsInvariant, UNCHANGED poolVars PROVE PoolsInvariant'
BY DEF poolVars, PoolsInvariant, PoolsTypeOK, SessionsAreLimited, Sessions, UsersOf, UsesHavePools,
       MappedPoolsAreOpen, OnlyRacingPoolsAreStale, Exists, Closing

\* The four kinds together. Only a use's own steps change what uses there are.
LEMMA Kinds ==
  ASSUME PoolsTypeOK, UsesHavePools, PoolsNext
  PROVE  \/ SamePools
         \/ OneTakenOut /\ UNCHANGED <<connectionRows, uses>>
         \/ \E u \in UseSlots : CreatePool(u)
         \/ CloseAll
<1>1. CASE \E u \in UseSlots : UseStep(u)
  BY <1>1, UseKinds
<1>2. CASE \E u \in UseSlots, k \in PoolKeys : Ask(u, k)
  BY <1>2 DEF Ask, SamePools
<1>3. CASE \E a \in Admins : AdminStep(a)
  BY <1>3, AdminKinds DEF SamePools
<1>4. CASE \E a \in Admins, c \in Connections :
             InsertPlaceholder(a, c) \/ BeginUpdate(a, c) \/ BeginDelete(a, c)
  BY <1>4 DEF InsertPlaceholder, BeginUpdate, BeginDelete, SamePools
<1>5. CASE \E p \in Pools : ExpireSession(p) \/ GetsQuiet(p)
  BY <1>5, TimerKinds
<1>6. CASE \E r \in Reapers : BeginReaping(r) \/ ReaperStep(r)
  BY <1>6, ReaperKinds DEF ReapSteps, SamePools
<1>7. CASE BeginShutdown
  BY <1>7 DEF BeginShutdown, SamePools
<1>8. CASE CloseAll
  BY <1>8
<1> QED BY <1>1, <1>2, <1>3, <1>4, <1>5, <1>6, <1>7, <1>8 DEF PoolsNext

LEMMA MappedPoolsStep == PoolsInvariant /\ PoolsNext => MappedPoolsAreOpen'
<1> SUFFICES ASSUME PoolsInvariant, PoolsNext PROVE MappedPoolsAreOpen'
  OBVIOUS
<1>1. CASE CloseAll
  BY <1>1 DEF CloseAll, MappedPoolsAreOpen
<1> QED BY <1>1, Kinds, MappedLasts, MappedAfterTakeOut, MappedAfterCreate DEF PoolsInvariant

\* Uses begin and go on, or nothing happens to them.
LEMMA UsesChange ==
  ASSUME PoolsNext
  PROVE  \/ UNCHANGED uses
         \/ \E u \in UseSlots : UseStep(u) \/ \E k \in PoolKeys : Ask(u, k)
<1>1. CASE \E a \in Admins : AdminStep(a)
  BY <1>1 DEF AdminStep, SealCredential, WriteTarget, CloseOne, PoolHasEnded, EndClosing, AdminFails
<1>2. CASE \E r \in Reapers : BeginReaping(r) \/ ReaperStep(r)
  BY <1>2, ReaperKinds DEF ReapSteps
<1>3. CASE \E p \in Pools : ExpireSession(p) \/ GetsQuiet(p)
  BY <1>3 DEF ExpireSession, GetsQuiet
<1>4. CASE BeginShutdown \/ CloseAll
  BY <1>4 DEF BeginShutdown, CloseAll
<1>5. CASE \E a \in Admins, c \in Connections :
             InsertPlaceholder(a, c) \/ BeginUpdate(a, c) \/ BeginDelete(a, c)
  BY <1>5 DEF InsertPlaceholder, BeginUpdate, BeginDelete
<1> QED BY <1>1, <1>2, <1>3, <1>4, <1>5 DEF PoolsNext

LEMMA UsesStep == PoolsInvariant /\ PoolsNext => UsesHavePools'
<1> SUFFICES ASSUME PoolsInvariant, PoolsNext PROVE UsesHavePools'
  OBVIOUS
<1>0. PoolsTypeOK /\ UsesHavePools
  BY DEF PoolsInvariant
<1>1. \A c \in Connections : connectionRows[c].state # "unused" => connectionRows'[c].state # "unused"
  BY <1>0, RegisteredStay
<1>2. \A u \in UseSlots : uses'[u].step # "idle" => uses'[u].key[1] \in Connections
  <2>1. uses' \in [UseSlots -> Use]
    BY PoolTypesStep DEF PoolsTypeOK
  <2>2. \A use \in Use : use.key \in PoolKeys
    BY DEF Use
  <2> QED BY <2>1, <2>2, KeyTypes
<1>3. \A u \in UseSlots : UseFits(uses'[u])
  <2>1. \A u \in UseSlots : UseFits(uses[u])
    BY <1>0 DEF UsesHavePools, UseFits
  <2> QED BY <1>0, <2>1, UsesChange, NewUseFits
<1>4. \A k \in PoolKeys : targets'[k] # NoPool => connectionRows[k[1]].state # "unused"
  <2>1. CASE SamePools
    BY <1>0, <2>1 DEF SamePools, UsesHavePools
  <2>2. CASE OneTakenOut
    BY <1>0, <2>2 DEF OneTakenOut, TakeOut, PoolsTypeOK, UsesHavePools
  <2>3. ASSUME NEW u \in UseSlots, CreatePool(u)
        PROVE  \A k \in PoolKeys : targets'[k] # NoPool => connectionRows[k[1]].state # "unused"
    <3>1. uses[u].key \in PoolKeys /\ connectionRows[uses[u].key[1]].state # "unused"
      BY <1>0, <2>3, Typed DEF CreatePool, UsesHavePools
    <3>2. \A k \in PoolKeys : k # uses[u].key => targets'[k] = targets[k]
      BY <2>3 DEF CreatePool
    <3> QED BY <1>0, <3>1, <3>2 DEF UsesHavePools
  <2>4. CASE CloseAll
    BY <2>4 DEF CloseAll
  <2> QED BY <1>0, <2>1, <2>2, <2>3, <2>4, Kinds
<1>5. \A k \in PoolKeys : k[1] \in Connections
  BY KeyTypes
<1> QED BY <1>1, <1>2, <1>3, <1>4, <1>5 DEF UsesHavePools, UseFits

----------------------------------------------------------------------------
\* The limit on sessions.

\* A pool that loses no user and gains none, and keeps no more sessions.
LEMMA SameUsers ==
  ASSUME PoolsInvariant, UNCHANGED uses,
         \A p \in Pools : pools'[p].idle \in Nat /\ pools'[p].idle <= pools[p].idle
  PROVE  SessionsAreLimited'
<1> SUFFICES ASSUME NEW p \in Pools PROVE Sessions(p)' <= MaxSessions
  BY DEF SessionsAreLimited
<1>1. UsersOf(p)' \subseteq UsersOf(p)
  BY DEF UsersOf
<1>2. Sessions(p) <= MaxSessions /\ PoolsTypeOK
  BY DEF PoolsInvariant, SessionsAreLimited
<1> QED BY <1>1, <1>2, FewerSessions

\* A use that neither connects nor gives back: its step before and after is not "using".
LEMMA NotUsing ==
  ASSUME PoolsInvariant, NEW u \in UseSlots, uses'[u].step # "using",
         \A v \in UseSlots \ {u} : uses'[v] = uses[v],
         \A p \in Pools : pools'[p].idle \in Nat /\ pools'[p].idle <= pools[p].idle
  PROVE  SessionsAreLimited'
<1> SUFFICES ASSUME NEW p \in Pools PROVE Sessions(p)' <= MaxSessions
  BY DEF SessionsAreLimited
<1>1. UsersOf(p)' \subseteq UsersOf(p)
  BY DEF UsersOf
<1>2. Sessions(p) <= MaxSessions /\ PoolsTypeOK
  BY DEF PoolsInvariant, SessionsAreLimited
<1> QED BY <1>1, <1>2, FewerSessions

LEMMA LimitedAfterConnect ==
  ASSUME PoolsInvariant, NEW u \in UseSlots, Connect(u) PROVE SessionsAreLimited'
<1> SUFFICES ASSUME NEW q \in Pools PROVE Sessions(q)' <= MaxSessions
  BY DEF SessionsAreLimited
<1>0. PoolsTypeOK /\ Sessions(q) <= MaxSessions
  BY DEF PoolsInvariant, SessionsAreLimited
<1>1. PICK p : p = uses[u].pool
  OBVIOUS
<1>2. uses[u] \in Use /\ p \in Pools
  BY <1>0, <1>1, Typed DEF PoolsInvariant, UsesHavePools, Connect, Use
<1>3. PICK new : new = [uses[u] EXCEPT !.step = "using"]
  OBVIOUS
<1>4. /\ new.step = "using" /\ new.pool = p /\ uses'[u] = new
      /\ \A v \in UseSlots \ {u} : uses'[v] = uses[v]
  BY <1>0, <1>1, <1>2, <1>3 DEF Connect, Use, PoolsTypeOK
<1>5. UsersOf(p)' = UsersOf(p) \union {u} /\ u \notin UsersOf(p)
  BY <1>4 DEF UsersOf, Connect
<1>6. \A o \in Pools \ {p} : UsersOf(o)' = UsersOf(o) /\ pools'[o] = pools[o]
  BY <1>0, <1>1, <1>4 DEF UsersOf, Connect, PoolsTypeOK
<1>7. CASE q = p
  <2>1. PICK m, n : m = UsersOf(p) /\ n = UsersOf(p)'
    OBVIOUS
  <2>2. IsFiniteSet(m) /\ Cardinality(m) \in Nat
    BY <2>1, UsersAreFinite
  <2>3. Cardinality(n) = Cardinality(m) + 1
    BY <1>5, <2>1, <2>2, FS_AddElement
  <2>4. Sessions(p) = Cardinality(m) + pools[p].idle /\ Sessions(p)' = Cardinality(n) + pools'[p].idle
    BY <2>1 DEF Sessions
  <2>5. pools[p].idle \in Nat /\ pools[p] \in Pool
    BY <1>0, <1>2, Typed
  <2>6. \/ pools[p].idle > 0 /\ pools'[p].idle = pools[p].idle - 1
        \/ pools'[p].idle = pools[p].idle /\ Sessions(p) < MaxSessions
    BY <1>0, <1>1, <1>2, <2>5 DEF Connect, PoolsTypeOK, Pool
  <2> QED BY <1>0, <1>7, <2>2, <2>3, <2>4, <2>5, <2>6, SessionAssumption
<1>8. CASE q # p
  <2>1. UsersOf(q)' \subseteq UsersOf(q) /\ pools'[q].idle = pools[q].idle /\ pools[q].idle \in Nat
    BY <1>0, <1>6, <1>8, Typed
  <2> QED BY <1>0, <2>1, FewerSessions
<1> QED BY <1>7, <1>8

LEMMA LimitedAfterGiveBack ==
  ASSUME PoolsInvariant, NEW u \in UseSlots, GiveBack(u) PROVE SessionsAreLimited'
<1> SUFFICES ASSUME NEW q \in Pools PROVE Sessions(q)' <= MaxSessions
  BY DEF SessionsAreLimited
<1>0. PoolsTypeOK /\ Sessions(q) <= MaxSessions
  BY DEF PoolsInvariant, SessionsAreLimited
<1>1. PICK p : p = uses[u].pool
  OBVIOUS
<1>2. uses[u] \in Use /\ p \in Pools
  BY <1>0, <1>1, Typed DEF PoolsInvariant, UsesHavePools, GiveBack, Use
<1>3. uses'[u] = NoUse /\ \A v \in UseSlots \ {u} : uses'[v] = uses[v]
  BY <1>0 DEF GiveBack, PoolsTypeOK
<1>4. UsersOf(p)' = UsersOf(p) \ {u} /\ u \in UsersOf(p)
  BY <1>1, <1>3, RecordTypes DEF UsersOf, GiveBack
<1>5. \A o \in Pools \ {p} : UsersOf(o)' \subseteq UsersOf(o) /\ pools'[o] = pools[o]
  BY <1>0, <1>1, <1>3, RecordTypes DEF UsersOf, GiveBack, PoolsTypeOK
<1>6. CASE q = p
  <2>1. PICK m, n : m = UsersOf(p) /\ n = UsersOf(p)'
    OBVIOUS
  <2>2. IsFiniteSet(m) /\ Cardinality(m) \in Nat
    BY <2>1, UsersAreFinite
  <2>3. IsFiniteSet(n) /\ Cardinality(n) = Cardinality(m) - 1
    BY <1>4, <2>1, <2>2, FS_RemoveElement
  <2>4. Sessions(p) = Cardinality(m) + pools[p].idle /\ Sessions(p)' = Cardinality(n) + pools'[p].idle
    BY <2>1 DEF Sessions
  <2>5. pools[p].idle \in Nat /\ pools[p] \in Pool /\ Cardinality(n) \in Nat
    BY <1>0, <1>2, <2>3, Typed, FS_CardinalityType
  <2>6. pools'[p].idle \in {pools[p].idle, pools[p].idle + 1}
    BY <1>0, <1>1, <1>2, <2>5 DEF GiveBack, PoolsTypeOK, Pool
  <2> QED BY <1>0, <1>6, <2>2, <2>3, <2>4, <2>5, <2>6, SessionAssumption
<1>7. CASE q # p
  <2>1. UsersOf(q)' \subseteq UsersOf(q) /\ pools'[q].idle = pools[q].idle /\ pools[q].idle \in Nat
    BY <1>0, <1>5, <1>7, Typed
  <2> QED BY <1>0, <2>1, FewerSessions
<1> QED BY <1>6, <1>7

\* Pools that keep no more sessions than before.
KeepNoMore == \A p \in Pools : pools'[p].idle \in Nat /\ pools'[p].idle <= pools[p].idle

LEMMA KeepNoMoreWhere ==
  ASSUME PoolsTypeOK, NEW p \in Pools, NEW new, pools' = [pools EXCEPT ![p] = new],
         new.idle \in Nat, new.idle <= pools[p].idle
  PROVE  KeepNoMore
BY Typed DEF PoolsTypeOK, KeepNoMore

LEMMA SameKeepNoMore == PoolsTypeOK /\ UNCHANGED pools => KeepNoMore
BY Typed DEF KeepNoMore

LEMMA LimitedAfterUse ==
  ASSUME PoolsInvariant, NEW u \in UseSlots, UseStep(u) \/ \E k \in PoolKeys : Ask(u, k)
  PROVE  SessionsAreLimited'
<1>0. PoolsTypeOK /\ UsesHavePools /\ uses[u] \in Use /\ uses[u].key \in PoolKeys
  BY Typed DEF PoolsInvariant
<1>1. \A v \in UseSlots \ {u} : uses'[v] = uses[v]
  BY <1>0, NewUseFits
<1>2. CASE Connect(u) \/ GiveBack(u)
  BY <1>2, LimitedAfterConnect, LimitedAfterGiveBack
<1>3. ASSUME uses'[u].step # "using", KeepNoMore PROVE SessionsAreLimited'
  BY <1>1, <1>3, NotUsing DEF KeepNoMore
<1>4. CASE \E k \in PoolKeys : Ask(u, k)
  <2>1. PICK k \in PoolKeys : Ask(u, k)
    BY <1>4
  <2>2. PICK new : new = [NoUse EXCEPT !.step = "asked", !.key = k]
    OBVIOUS
  <2>3. new.step = "asked" /\ uses'[u] = new /\ UNCHANGED pools
    BY <1>0, <2>1, <2>2, RecordTypes DEF Use, Ask, PoolsTypeOK
  <2> QED BY <1>0, <1>3, <2>3, SameKeepNoMore
<1>5. CASE LoadRowFails(u) \/ ConnectFails(u)
  <2>1. uses'[u] = NoUse /\ UNCHANGED pools
    BY <1>0, <1>5 DEF LoadRowFails, ConnectFails, PoolsTypeOK
  <2> QED BY <1>0, <1>3, <2>1, SameKeepNoMore, RecordTypes
<1>6. CASE MissPool(u) \/ LoadRow(u)
  <2>1. uses'[u].step # "using"
    <3>1. PICK step, version : /\ step \in {"loading", "creating"}
                               /\ uses' = [uses EXCEPT ![u].step = step, ![u].version = version]
      <4>1. MissPool(u) => uses' = [uses EXCEPT ![u].step = "loading", ![u].version = uses[u].version]
        BY <1>0 DEF MissPool, PoolsTypeOK, Use
      <4> QED BY <1>6, <4>1 DEF LoadRow
    <3>2. PICK new : new = [uses[u] EXCEPT !.step = step, !.version = version]
      OBVIOUS
    <3>3. new.step = step /\ uses'[u] = new
      BY <1>0, <3>1, <3>2 DEF Use, PoolsTypeOK
    <3> QED BY <3>1, <3>3
  <2> QED BY <1>0, <1>3, <1>6, <2>1, SameKeepNoMore DEF MissPool, LoadRow
<1>7. ASSUME NEW p, uses' = [uses EXCEPT ![u].step = "holding", ![u].pool = p] PROVE uses'[u].step # "using"
  <2>1. PICK new : new = [uses[u] EXCEPT !.step = "holding", !.pool = p]
    OBVIOUS
  <2>2. new.step = "holding" /\ uses'[u] = new
    BY <1>0, <1>7, <2>1 DEF Use, PoolsTypeOK
  <2> QED BY <2>2
<1>8. CASE FindPool(u)
  <2>1. PICK p : p = targets[uses[u].key]
    OBVIOUS
  <2>2. p \in Pools /\ pools[p] \in Pool
    BY <1>0, <1>8, <2>1, Typed DEF FindPool
  <2>3. PICK new : new = [pools[p] EXCEPT !.quiet = FALSE]
    OBVIOUS
  <2>4. new.idle = pools[p].idle /\ pools' = [pools EXCEPT ![p] = new]
    BY <1>8, <2>1, <2>2, <2>3 DEF Pool, FindPool
  <2>5. new.idle \in Nat /\ new.idle <= pools[p].idle
    <3>1. pools[p].idle \in Nat
      BY <1>0, <2>2, Typed
    <3> QED BY <2>4, <3>1
  <2>6. KeepNoMore
    BY <1>0, <2>2, <2>4, <2>5, KeepNoMoreWhere
  <2> QED BY <1>3, <1>7, <1>8, <2>6 DEF FindPool
<1>9. CASE CreatePool(u)
  <2>1. PICK p \in Pools, k \in PoolKeys, new \in Pool :
          /\ pools[p].state = "unused" /\ k = uses[u].key
          /\ pools' = [pools EXCEPT ![p] = new] /\ targets' = [targets EXCEPT ![k] = p]
          /\ uses' = [uses EXCEPT ![u].step = "holding", ![u].pool = p]
          /\ new.state = "open" /\ new.key = k /\ new.idle = 0
          /\ new.version # connectionRows[k[1]].version => new.stale
    BY <1>0, <1>9, CreateKinds
  <2>2. new.idle \in Nat /\ new.idle <= pools[p].idle
    <3>1. pools[p].idle \in Nat
      BY <1>0, <2>1, Typed
    <3> QED BY <2>1, <3>1
  <2>3. pools' = [pools EXCEPT ![p] = new]
    BY <2>1
  <2>4. KeepNoMore
    BY <1>0, <2>2, <2>3, KeepNoMoreWhere
  <2> QED BY <1>3, <1>7, <2>1, <2>4
<1> QED BY <1>2, <1>4, <1>5, <1>6, <1>8, <1>9 DEF UseStep

LEMMA LimitedAfterTakeOut ==
  ASSUME PoolsInvariant, OneTakenOut, UNCHANGED uses PROVE SessionsAreLimited'
<1>1. PICK k \in PoolKeys : targets[k] # NoPool /\ TakeOut(k)
  BY DEF OneTakenOut
<1>2. /\ pools'[targets[k]].idle = 0
      /\ \A p \in Pools : p # targets[k] => pools'[p] = pools[p]
  BY <1>1, EndedFields DEF PoolsInvariant
<1>3. \A p \in Pools : pools[p].idle \in Nat
  BY Typed DEF PoolsInvariant
<1>4. \A p \in Pools : pools'[p].idle \in Nat /\ pools'[p].idle <= pools[p].idle
  BY <1>2, <1>3
<1> QED BY <1>4, SameUsers

LEMMA SessionsStep == PoolsInvariant /\ PoolsNext => SessionsAreLimited'
<1> SUFFICES ASSUME PoolsInvariant, PoolsNext PROVE SessionsAreLimited'
  OBVIOUS
<1>0. PoolsTypeOK /\ \A p \in Pools : pools[p].idle \in Nat
  BY Typed DEF PoolsInvariant
<1>1. ASSUME UNCHANGED uses, KeepNoMore PROVE SessionsAreLimited'
  BY <1>1, SameUsers DEF KeepNoMore
<1>2. CASE \E u \in UseSlots : UseStep(u) \/ \E k \in PoolKeys : Ask(u, k)
  BY <1>2, LimitedAfterUse
<1>3. CASE \E a \in Admins : AdminStep(a)
  BY <1>0, <1>1, <1>3, AdminKinds, LimitedAfterTakeOut, SameKeepNoMore
<1>4. CASE \E a \in Admins, c \in Connections :
             InsertPlaceholder(a, c) \/ BeginUpdate(a, c) \/ BeginDelete(a, c)
  BY <1>0, <1>1, <1>4, SameKeepNoMore DEF InsertPlaceholder, BeginUpdate, BeginDelete
<1>5. CASE \E p \in Pools : ExpireSession(p) \/ GetsQuiet(p)
  <2>1. PICK p \in Pools : ExpireSession(p) \/ GetsQuiet(p)
    BY <1>5
  <2>2. pools[p] \in Pool /\ pools[p].idle \in Nat
    BY <1>0, Typed
  <2>3. KeepNoMore
    <3>1. CASE ExpireSession(p)
      <4>1. PICK new : new = [pools[p] EXCEPT !.idle = @ - 1]
        OBVIOUS
      <4>2. new.idle \in Nat /\ new.idle <= pools[p].idle
        BY <2>2, <3>1, <4>1 DEF Pool, ExpireSession
      <4> QED BY <1>0, <3>1, <4>1, <4>2, KeepNoMoreWhere DEF ExpireSession
    <3>2. CASE GetsQuiet(p)
      <4>1. PICK new : new = [pools[p] EXCEPT !.quiet = TRUE]
        OBVIOUS
      <4>2. new.idle \in Nat /\ new.idle <= pools[p].idle
        BY <2>2, <4>1 DEF Pool
      <4> QED BY <1>0, <2>2, <3>2, <4>1, <4>2, KeepNoMoreWhere DEF GetsQuiet
    <3> QED BY <2>1, <3>1, <3>2
  <2> QED BY <1>1, <2>1, <2>3, TimerKinds, <1>0
<1>6. CASE \E r \in Reapers : BeginReaping(r) \/ ReaperStep(r)
  BY <1>0, <1>1, <1>6, ReaperKinds, LimitedAfterTakeOut, SameKeepNoMore DEF ReapSteps
<1>7. CASE BeginShutdown
  BY <1>0, <1>1, <1>7, SameKeepNoMore DEF BeginShutdown
<1>8. CASE CloseAll
  <2>1. \A p \in Pools : pools'[p] = Ended(p) \/ pools'[p] = pools[p]
    BY <1>8 DEF CloseAll
  <2>2. \A p \in Pools : Ended(p).idle = 0
    BY <1>0, EndedType
  <2>3. KeepNoMore
    BY <1>0, <2>1, <2>2 DEF KeepNoMore
  <2> QED BY <1>1, <1>8, <2>3 DEF CloseAll
<1> QED BY <1>2, <1>3, <1>4, <1>5, <1>6, <1>7, <1>8 DEF PoolsNext

----------------------------------------------------------------------------
\* Old settings.

\* A request that has pools to close goes on until none is left in the map.
LEMMA ClosingLasts ==
  ASSUME PoolsTypeOK, PoolsNext, NEW a \in Admins, NEW c \in Connections, Closing(a, c)
  PROVE  Closing(a, c)' \/ (NoneLeft(c) /\ UNCHANGED targets)
<1>0. admins[a] \in Admin /\ admins[a].step \in {"closing", "ending"} /\ admins[a].connection = c
  BY Typed DEF Closing
<1>1. ASSUME admins'[a] = admins[a] PROVE Closing(a, c)'
  BY <1>1 DEF Closing
<1>2. ASSUME NEW b \in Admins, AdminStep(b)
      PROVE  Closing(a, c)' \/ (NoneLeft(c) /\ UNCHANGED targets)
  <2>1. CASE b # a
    <3>1. \E admin : admins' = [admins EXCEPT ![b] = admin]
      BY <1>2 DEF AdminStep, AdminAt, SealCredential, WriteTarget, CloseOne, PoolHasEnded,
                  EndClosing, AdminFails
    <3> QED BY <1>1, <2>1, <3>1 DEF PoolsTypeOK
  <2>2. CASE b = a
    <3>1. ASSUME NEW step \in {"closing", "ending"}, NEW pool,
                 admins' = [admins EXCEPT ![a] = [admins[a] EXCEPT !.step = step, !.pool = pool]]
          PROVE  Closing(a, c)'
      <4>1. PICK new : new = [admins[a] EXCEPT !.step = step, !.pool = pool]
        OBVIOUS
      <4>2. new.step = step /\ new.connection = c
        BY <1>0, <4>1 DEF Admin
      <4>3. admins'[a] = new
        BY <3>1, <4>1 DEF PoolsTypeOK
      <4> QED BY <4>2, <4>3 DEF Closing
    <3>2. CASE CloseOne(a)
      BY <3>1, <3>2 DEF CloseOne, AdminAt
    <3>3. CASE PoolHasEnded(a)
      BY <3>1, <3>3 DEF PoolHasEnded, AdminAt
    <3>4. CASE EndClosing(a)
      BY <1>0, <3>4 DEF EndClosing
    <3>5. CASE AdminFails(a)
      BY <1>0, <3>5 DEF AdminFails
    <3>6. ~SealCredential(a) /\ ~WriteTarget(a)
      BY <1>0 DEF SealCredential, WriteTarget
    <3> QED BY <1>2, <2>2, <3>2, <3>3, <3>4, <3>5, <3>6 DEF AdminStep
  <2> QED BY <2>1, <2>2
<1>3. ASSUME NEW b \in Admins, NEW d \in Connections,
             InsertPlaceholder(b, d) \/ BeginUpdate(b, d) \/ BeginDelete(b, d)
      PROVE  Closing(a, c)'
  <2>1. b # a
    BY <1>0, <1>3 DEF InsertPlaceholder, BeginUpdate, BeginDelete
  <2>2. \E admin : admins' = [admins EXCEPT ![b] = admin]
    BY <1>3 DEF AdminAt, InsertPlaceholder, BeginUpdate, BeginDelete
  <2> QED BY <1>1, <2>1, <2>2 DEF PoolsTypeOK
<1>4. CASE \E u \in UseSlots : UseStep(u) \/ \E k \in PoolKeys : Ask(u, k)
  BY <1>1, <1>4 DEF UseStep, Ask, FindPool, MissPool, LoadRow, LoadRowFails, CreatePool, Connect,
                    ConnectFails, GiveBack
<1>5. CASE \E p \in Pools : ExpireSession(p) \/ GetsQuiet(p)
  BY <1>1, <1>5 DEF ExpireSession, GetsQuiet
<1>6. CASE \E r \in Reapers : BeginReaping(r) \/ ReaperStep(r)
  BY <1>1, <1>6, ReaperKinds DEF ReapSteps
<1>7. CASE BeginShutdown \/ CloseAll
  BY <1>1, <1>7 DEF BeginShutdown, CloseAll
<1> QED BY <1>2, <1>3, <1>4, <1>5, <1>6, <1>7 DEF PoolsNext

\* A pool that stays in the map, for as long as its row says the same or is being closed.
LEMMA StaysRacing ==
  ASSUME PoolsInvariant, PoolsNext, NEW k \in PoolKeys, targets[k] # NoPool, targets'[k] = targets[k],
         pools'[targets[k]].version = pools[targets[k]].version,
         pools'[targets[k]].stale = pools[targets[k]].stale,
         Exists(k[1])' => \/ /\ Exists(k[1])
                             /\ connectionRows'[k[1]].version = connectionRows[k[1]].version
                          \/ \E a \in Admins : Closing(a, k[1])'
  PROVE  (Exists(k[1])' /\ pools'[targets[k]].version # connectionRows'[k[1]].version) =>
           pools'[targets[k]].stale \/ \E a \in Admins : Closing(a, k[1])'
<1>1. k[1] \in Connections /\ k \in KeysOf(k[1])
  BY DEF PoolKeys, KeysOf
<1>2. ~NoneLeft(k[1])
  BY <1>1 DEF NoneLeft
<1>3. \A a \in Admins : Closing(a, k[1]) => Closing(a, k[1])'
  BY <1>1, <1>2, ClosingLasts DEF PoolsInvariant
<1> QED BY <1>3 DEF PoolsInvariant, OnlyRacingPoolsAreStale

LEMMA RacingWithSamePools ==
  ASSUME PoolsInvariant, PoolsNext, SamePools,
         \A c \in Connections : (Exists(c)' /\ \E k \in KeysOf(c) : targets[k] # NoPool) =>
           \/ Exists(c) /\ connectionRows'[c].version = connectionRows[c].version
           \/ \E a \in Admins : Closing(a, c)'
  PROVE  OnlyRacingPoolsAreStale'
<1> SUFFICES ASSUME NEW k \in PoolKeys, targets'[k] # NoPool
             PROVE  (Exists(k[1])' /\ pools'[targets'[k]].version # connectionRows'[k[1]].version) =>
                      pools'[targets'[k]].stale \/ \E a \in Admins : Closing(a, k[1])'
  BY DEF OnlyRacingPoolsAreStale
<1>1. k[1] \in Connections /\ k \in KeysOf(k[1])
  BY DEF PoolKeys, KeysOf
<1>2. targets'[k] = targets[k] /\ targets[k] \in Pools
  BY Typed DEF SamePools, PoolsInvariant
<1>3. /\ pools'[targets[k]].version = pools[targets[k]].version
      /\ pools'[targets[k]].stale = pools[targets[k]].stale
  BY <1>2 DEF SamePools
<1> QED BY <1>1, <1>2, <1>3, StaysRacing

LEMMA RacingAfterTakeOut ==
  ASSUME PoolsInvariant, PoolsNext, OneTakenOut, UNCHANGED connectionRows
  PROVE  OnlyRacingPoolsAreStale'
<1>1. PICK j \in PoolKeys : targets[j] # NoPool /\ TakeOut(j)
  BY DEF OneTakenOut
<1>2. /\ targets'[j] = NoPool
      /\ \A k \in PoolKeys : k # j => /\ targets'[k] = targets[k]
                                      /\ targets[k] # NoPool => pools'[targets[k]] = pools[targets[k]]
  BY <1>1, EndedFields DEF PoolsInvariant
<1> SUFFICES ASSUME NEW k \in PoolKeys, targets'[k] # NoPool
             PROVE  (Exists(k[1])' /\ pools'[targets'[k]].version # connectionRows'[k[1]].version) =>
                      pools'[targets'[k]].stale \/ \E a \in Admins : Closing(a, k[1])'
  BY DEF OnlyRacingPoolsAreStale
<1>3. targets'[k] = targets[k] /\ pools'[targets[k]] = pools[targets[k]]
  BY <1>2
<1>4. Exists(k[1])' => Exists(k[1]) /\ connectionRows'[k[1]].version = connectionRows[k[1]].version
  BY DEF Exists
<1> QED BY <1>3, <1>4, StaysRacing

LEMMA RacingAfterCreate ==
  ASSUME PoolsInvariant, PoolsNext, NEW u \in UseSlots, CreatePool(u) PROVE OnlyRacingPoolsAreStale'
<1>1. PICK p \in Pools, k \in PoolKeys, new \in Pool :
        /\ pools[p].state = "unused" /\ k = uses[u].key
        /\ pools' = [pools EXCEPT ![p] = new] /\ targets' = [targets EXCEPT ![k] = p]
        /\ uses' = [uses EXCEPT ![u].step = "holding", ![u].pool = p]
        /\ new.state = "open" /\ new.key = k /\ new.idle = 0
        /\ new.version # connectionRows[k[1]].version => new.stale
  BY CreateKinds DEF PoolsInvariant
<1>2. \A j \in PoolKeys : targets[j] # NoPool => targets[j] # p /\ targets[j] \in Pools
  BY <1>1, Typed DEF MappedPoolsAreOpen, PoolsInvariant
<1>3. /\ targets'[k] = p /\ pools'[p] = new
      /\ \A j \in PoolKeys : j # k => targets'[j] = targets[j]
      /\ \A q \in Pools : q # p => pools'[q] = pools[q]
  BY <1>1 DEF PoolsTypeOK, PoolsInvariant
<1>4. connectionRows' = connectionRows
  BY DEF CreatePool
<1> SUFFICES ASSUME NEW j \in PoolKeys, targets'[j] # NoPool
             PROVE  (Exists(j[1])' /\ pools'[targets'[j]].version # connectionRows'[j[1]].version) =>
                      pools'[targets'[j]].stale \/ \E a \in Admins : Closing(a, j[1])'
  BY DEF OnlyRacingPoolsAreStale
<1>5. CASE j = k
  BY <1>1, <1>3, <1>4, <1>5
<1>6. CASE j # k
  <2>1. targets'[j] = targets[j] /\ pools'[targets[j]] = pools[targets[j]]
    BY <1>2, <1>3, <1>6
  <2>2. Exists(j[1])' => Exists(j[1]) /\ connectionRows'[j[1]].version = connectionRows[j[1]].version
    BY <1>4 DEF Exists
  <2> QED BY <2>1, <2>2, StaysRacing
<1> QED BY <1>5, <1>6

\* What a request does to the rows: a registered one keeps its version, or is being closed.
RowsKeepOrClose ==
  \A c \in Connections : (Exists(c)' /\ \E k \in KeysOf(c) : targets[k] # NoPool) =>
    \/ Exists(c) /\ connectionRows'[c].version = connectionRows[c].version
    \/ \E a \in Admins : Closing(a, c)'

LEMMA SameRowsKeep == UNCHANGED connectionRows => RowsKeepOrClose
BY DEF RowsKeepOrClose, Exists

\* One row is written, and the others are not.
LEMMA OneRowKeeps ==
  ASSUME PoolsTypeOK, NEW c \in Connections, NEW row, connectionRows' = [connectionRows EXCEPT ![c] = row],
         \/ \A k \in KeysOf(c) : targets[k] = NoPool
         \/ Exists(c) /\ row.version = connectionRows[c].version
         \/ row.state = "deleted"
         \/ \E a \in Admins : Closing(a, c)'
  PROVE  RowsKeepOrClose
<1>1. connectionRows'[c] = row /\ \A d \in Connections : d # c => connectionRows'[d] = connectionRows[d]
  BY DEF PoolsTypeOK
<1> QED BY <1>1 DEF RowsKeepOrClose, Exists

LEMMA AdminKeeps ==
  ASSUME PoolsInvariant, NEW a \in Admins, AdminStep(a) PROVE RowsKeepOrClose
<1> DEFINE c == admins[a].connection
<1>0. PoolsTypeOK /\ admins[a] \in Admin /\ c \in Connections /\ connectionRows[c] \in TargetRow
  BY Typed DEF PoolsInvariant
<1>1. CASE SealCredential(a)
  <2>1. PICK row : row = [connectionRows[c] EXCEPT !.state = "saved"]
    OBVIOUS
  <2>2. row.version = connectionRows[c].version /\ Exists(c)
        /\ connectionRows' = [connectionRows EXCEPT ![c] = row]
    BY <1>0, <1>1, <2>1 DEF SealCredential, TargetRow
  <2> QED BY <1>0, <2>2, OneRowKeeps
<1>2. CASE WriteTarget(a)
  <2>1. CASE UNCHANGED connectionRows
    BY <2>1, SameRowsKeep
  <2>2. CASE \E row : connectionRows' = [connectionRows EXCEPT ![c] = row]
    <3>1. PICK row, d : d = c /\ connectionRows' = [connectionRows EXCEPT ![d] = row]
      BY <2>2
    <3>2. PICK new : new = [admins[a] EXCEPT !.step = "closing"]
      OBVIOUS
    <3>3. new.step = "closing" /\ new.connection = d /\ admins'[a] = new
      BY <1>0, <1>2, <3>1, <3>2 DEF WriteTarget, AdminAt, Admin, PoolsTypeOK
    <3>4. Closing(a, d)'
      BY <3>3 DEF Closing
    <3> QED BY <1>0, <3>1, <3>4, OneRowKeeps
  <2> QED BY <1>2, <2>1, <2>2 DEF WriteTarget
<1>3. CASE EndClosing(a)
  <2>1. CASE UNCHANGED connectionRows
    BY <2>1, SameRowsKeep
  <2>2. CASE connectionRows' = [connectionRows EXCEPT ![c].state = "deleted"]
    <3>1. PICK row : row = [connectionRows[c] EXCEPT !.state = "deleted"]
      OBVIOUS
    <3>2. row.state = "deleted" /\ connectionRows' = [connectionRows EXCEPT ![c] = row]
      BY <1>0, <2>2, <3>1 DEF TargetRow
    <3> QED BY <1>0, <3>2, OneRowKeeps
  <2> QED BY <1>3, <2>1, <2>2 DEF EndClosing
<1>4. CASE CloseOne(a) \/ PoolHasEnded(a) \/ AdminFails(a)
  BY <1>4, SameRowsKeep DEF CloseOne, PoolHasEnded, AdminFails
<1> QED BY <1>1, <1>2, <1>3, <1>4 DEF AdminStep

LEMMA InsertKeeps ==
  ASSUME PoolsInvariant, NEW a \in Admins, NEW c \in Connections, InsertPlaceholder(a, c)
  PROVE  RowsKeepOrClose
<1>1. \A k \in KeysOf(c) : targets[k] = NoPool
  BY KeyTypes DEF PoolsInvariant, UsesHavePools, InsertPlaceholder
<1>2. \E row : connectionRows' = [connectionRows EXCEPT ![c] = row]
  BY DEF InsertPlaceholder
<1> QED BY <1>1, <1>2, OneRowKeeps DEF PoolsInvariant

LEMMA RacingStep == PoolsInvariant /\ PoolsNext => OnlyRacingPoolsAreStale'
<1> SUFFICES ASSUME PoolsInvariant, PoolsNext PROVE OnlyRacingPoolsAreStale'
  OBVIOUS
<1>0. PoolsTypeOK /\ UsesHavePools
  BY DEF PoolsInvariant
<1>1. ASSUME SamePools, RowsKeepOrClose PROVE OnlyRacingPoolsAreStale'
  BY <1>1, RacingWithSamePools DEF RowsKeepOrClose
<1>2. CASE \E u \in UseSlots : UseStep(u) \/ \E k \in PoolKeys : Ask(u, k)
  <2>1. UNCHANGED connectionRows
    BY <1>2 DEF UseStep, Ask, FindPool, MissPool, LoadRow, LoadRowFails, CreatePool, Connect,
                ConnectFails, GiveBack
  <2>2. \A u \in UseSlots, k \in PoolKeys : Ask(u, k) => SamePools
    BY DEF Ask, SamePools
  <2> QED BY <1>0, <1>1, <1>2, <2>1, <2>2, UseKinds, RacingAfterCreate, SameRowsKeep
<1>3. CASE \E a \in Admins : AdminStep(a)
  <2>1. UNCHANGED <<targets, pools>> => SamePools
    BY DEF SamePools
  <2> QED BY <1>0, <1>1, <1>3, <2>1, AdminKinds, AdminKeeps, RacingAfterTakeOut
<1>4. CASE \E a \in Admins, c \in Connections :
             InsertPlaceholder(a, c) \/ BeginUpdate(a, c) \/ BeginDelete(a, c)
  <2>1. SamePools
    BY <1>4 DEF InsertPlaceholder, BeginUpdate, BeginDelete, SamePools
  <2>2. RowsKeepOrClose
    BY <1>4, InsertKeeps, SameRowsKeep DEF BeginUpdate, BeginDelete
  <2> QED BY <1>1, <2>1, <2>2
<1>5. CASE \E p \in Pools : ExpireSession(p) \/ GetsQuiet(p)
  BY <1>0, <1>1, <1>5, TimerKinds, SameRowsKeep
<1>6. CASE \E r \in Reapers : BeginReaping(r) \/ ReaperStep(r)
  <2>1. UNCHANGED <<targets, pools>> => SamePools
    BY DEF SamePools
  <2> QED BY <1>1, <1>6, <2>1, ReaperKinds, SameRowsKeep, RacingAfterTakeOut DEF ReapSteps
<1>7. CASE BeginShutdown
  BY <1>1, <1>7, SameRowsKeep DEF BeginShutdown, SamePools
<1>8. CASE CloseAll
  BY <1>8 DEF CloseAll, OnlyRacingPoolsAreStale
<1> QED BY <1>2, <1>3, <1>4, <1>5, <1>6, <1>7, <1>8 DEF PoolsNext

----------------------------------------------------------------------------
\* The invariant, and how pools leave the map.

LEMMA PoolsBegin == PoolsInit => PoolsInvariant
<1> SUFFICES ASSUME PoolsInit PROVE PoolsInvariant
  OBVIOUS
<1>1. PICK none : none = [NewPool(AnyKey, 0, FALSE) EXCEPT !.state = "unused"]
  OBVIOUS
<1>2. none \in Pool /\ none.idle = 0
  <2>1. NewPool(AnyKey, 0, FALSE) \in Pool /\ NewPool(AnyKey, 0, FALSE).idle = 0
    <3>1. 0 \in 0 .. MaxVersion
      BY VersionAssumption
    <3> QED BY <3>1, KeyTypes, RecordTypes DEF NewPool
  <2> HIDE DEF NewPool
  <2> QED BY <1>1, <2>1 DEF Pool
<1>3. pools = [p \in Pools |-> none]
  BY <1>1 DEF PoolsInit
<1>4. PoolsTypeOK
  <2>1. [state |-> "unused", version |-> 0] \in TargetRow
    BY VersionAssumption DEF TargetRow
  <2> QED BY <1>2, <1>3, <2>1, RecordTypes DEF PoolsInit, PoolsTypeOK
<1>5. SessionsAreLimited
  <2> SUFFICES ASSUME NEW p \in Pools PROVE Sessions(p) <= MaxSessions
    BY DEF SessionsAreLimited
  <2>1. UsersOf(p) = {}
    BY RecordTypes DEF PoolsInit, UsersOf
  <2>2. Cardinality(UsersOf(p)) = 0
    BY <2>1, FS_EmptySet
  <2> QED BY <1>2, <1>3, <2>2, SessionAssumption DEF Sessions
<1>6. UsesHavePools /\ MappedPoolsAreOpen /\ OnlyRacingPoolsAreStale
  BY RecordTypes DEF PoolsInit, UsesHavePools, MappedPoolsAreOpen, OnlyRacingPoolsAreStale
<1> QED BY <1>4, <1>5, <1>6 DEF PoolsInvariant

LEMMA LeavesStep == PoolsInvariant /\ [PoolsNext]_poolVars => [LeavesEndedOrReplaced]_poolVars
<1> SUFFICES ASSUME PoolsInvariant, PoolsNext PROVE LeavesEndedOrReplaced
  OBVIOUS
<1>0. PoolsTypeOK /\ UsesHavePools /\ MappedPoolsAreOpen
  BY DEF PoolsInvariant
<1>1. CASE SamePools
  BY <1>1 DEF SamePools, LeavesEndedOrReplaced
<1>2. CASE OneTakenOut
  BY <1>0, <1>2, EndedFields DEF OneTakenOut, LeavesEndedOrReplaced
<1>3. ASSUME NEW u \in UseSlots, CreatePool(u) PROVE LeavesEndedOrReplaced
  <2>1. PICK p \in Pools, k \in PoolKeys, new \in Pool :
          /\ pools[p].state = "unused" /\ k = uses[u].key
          /\ pools' = [pools EXCEPT ![p] = new] /\ targets' = [targets EXCEPT ![k] = p]
          /\ uses' = [uses EXCEPT ![u].step = "holding", ![u].pool = p]
          /\ new.state = "open" /\ new.key = k /\ new.idle = 0
          /\ new.version # connectionRows[k[1]].version => new.stale
    BY <1>0, <1>3, CreateKinds
  <2>2. PICK use : use = [uses[u] EXCEPT !.step = "holding", !.pool = p]
    OBVIOUS
  <2>3. use.pool = p /\ uses'[u] = use
    BY <1>0, <2>1, <2>2, Typed DEF Use, PoolsTypeOK
  <2>4. targets'[k] = p /\ \A j \in PoolKeys : j # k => targets'[j] = targets[j]
    BY <1>0, <2>1 DEF PoolsTypeOK
  <2>5. uses[u].step = "creating" /\ uses[u].key = k /\ uses'[u].pool = targets'[k]
    BY <1>3, <2>1, <2>3, <2>4 DEF CreatePool
  <2> QED BY <2>4, <2>5 DEF LeavesEndedOrReplaced
<1>4. CASE CloseAll
  <2> SUFFICES ASSUME NEW k \in PoolKeys, targets[k] # NoPool
               PROVE  pools'[targets[k]].state = "ending"
    BY DEF LeavesEndedOrReplaced
  <2>1. targets[k] \in Pools
    BY <1>0, Typed
  <2>2. pools'[targets[k]] = Ended(targets[k])
    BY <1>4, <2>1 DEF CloseAll
  <2> QED BY <1>0, <2>1, <2>2, EndedType
<1> QED BY <1>0, <1>1, <1>2, <1>3, <1>4, Kinds

(***************************************************************************)
(* Whatever the requests that use, change and delete connections, the      *)
(* housekeeping and the shutdown do meanwhile: the map of                  *)
(* connection-manager.ts holds open pools, each at its own key, no pool    *)
(* has more sessions than its limit, and a pool in the map with settings   *)
(* that are no longer the row's is about to be closed or overtook the      *)
(* update.                                                                 *)
(***************************************************************************)
THEOREM PoolsCorrect == PoolsSpec => []PoolsInvariant
<1>1. PoolsInit => PoolsInvariant
  BY PoolsBegin
<1>2. PoolsInvariant /\ [PoolsNext]_poolVars => PoolsInvariant'
  <2>1. PoolsInvariant /\ PoolsNext => PoolsInvariant'
    BY PoolTypesStep, SessionsStep, UsesStep, MappedPoolsStep, RacingStep DEF PoolsInvariant
  <2> QED BY <2>1, StutterKeeps
<1> QED BY <1>1, <1>2, PTL DEF PoolsSpec

\* All that the registry promises: the invariant, and that a pool leaves the map by being ended, or by
\* a second first use of its key that had missed it (getTargetPool, closeTargetPool, reapIdlePools and
\* closeAllTargetPools).
THEOREM PoolsPromiseHolds == PoolsSpec => PoolsPromise
<1>1. PoolsSpec => []PoolsInvariant
  BY PoolsCorrect
<1>2. PoolsInvariant /\ [PoolsNext]_poolVars => [LeavesEndedOrReplaced]_poolVars
  BY LeavesStep
<1> QED BY <1>1, <1>2, PTL DEF PoolsSpec, PoolsPromise, PoolsLeaveEndedOrReplaced
=============================================================================
