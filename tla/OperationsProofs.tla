--------------------------- MODULE OperationsProofs ---------------------------
(***************************************************************************)
(* Proofs about Operations. The inductive invariant says, of every request *)
(* on its own, how far it has got (Sound), that nothing is sent which was  *)
(* not allowed (Judged), and that what it knows of the resources was true  *)
(* when it was loaded (Timely).                                            *)
(***************************************************************************)
EXTENDS Operations, OperationDialog, SettingsPage, LogPage, ServiceStatus, DataTable,
        SequenceTheorems, WellFoundedInduction, FiniteSetTheorems, TLAPS

Told == {"success", "failure", "lost"}

Unsent == {"asking", "loading", "loaded", "judging", "denied", "sending"}

Sound(q) ==
  /\ q.step \in Unsent =>
       q.attempts = 0 /\ q.effects = {} /\ ~q.onWire /\ q.audit = "none"
  /\ q.step = "sent" => q.attempts = 1 /\ q.audit = "none" /\ (q.onWire \/ q.effects # {})
  /\ q.step = "loaded" => q.loaded # NoValue
  /\ q.step = "judging" => q.environment # NoEnvironment
  /\ q.step = "succeeded" => q.effects # {} /\ ~q.onWire
  /\ q.step = "recording" => q.audit \in Told
  /\ q.step = "ended" => q.audit \in Told \/ (q.effects = {} /\ ~q.onWire)
  /\ q.onWire => q.effects = {}
  /\ \A m, n \in q.effects : m = n
  /\ q.audit = "success" => q.effects # {}
  /\ q.audit = "denied" => q.effects = {} /\ ~q.onWire

Looking == {"asking", "loading", "loaded"}

Judged(q) ==
  (q.step \in Looking /\ q.environment # NoEnvironment)
    \/ q.step \in {"sending", "sent"} \/ q.onWire \/ q.effects # {}
  => /\ q.environment # NoEnvironment
     /\ Allowed(UserRoles[q.user], q.key, q.environment)

Honest(inventory) ==
  \A x \in Resources :
    /\ inventory.moves[x] <= moves[x]
    /\ inventory.environment[x] = environment[x] \/ inventory.moves[x] < moves[x]

Timely(q) ==
  /\ q.asOf <= moves[q.resource]
  /\ q.environment # NoEnvironment =>
       q.environment = environment[q.resource] \/ q.asOf < moves[q.resource]
  /\ q.effects # {} => q.ran = q.environment \/ q.asOf < moves[q.resource]
  /\ q.loaded # NoValue => Honest(q.loaded)

Fits(q) == Sound(q) /\ Judged(q) /\ Timely(q)

RequestsFit == \A r \in Requests, q \in Request : q = requests[r] => Fits(q)

CacheIsHonest ==
  \A kind \in Kinds : /\ cache[kind].fresh => cache[kind].value # NoValue
                      /\ cache[kind].value # NoValue => Honest(cache[kind].value)

OperationsInvariant == TypeOK /\ CacheIsHonest /\ RequestsFit

\* The shape of a request, for the steps below.
LEMMA RequestsAreTyped ==
  ASSUME TypeOK, NEW r \in Requests, requests[r].step # "idle"
  PROVE  requests[r] \in Request /\ requests[r] # Idle
BY DEF TypeOK, Idle

LEMMA RequestsAreNotIdle ==
  ASSUME NEW q \in Request
  PROVE  q # Idle /\ q.step # "idle"
BY DEF Request, Idle

LEMMA FitsLasts ==
  ASSUME NEW q, Fits(q), UNCHANGED <<environment, moves>>
  PROVE  Fits(q)'
BY DEF Fits, Timely, Honest, Sound, Judged

\* A step that changes one request, and nothing the others depend on.
LEMMA OneRequestFits ==
  ASSUME RequestsFit, TypeOK, NEW r \in Requests, NEW p \in Request, Fits(p),
         requests' = [requests EXCEPT ![r] = p],
         UNCHANGED <<environment, moves>>
  PROVE  RequestsFit' /\ requests' \in [Requests -> Request \union {Idle}]
<1>1. requests' \in [Requests -> Request \union {Idle}]
  BY DEF TypeOK
<1>2. ASSUME NEW s \in Requests, NEW q \in Request, q = requests'[s]
      PROVE  Fits(q)'
  <2>1. q = p \/ q = requests[s]
    BY <1>2 DEF TypeOK
  <2>2. Fits(q)
    BY <2>1 DEF RequestsFit
  <2> QED
    BY <2>2, FitsLasts
<1> QED
  BY <1>1, <1>2 DEF RequestsFit

LEMMA InventoriesAreListed ==
  ASSUME TypeOK
  PROVE  Listing \in Inventory /\ Honest(Listing)
BY OperationsAssumption DEF TypeOK, Listing, Inventory, Honest

LEMMA GivenFits ==
  ASSUME NEW q \in Request, Fits(q), q.step \in Looking,
         NEW inventory \in Inventory, Honest(inventory)
  PROVE  Given(q, inventory) \in Request /\ Fits(Given(q, inventory))
<1> DEFINE seen == inventory.environment[q.resource]
           found == Visible(q, seen)
           asOf == inventory.moves[q.resource]
<1>1. /\ seen \in Environments /\ asOf \in 0 .. MaxMoves /\ found \in BOOLEAN
      /\ asOf <= moves[q.resource]
      /\ seen = environment[q.resource] \/ asOf < moves[q.resource]
  BY OperationsAssumption DEF Request, Inventory, Honest, Visible
<1> HIDE DEF seen, found, asOf
<1>2. CASE q.key = "list"
  <2>1. Given(q, inventory) = [q EXCEPT !.step = "ended", !.loaded = NoValue]
    BY <1>2 DEF Given
  <2> QED
    BY <2>1 DEF Request, Fits, Sound, Judged, Timely, Unsent, Looking, Told
<1>3. CASE q.key # "list" /\ q.environment = NoEnvironment /\ found
  <2>1. Given(q, inventory) = [q EXCEPT !.step = "judging", !.loaded = NoValue,
                                        !.environment = seen, !.asOf = asOf]
    BY <1>3 DEF Given, found, seen, asOf
  <2>2. seen # NoEnvironment
    BY <1>1, OperationsAssumption
  <2> DEFINE p == [q EXCEPT !.step = "judging", !.loaded = NoValue,
                            !.environment = seen, !.asOf = asOf]
  <2>3. p \in Request /\ q.effects = {} /\ ~q.onWire
    BY <1>1 DEF Request, Fits, Sound, Unsent, Looking
  <2>4. /\ p.step = "judging" /\ p.loaded = NoValue /\ p.environment = seen
        /\ p.asOf = asOf /\ p.resource = q.resource /\ p.attempts = q.attempts
        /\ p.effects = {} /\ ~p.onWire /\ p.audit = q.audit
    BY <2>3 DEF Request
  <2> HIDE DEF p
  <2>5. Sound(p)
    BY <2>2, <2>4 DEF Fits, Sound, Unsent, Looking
  <2>6. Judged(p)
    BY <2>4 DEF Judged, Looking
  <2>7. Timely(p)
    BY <1>1, <2>4 DEF Timely
  <2> QED
    BY <2>1, <2>3, <2>5, <2>6, <2>7 DEF p, Fits
<1>4. CASE q.key # "list" /\ q.environment = NoEnvironment /\ ~found
  <2>1. Given(q, inventory) = [q EXCEPT !.step = "ended", !.loaded = NoValue]
    BY <1>4 DEF Given, found, seen, Request
  <2> QED
    BY <2>1 DEF Request, Fits, Sound, Judged, Timely, Unsent, Looking, Told
<1>5. CASE q.key # "list" /\ q.environment # NoEnvironment
  <2>1. PICK step \in {"sending", "failed"} :
          Given(q, inventory) = [q EXCEPT !.step = step, !.loaded = NoValue]
    BY <1>5 DEF Given
  <2> QED
    BY <1>5, <2>1 DEF Request, Fits, Sound, Judged, Timely, Unsent, Looking, Told
<1> QED
  BY <1>1, <1>2, <1>3, <1>4, <1>5

\* A cache that is left alone by a step that leaves the resources alone.
LEMMA CacheStaysHonest ==
  ASSUME CacheIsHonest, UNCHANGED <<environment, moves, cache>>
  PROVE  CacheIsHonest'
BY DEF CacheIsHonest, Honest

\* The invariant after a step that changes one request and nothing else.
LEMMA OneRequestKeeps ==
  ASSUME OperationsInvariant, NEW r \in Requests, NEW p \in Request, Fits(p),
         requests' = [requests EXCEPT ![r] = p],
         UNCHANGED <<environment, moves, cache>>, operations' \in Nat
  PROVE  OperationsInvariant'
<1>1. RequestsFit' /\ requests' \in [Requests -> Request \union {Idle}]
  BY OneRequestFits DEF OperationsInvariant
<1>2. CacheIsHonest'
  BY CacheStaysHonest DEF OperationsInvariant
<1>3. TypeOK'
  BY <1>1 DEF OperationsInvariant, TypeOK
<1> QED
  BY <1>1, <1>2, <1>3 DEF OperationsInvariant

LEMMA InitKeepsInvariant == Init => OperationsInvariant
<1> SUFFICES ASSUME Init PROVE OperationsInvariant
  OBVIOUS
<1>1. TypeOK
  BY OperationsAssumption DEF Init, TypeOK, Empty
<1>2. CacheIsHonest
  BY DEF Init, CacheIsHonest, Empty
<1>3. RequestsFit
  BY RequestsAreNotIdle DEF Init, RequestsFit
<1> QED
  BY <1>1, <1>2, <1>3 DEF OperationsInvariant

LEMMA BeginKeeps ==
  ASSUME OperationsInvariant, NEW r \in Requests, NEW user \in Users,
         NEW key \in Keys \union {"list"}, NEW resource \in Resources,
         Begin(r, user, key, resource)
  PROVE  OperationsInvariant'
<1> DEFINE p == [step |-> "asking", user |-> user, key |-> key, resource |-> resource,
                 loaded |-> NoValue, environment |-> NoEnvironment, asOf |-> 0,
                 attempts |-> 0, onWire |-> FALSE, effects |-> {},
                 ran |-> NoEnvironment, audit |-> "none"]
<1>1. p \in Request
  BY OperationsAssumption DEF Request
<1>2. Fits(p)
  <2>1. 0 <= moves[resource]
    BY OperationsAssumption DEF OperationsInvariant, TypeOK
  <2> QED
    BY <2>1 DEF Fits, Sound, Judged, Timely, Unsent, Looking
<1>3. requests' = [requests EXCEPT ![r] = p] /\ UNCHANGED <<environment, moves, operations, cache>>
  BY DEF Begin
<1> QED
  BY <1>1, <1>2, <1>3, OneRequestKeeps DEF OperationsInvariant, TypeOK

\* A request is answered out of an inventory.
LEMMA GivenKeeps ==
  ASSUME OperationsInvariant, NEW r \in Requests, requests[r].step \in Looking,
         NEW inventory \in Inventory, Honest(inventory),
         requests' = [requests EXCEPT ![r] = Given(requests[r], inventory)],
         UNCHANGED <<environment, moves, operations, cache>>
  PROVE  OperationsInvariant'
<1>1. PICK q \in Request : q = requests[r]
  BY RequestsAreTyped DEF OperationsInvariant, Looking
<1>2. Fits(q)
  BY <1>1 DEF OperationsInvariant, RequestsFit
<1>3. PICK p \in Request : p = Given(q, inventory) /\ Fits(p)
  BY <1>1, <1>2, GivenFits
<1> QED
  BY <1>1, <1>3, OneRequestKeeps DEF OperationsInvariant, TypeOK

LEMMA CachedIsHonest ==
  ASSUME OperationsInvariant, NEW kind \in Kinds, cache[kind].value # NoValue
  PROVE  cache[kind].value \in Inventory /\ Honest(cache[kind].value)
BY DEF OperationsInvariant, TypeOK, CacheIsHonest

LEMMA KindsAreKinds ==
  ASSUME NEW q \in Request
  PROVE  KindOf(q) \in Kinds
BY OperationsAssumption DEF KindOf, Request

LEMMA FindKeeps ==
  ASSUME OperationsInvariant, NEW r \in Requests, Find(r)
  PROVE  OperationsInvariant'
<1>1. PICK q \in Request : q = requests[r]
  BY RequestsAreTyped DEF OperationsInvariant, Find
<1> DEFINE kind == KindOf(q)
<1>2. kind \in Kinds
  BY KindsAreKinds
<1> HIDE DEF kind
<1>3. CASE cache[kind].fresh /\ requests' = [requests EXCEPT ![r] = Given(@, cache[kind].value)]
  <2>1. cache[kind].value # NoValue
    BY <1>2, <1>3 DEF OperationsInvariant, CacheIsHonest
  <2>2. PICK inventory \in Inventory : inventory = cache[kind].value /\ Honest(inventory)
    BY <1>2, <2>1, CachedIsHonest
  <2> QED
    BY <1>3, <2>2, GivenKeeps DEF Find, Looking, OperationsInvariant, TypeOK
<1>4. CASE requests' = [requests EXCEPT ![r] = Given(@, Listing)]
  <2>1. PICK inventory \in Inventory : inventory = Listing /\ Honest(inventory)
    BY InventoriesAreListed DEF OperationsInvariant
  <2> QED
    BY <1>4, <2>1, GivenKeeps DEF Find, Looking, OperationsInvariant, TypeOK
<1> QED
  BY <1>1, <1>3, <1>4 DEF Find, kind

\* Moving a request on to another step, where nothing it says of itself forbids it.
LEMMA StepKeeps ==
  ASSUME OperationsInvariant, NEW r \in Requests, NEW q \in Request, q = requests[r],
         NEW step, [q EXCEPT !.step = step] \in Request,
         Sound([q EXCEPT !.step = step]), Judged([q EXCEPT !.step = step]),
         Step(r, step), UNCHANGED <<environment, moves, operations, cache>>
  PROVE  OperationsInvariant'
<1>1. PICK p \in Request : p = [q EXCEPT !.step = step]
  OBVIOUS
<1>2. Timely(q)
  BY DEF OperationsInvariant, RequestsFit, Fits
<1>3. Timely(p)
  BY <1>1, <1>2 DEF Timely, Request
<1>4. requests' = [requests EXCEPT ![r] = p]
  BY <1>1 DEF Step, OperationsInvariant, TypeOK
<1> QED
  BY <1>1, <1>3, <1>4, OneRequestKeeps DEF Fits, OperationsInvariant, TypeOK

LEMMA RequestsFitNow ==
  ASSUME OperationsInvariant, NEW r \in Requests, NEW q \in Request, q = requests[r]
  PROVE  Sound(q) /\ Judged(q) /\ Timely(q)
BY DEF OperationsInvariant, RequestsFit, Fits

LEMMA MissKeeps ==
  ASSUME OperationsInvariant, NEW r \in Requests, Miss(r)
  PROVE  OperationsInvariant'
<1>1. PICK q \in Request : q = requests[r]
  BY RequestsAreTyped DEF OperationsInvariant, Miss
<1>2. q.step = "asking" /\ Sound(q) /\ Judged(q)
  BY <1>1, RequestsFitNow DEF Miss
<1>3. Sound([q EXCEPT !.step = "loading"]) /\ Judged([q EXCEPT !.step = "loading"])
  BY <1>2 DEF Request, Sound, Judged, Unsent, Looking
<1>4. [q EXCEPT !.step = "loading"] \in Request
  BY DEF Request
<1> QED
  BY <1>1, <1>3, <1>4, StepKeeps DEF Miss

LEMMA LoadKeeps ==
  ASSUME OperationsInvariant, NEW r \in Requests, Load(r)
  PROVE  OperationsInvariant'
<1>1. PICK q \in Request : q = requests[r]
  BY RequestsAreTyped DEF OperationsInvariant, Load
<1>2. q.step = "loading" /\ Sound(q) /\ Judged(q) /\ Timely(q)
  BY <1>1, RequestsFitNow DEF Load
<1>3. PICK inventory \in Inventory : inventory = Listing /\ Honest(inventory)
  BY InventoriesAreListed DEF OperationsInvariant
<1>4. PICK p \in Request : p = [q EXCEPT !.step = "loaded", !.loaded = inventory]
  BY DEF Request
<1>5. Fits(p)
  <2>1. Sound(p)
    BY <1>2, <1>4, NoValueAssumption DEF Request, Sound, Unsent
  <2>2. Judged(p)
    BY <1>2, <1>4 DEF Request, Judged, Looking
  <2>3. Timely(p)
    BY <1>2, <1>3, <1>4 DEF Request, Timely
  <2> QED
    BY <2>1, <2>2, <2>3 DEF Fits
<1>6. requests' = [requests EXCEPT ![r] = p] /\ UNCHANGED <<environment, moves, operations, cache>>
  BY <1>1, <1>3, <1>4 DEF Load, OperationsInvariant, TypeOK
<1> QED
  BY <1>5, <1>6, OneRequestKeeps DEF OperationsInvariant, TypeOK

LEMMA StoreKeeps ==
  ASSUME OperationsInvariant, NEW r \in Requests, Store(r)
  PROVE  OperationsInvariant'
<1>1. PICK q \in Request : q = requests[r]
  BY RequestsAreTyped DEF OperationsInvariant, Store
<1>2. q.step = "loaded" /\ Sound(q) /\ Timely(q) /\ Fits(q)
  BY <1>1, RequestsFitNow DEF Store, Fits
<1>3. PICK inventory \in Inventory : inventory = q.loaded /\ Honest(inventory) /\ inventory # NoValue
  BY <1>2 DEF Request, Sound, Timely
<1>4. PICK p \in Request : p = Given(q, inventory) /\ Fits(p)
  BY <1>2, <1>3, GivenFits DEF Looking
<1>5. requests' = [requests EXCEPT ![r] = p] /\ UNCHANGED <<environment, moves, operations>>
  BY <1>1, <1>3, <1>4 DEF Store, OperationsInvariant, TypeOK
<1>6. PICK kind \in Kinds : kind = KindOf(q)
  BY KindsAreKinds
<1>7. cache' = [cache EXCEPT ![kind] = Stored(inventory)]
  BY <1>1, <1>3, <1>6 DEF Store
<1>8. CacheIsHonest'
  BY <1>3, <1>5, <1>7 DEF OperationsInvariant, TypeOK, CacheIsHonest, Honest, Stored
<1>9. RequestsFit' /\ requests' \in [Requests -> Request \union {Idle}]
  BY <1>4, <1>5, OneRequestFits DEF OperationsInvariant
<1>10. TypeOK'
  BY <1>5, <1>7, <1>9 DEF OperationsInvariant, TypeOK, Stored
<1> QED
  BY <1>8, <1>9, <1>10 DEF OperationsInvariant

LEMMA FallBackKeeps ==
  ASSUME OperationsInvariant, NEW r \in Requests, FallBack(r)
  PROVE  OperationsInvariant'
<1>1. PICK q \in Request : q = requests[r]
  BY RequestsAreTyped DEF OperationsInvariant, FallBack
<1>2. PICK kind \in Kinds : kind = KindOf(q)
  BY KindsAreKinds
<1>3. PICK inventory \in Inventory : inventory = cache[kind].value /\ Honest(inventory)
  BY <1>1, <1>2, CachedIsHonest DEF FallBack, HasFallback
<1> QED
  BY <1>1, <1>2, <1>3, GivenKeeps DEF FallBack, Looking, OperationsInvariant, TypeOK

LEMMA NotFoundKeeps ==
  ASSUME OperationsInvariant, NEW r \in Requests, NotFound(r)
  PROVE  OperationsInvariant'
<1>1. PICK q \in Request : q = requests[r]
  BY RequestsAreTyped DEF OperationsInvariant, NotFound
<1>2. q.step \in Looking /\ Sound(q) /\ Judged(q)
  BY <1>1, RequestsFitNow DEF NotFound, Looking
<1>3. PICK step \in {"ended", "failed"} : Step(r, step)
  BY DEF NotFound
<1>4. Sound([q EXCEPT !.step = step]) /\ Judged([q EXCEPT !.step = step])
  BY <1>2 DEF Request, Sound, Judged, Unsent, Looking
<1>5. [q EXCEPT !.step = step] \in Request
  BY DEF Request
<1> QED
  BY <1>1, <1>3, <1>4, <1>5, StepKeeps DEF NotFound

LEMMA ExpireKeeps ==
  ASSUME OperationsInvariant, NEW kind \in Kinds, Expire(kind)
  PROVE  OperationsInvariant'
<1>1. TypeOK'
  BY DEF OperationsInvariant, TypeOK, Expire, Expired
<1>2. CacheIsHonest'
  BY DEF OperationsInvariant, TypeOK, CacheIsHonest, Honest, Expire, Expired
<1>3. RequestsFit'
  <2>1. UNCHANGED <<environment, moves, requests>>
    BY DEF Expire
  <2> QED
    BY <2>1, FitsLasts DEF OperationsInvariant, RequestsFit
<1> QED
  BY <1>1, <1>2, <1>3 DEF OperationsInvariant

LEMMA JudgeKeeps ==
  ASSUME OperationsInvariant, NEW r \in Requests, NEW claimed \in Environments,
         NEW confirmed \in BOOLEAN, NEW reasoned \in BOOLEAN,
         Judge(r, claimed, confirmed, reasoned)
  PROVE  OperationsInvariant'
<1>1. PICK q \in Request : q = requests[r]
  BY RequestsAreTyped DEF OperationsInvariant, Judge
<1>2. q.step = "judging" /\ Sound(q) /\ Judged(q)
  BY <1>1, RequestsFitNow DEF Judge
<1>3. PICK step \in {"denied", "ended", "asking", "sending"} :
        /\ Step(r, step)
        /\ step \in {"asking", "sending"} => ~Denied(q, claimed, confirmed)
  BY <1>1 DEF Judge
<1>4. Sound([q EXCEPT !.step = step])
  BY <1>2, <1>3 DEF Request, Sound, Unsent, Told
<1>5. Judged([q EXCEPT !.step = step])
  <2>1. CASE step \in {"asking", "sending"}
    <3>1. Allowed(UserRoles[q.user], q.key, q.environment) /\ q.environment # NoEnvironment
      BY <1>2, <1>3, <2>1 DEF Denied, Sound
    <3> QED
      BY <3>1 DEF Request, Judged
  <2>2. CASE step \in {"denied", "ended"}
    BY <1>2, <2>2 DEF Request, Judged, Sound, Unsent, Looking
  <2> QED
    BY <1>3, <2>1, <2>2
<1>6. [q EXCEPT !.step = step] \in Request
  BY <1>3 DEF Request
<1> QED
  BY <1>1, <1>3, <1>4, <1>5, <1>6, StepKeeps DEF Judge

LEMMA SendKeeps ==
  ASSUME OperationsInvariant, NEW r \in Requests, Send(r)
  PROVE  OperationsInvariant'
<1>1. PICK q \in Request : q = requests[r]
  BY RequestsAreTyped DEF OperationsInvariant, Send
<1>2. q.step = "sending" /\ Sound(q) /\ Judged(q) /\ Timely(q)
  BY <1>1, RequestsFitNow DEF Send
<1>3. q.attempts = 0 /\ q.attempts + 1 = 1 /\ 1 \in 0 .. (1 + Retries)
  BY <1>2, OperationsAssumption DEF Sound, Unsent
<1>4. PICK p \in Request : p = [q EXCEPT !.step = "sent", !.attempts = 1, !.onWire = TRUE]
  BY <1>3 DEF Request
<1>5. Fits(p)
  BY <1>2, <1>3, <1>4 DEF Request, Fits, Sound, Judged, Timely, Unsent, Looking
<1>6. requests' = [requests EXCEPT ![r] = p] /\ UNCHANGED <<environment, moves, operations, cache>>
  BY <1>1, <1>3, <1>4 DEF Send, OperationsInvariant, TypeOK
<1> QED
  BY <1>5, <1>6, OneRequestKeeps DEF OperationsInvariant, TypeOK

LEMMA CarryOutKeeps ==
  ASSUME OperationsInvariant, NEW r \in Requests, CarryOut(r)
  PROVE  OperationsInvariant'
<1>1. PICK q \in Request : q = requests[r]
  BY DEF OperationsInvariant, TypeOK, CarryOut
<1>2. q.onWire /\ Sound(q) /\ Judged(q) /\ Timely(q)
  BY <1>1, RequestsFitNow DEF CarryOut
<1>3. q.effects = {} /\ q.environment # NoEnvironment /\ q.step \notin Unsent /\ q.step # "succeeded"
  BY <1>2 DEF Sound, Judged
<1>4. PICK n \in Nat : n = operations + 1 /\ operations' = n
  BY DEF OperationsInvariant, TypeOK, CarryOut
<1>5. PICK place \in Environments : place = environment[q.resource]
  BY DEF OperationsInvariant, TypeOK, Request
<1>6. PICK p \in Request : p = [q EXCEPT !.onWire = FALSE, !.effects = q.effects \union {n}, !.ran = place]
  BY DEF Request
<1>7. /\ p.step = q.step /\ p.user = q.user /\ p.key = q.key /\ p.resource = q.resource
      /\ p.loaded = q.loaded /\ p.environment = q.environment /\ p.asOf = q.asOf
      /\ p.attempts = q.attempts /\ p.audit = q.audit
      /\ ~p.onWire /\ p.effects = {n} /\ p.ran = place
  BY <1>3, <1>6 DEF Request
<1>8. Sound(p)
  BY <1>2, <1>3, <1>7 DEF Sound
<1>9. Judged(p)
  BY <1>2, <1>7 DEF Judged
<1>10. Timely(p)
  BY <1>2, <1>3, <1>5, <1>7 DEF Timely
<1>11. requests' = [requests EXCEPT ![r] = p] /\ UNCHANGED <<environment, moves, cache>>
  BY <1>1, <1>4, <1>5, <1>6 DEF CarryOut, OperationsInvariant, TypeOK
<1> QED
  BY <1>4, <1>8, <1>9, <1>10, <1>11, OneRequestKeeps DEF Fits

LEMMA AnswerKeeps ==
  ASSUME OperationsInvariant, NEW r \in Requests, Answer(r)
  PROVE  OperationsInvariant'
<1>1. PICK q \in Request : q = requests[r]
  BY RequestsAreTyped DEF OperationsInvariant, Answer
<1>2. q.step = "sent" /\ ~q.onWire /\ Sound(q) /\ Judged(q) /\ Timely(q)
  BY <1>1, RequestsFitNow DEF Answer
<1>3. PICK p \in Request : p = [q EXCEPT !.step = "succeeded"]
  BY DEF Request
<1>4. Fits(p)
  BY <1>2, <1>3 DEF Request, Fits, Sound, Judged, Timely, Unsent, Looking
<1>5. requests' = [requests EXCEPT ![r] = p] /\ UNCHANGED <<environment, moves, operations>>
  BY <1>1, <1>3 DEF Answer, Step, OperationsInvariant, TypeOK
<1>6. PICK kind \in Kinds : kind = KindOf(q)
  BY KindsAreKinds
<1>7. cache' = [cache EXCEPT ![kind] = Invalidated(@)]
  BY <1>1, <1>6 DEF Answer
<1>8. CacheIsHonest'
  BY <1>5, <1>7 DEF OperationsInvariant, TypeOK, CacheIsHonest, Honest, Invalidated
<1>9. RequestsFit' /\ requests' \in [Requests -> Request \union {Idle}]
  BY <1>4, <1>5, OneRequestFits DEF OperationsInvariant
<1>10. TypeOK'
  BY <1>5, <1>7, <1>9 DEF OperationsInvariant, TypeOK, Invalidated
<1> QED
  BY <1>8, <1>9, <1>10 DEF OperationsInvariant

LEMMA NoAnswerKeeps ==
  ASSUME OperationsInvariant, NEW r \in Requests, NoAnswer(r)
  PROVE  OperationsInvariant'
<1>1. PICK q \in Request : q = requests[r]
  BY RequestsAreTyped DEF OperationsInvariant, NoAnswer
<1>2. q.step \in {"sending", "sent"} /\ Sound(q) /\ Judged(q) /\ Timely(q)
  BY <1>1, RequestsFitNow DEF NoAnswer
<1>3. CASE Step(r, "failed")
  <2>1. Sound([q EXCEPT !.step = "failed"]) /\ Judged([q EXCEPT !.step = "failed"])
    BY <1>2 DEF Request, Sound, Judged, Unsent
  <2>2. [q EXCEPT !.step = "failed"] \in Request
    BY DEF Request
  <2> QED
    BY <1>1, <1>3, <2>1, <2>2, StepKeeps DEF NoAnswer
<1>4. CASE /\ q.step = "sent" /\ q.onWire
           /\ requests' = [requests EXCEPT ![r].step = "failed", ![r].onWire = FALSE]
  <2>1. PICK p \in Request : p = [q EXCEPT !.step = "failed", !.onWire = FALSE]
    BY DEF Request
  <2>2. Fits(p)
    BY <1>2, <1>4, <2>1 DEF Request, Fits, Sound, Judged, Timely, Unsent, Looking
  <2>3. requests' = [requests EXCEPT ![r] = p] /\ UNCHANGED <<environment, moves, operations, cache>>
    BY <1>1, <1>4, <2>1 DEF NoAnswer, OperationsInvariant, TypeOK
  <2> QED
    BY <2>2, <2>3, OneRequestKeeps DEF OperationsInvariant, TypeOK
<1>5. q.step = "sent" => q.attempts = 1 /\ ~(q.attempts < Attempts(FALSE))
  BY <1>2 DEF Sound, Attempts
<1> QED
  BY <1>1, <1>3, <1>4, <1>5 DEF NoAnswer

LEMMA AuditKeeps ==
  ASSUME OperationsInvariant, NEW r \in Requests, Audit(r)
  PROVE  OperationsInvariant'
<1>1. PICK q \in Request : q = requests[r]
  BY RequestsAreTyped DEF OperationsInvariant, Audit
<1>2. q.step \in {"denied", "succeeded", "failed"} /\ Sound(q) /\ Judged(q) /\ Timely(q)
  BY <1>1, RequestsFitNow DEF Audit
<1>3. PICK audit \in {AuditOf(q.step), "lost"}, step \in {"ended", "recording"} :
        /\ step = IF q.step = "denied" THEN "ended" ELSE "recording"
        /\ requests' = [requests EXCEPT ![r].audit = audit, ![r].step = step]
  BY <1>1 DEF Audit
<1>4. audit \in {"denied", "success", "failure", "lost"} /\ step \in {"ended", "recording"}
  BY <1>3 DEF AuditOf
<1>5. PICK p \in Request : p = [q EXCEPT !.audit = audit, !.step = step]
  <2>1. \A a \in {"denied", "success", "failure", "lost"}, s \in {"ended", "recording"} :
          [q EXCEPT !.audit = a, !.step = s] \in Request
    BY DEF Request
  <2>2. [q EXCEPT !.audit = audit, !.step = step] \in Request
    BY <1>4, <2>1
  <2> QED BY <2>2
<1>6. Fits(p)
  <2>1. CASE q.step = "denied"
    BY <1>2, <1>3, <1>5, <2>1 DEF Request, Fits, Sound, Judged, Timely, Unsent, Looking, AuditOf
  <2>2. CASE q.step \in {"succeeded", "failed"}
    <3>1. step = "recording" /\ audit \in {"success", "failure", "lost"} /\ (audit = "success" => q.effects # {})
      BY <1>2, <1>3, <2>2 DEF AuditOf, Sound
    <3>2. Sound(p)
      BY <1>2, <1>5, <2>2, <3>1 DEF Request, Sound, Unsent, Told
    <3>3. Judged(p)
      BY <1>2, <1>5, <2>2, <3>1 DEF Request, Judged, Looking
    <3>4. Timely(p)
      BY <1>2, <1>5 DEF Request, Timely
    <3> QED BY <3>2, <3>3, <3>4 DEF Fits
  <2> QED
    BY <1>2, <2>1, <2>2
<1>7. requests' = [requests EXCEPT ![r] = p] /\ UNCHANGED <<environment, moves, operations, cache>>
  BY <1>1, <1>3, <1>5 DEF Audit, OperationsInvariant, TypeOK
<1> QED
  BY <1>6, <1>7, OneRequestKeeps DEF OperationsInvariant, TypeOK

LEMMA RecordKeeps ==
  ASSUME OperationsInvariant, NEW r \in Requests, Record(r)
  PROVE  OperationsInvariant'
<1>1. PICK q \in Request : q = requests[r]
  BY RequestsAreTyped DEF OperationsInvariant, Record
<1>2. q.step = "recording" /\ Sound(q) /\ Judged(q)
  BY <1>1, RequestsFitNow DEF Record
<1>3. Sound([q EXCEPT !.step = "ended"]) /\ Judged([q EXCEPT !.step = "ended"])
  BY <1>2 DEF Request, Sound, Judged, Unsent, Looking, Told
<1>4. [q EXCEPT !.step = "ended"] \in Request
  BY DEF Request
<1> QED
  BY <1>1, <1>2, <1>3, <1>4, StepKeeps DEF Record

LEMMA DieKeeps ==
  ASSUME OperationsInvariant, Die
  PROVE  OperationsInvariant'
<1>1. ASSUME NEW r \in Requests
      PROVE  /\ requests'[r] \in Request \union {Idle}
             /\ \A p \in Request : p = requests'[r] => Fits(p)
  <2>1. CASE requests'[r] = requests[r]
    BY <2>1 DEF OperationsInvariant, TypeOK, RequestsFit
  <2>2. CASE requests'[r] # requests[r]
    <3>1. requests[r].step # "idle" /\ requests'[r] = [requests[r] EXCEPT !.step = "died"]
      BY <2>2 DEF Die
    <3>2. PICK q \in Request : q = requests[r]
      BY <3>1, RequestsAreTyped DEF OperationsInvariant
    <3>3. PICK p \in Request : p = [q EXCEPT !.step = "died"]
      BY DEF Request
    <3>4. Sound(q) /\ Judged(q) /\ Timely(q)
      BY <3>2, RequestsFitNow
    <3>5. Fits(p)
      BY <3>3, <3>4 DEF Request, Fits, Sound, Judged, Timely, Unsent, Looking
    <3> QED
      BY <3>1, <3>2, <3>3, <3>5
  <2> QED
    BY <2>1, <2>2
<1>2. TypeOK'
  BY <1>1 DEF OperationsInvariant, TypeOK, Die, Empty
<1>3. CacheIsHonest'
  BY DEF Die, CacheIsHonest, Empty
<1>4. RequestsFit'
  <2>1. UNCHANGED <<environment, moves>>
    BY DEF Die
  <2> QED
    BY <1>1, <2>1, FitsLasts DEF RequestsFit
<1> QED
  BY <1>2, <1>3, <1>4 DEF OperationsInvariant

\* What was true of a resource when it moves is out of date, and no more than that.
LEMMA MoveKeeps ==
  ASSUME OperationsInvariant, NEW resource \in Resources, NEW to \in InUse,
         Move(resource, to)
  PROVE  OperationsInvariant'
<1>1. /\ environment' = [environment EXCEPT ![resource] = to]
      /\ moves' = [moves EXCEPT ![resource] = @ + 1]
      /\ moves[resource] < MaxMoves
      /\ UNCHANGED <<operations, cache, requests>>
  BY DEF Move
<1>2. TypeOK'
  BY <1>1, OperationsAssumption DEF OperationsInvariant, TypeOK
<1>3. ASSUME NEW x \in Resources
      PROVE  /\ moves[x] \in Nat /\ moves'[x] \in Nat /\ moves[x] <= moves'[x]
             /\ environment'[x] = environment[x] \/ moves[x] < moves'[x]
  BY <1>1, OperationsAssumption DEF OperationsInvariant, TypeOK
<1>4. ASSUME NEW inventory \in Inventory, Honest(inventory)
      PROVE  Honest(inventory)'
  <2> SUFFICES ASSUME NEW x \in Resources
               PROVE  /\ inventory.moves[x] <= moves'[x]
                      /\ \/ inventory.environment[x] = environment'[x]
                         \/ inventory.moves[x] < moves'[x]
    BY DEF Honest
  <2>1. inventory.moves[x] \in Nat
    BY OperationsAssumption DEF Inventory
  <2> QED
    BY <1>3, <1>4, <2>1 DEF Honest
<1>5. CacheIsHonest'
  <2> SUFFICES ASSUME NEW kind \in Kinds
               PROVE  /\ cache[kind].fresh => cache[kind].value # NoValue
                      /\ cache[kind].value # NoValue => Honest(cache[kind].value)'
    BY <1>1 DEF CacheIsHonest
  <2>1. CASE cache[kind].value # NoValue
    <3>1. PICK inventory \in Inventory : inventory = cache[kind].value /\ Honest(inventory)
      BY <2>1, CachedIsHonest
    <3>2. Honest(inventory)'
      BY <3>1, <1>4
    <3> QED
      BY <1>1, <2>1, <3>1, <3>2 DEF Honest
  <2>2. CASE cache[kind].value = NoValue
    BY <2>2 DEF OperationsInvariant, CacheIsHonest
  <2> QED
    BY <2>1, <2>2
<1>6. RequestsFit'
  <2> SUFFICES ASSUME NEW r \in Requests, NEW q \in Request, q = requests[r]
               PROVE  Fits(q)'
    BY <1>1 DEF RequestsFit
  <2>1. Sound(q) /\ Judged(q) /\ Timely(q)
    BY RequestsFitNow
  <2>2. q.resource \in Resources /\ q.asOf \in Nat
    BY OperationsAssumption DEF Request
  <2>3. q.loaded # NoValue => Honest(q.loaded)'
    <3> SUFFICES ASSUME q.loaded # NoValue PROVE Honest(q.loaded)'
      OBVIOUS
    <3>1. PICK inventory \in Inventory : inventory = q.loaded /\ Honest(inventory)
      BY <2>1 DEF Request, Timely
    <3> QED
      BY <3>1, <1>4
  <2>4. Timely(q)'
    BY <1>3, <2>1, <2>2, <2>3 DEF Timely
  <2> QED
    BY <2>1, <2>4 DEF Fits, Sound, Judged
<1> QED
  BY <1>2, <1>5, <1>6 DEF OperationsInvariant

LEMMA StepsKeepInvariant ==
  ASSUME OperationsInvariant, [Next]_vars
  PROVE  OperationsInvariant'
<1>1. CASE UNCHANGED vars
  <2>1. UNCHANGED <<environment, moves, operations, cache, requests>>
    BY <1>1 DEF vars
  <2>2. TypeOK' /\ CacheIsHonest'
    BY <2>1, CacheStaysHonest DEF OperationsInvariant, TypeOK
  <2>3. RequestsFit'
    BY <2>1, FitsLasts DEF OperationsInvariant, RequestsFit
  <2> QED
    BY <2>2, <2>3 DEF OperationsInvariant
<1>2. CASE \E resource \in Resources, to \in InUse : Move(resource, to)
  BY <1>2, MoveKeeps
<1>3. CASE \E r \in Requests, user \in Users, key \in Keys \union {"list"},
               resource \in Resources : Begin(r, user, key, resource)
  BY <1>3, BeginKeeps
<1>4. ASSUME NEW r \in Requests,
             \/ Find(r) \/ Miss(r) \/ Load(r) \/ Store(r) \/ FallBack(r) \/ NotFound(r)
      PROVE  OperationsInvariant'
  BY <1>4, FindKeeps, MissKeeps, LoadKeeps, StoreKeeps, FallBackKeeps, NotFoundKeeps
<1>5. CASE \E kind \in Kinds : Expire(kind)
  BY <1>5, ExpireKeeps
<1>6. CASE \E r \in Requests, claimed \in Environments, confirmed, reasoned \in BOOLEAN :
             Judge(r, claimed, confirmed, reasoned)
  BY <1>6, JudgeKeeps
<1>7. ASSUME NEW r \in Requests,
             Send(r) \/ CarryOut(r) \/ Answer(r) \/ NoAnswer(r) \/ Audit(r) \/ Record(r)
      PROVE  OperationsInvariant'
  BY <1>7, SendKeeps, CarryOutKeeps, AnswerKeeps, NoAnswerKeeps, AuditKeeps, RecordKeeps
<1>8. CASE Die
  BY <1>8, DieKeeps
<1> QED
  BY <1>1, <1>2, <1>3, <1>4, <1>5, <1>6, <1>7, <1>8 DEF Next

LEMMA InvariantHolds == Spec => []OperationsInvariant
BY InitKeepsInvariant, StepsKeepInvariant, PTL DEF Spec

\* The gateway, the cache and the world keep their types; in particular the client never
\* attempts a POST more often than a request that may be retried (utils/http.ts).
THEOREM TypeCorrect == Spec => []TypeOK
<1>1. OperationsInvariant => TypeOK
  BY DEF OperationsInvariant
<1> QED
  BY <1>1, InvariantHolds, PTL

\* The trail says what happened to an operation, whatever the wire loses and whenever the
\* process dies (execute, send).
THEOREM AuditTellsWhatHappenedHolds == Spec => []AuditTellsWhatHappened
<1>1. OperationsInvariant => AuditTellsWhatHappened
  <2> SUFFICES ASSUME OperationsInvariant, NEW r \in Requests, requests[r] # Idle
               PROVE  /\ \A m, n \in requests[r].effects : m = n
                      /\ requests[r].audit = "success" => requests[r].effects # {}
                      /\ requests[r].audit = "denied" =>
                           requests[r].effects = {} /\ ~requests[r].onWire
                      /\ requests[r].effects # {} /\ requests[r].step = "ended" =>
                           requests[r].audit \in {"success", "failure", "lost"}
    BY DEF AuditTellsWhatHappened
  <2>1. PICK q \in Request : q = requests[r]
    BY DEF OperationsInvariant, TypeOK
  <2>2. Sound(q)
    BY <2>1, RequestsFitNow
  <2> QED
    BY <2>1, <2>2 DEF Sound, Told
<1> QED
  BY <1>1, InvariantHolds, PTL

\* What is carried out was allowed where it was judged, and is carried out there unless
\* the resource has moved since its inventory was loaded (resolveTarget, wrap).
THEOREM RunsWhereJudgedHolds == Spec => []RunsWhereJudged
<1>1. OperationsInvariant => RunsWhereJudged
  <2> SUFFICES ASSUME OperationsInvariant, NEW r \in Requests, requests[r] # Idle,
                      requests[r].effects # {}
               PROVE  /\ Allowed(UserRoles[requests[r].user], requests[r].key,
                                 requests[r].environment)
                      /\ \/ requests[r].ran = requests[r].environment
                         \/ requests[r].asOf < moves[requests[r].resource]
    BY DEF RunsWhereJudged
  <2>1. PICK q \in Request : q = requests[r]
    BY DEF OperationsInvariant, TypeOK
  <2>2. Judged(q) /\ Timely(q)
    BY <2>1, RequestsFitNow
  <2> QED
    BY <2>1, <2>2 DEF Judged, Timely
<1> QED
  BY <1>1, InvariantHolds, PTL

\* A request whose operation is known to be done.
Known(q) == q.step = "succeeded" \/ q.audit = "success"

\* What is known after a step was known before it, or has just been answered.
Recalled(r, q) ==
  /\ requests[r] # Idle /\ KindOf(requests[r]) = KindOf(q)
  /\ q.effects \subseteq requests[r].effects
  /\ Known(requests[r]) \/ Answer(r)

LEMMA SameIsRecalled ==
  ASSUME OperationsInvariant, NEW r \in Requests, NEW q \in Request, q = requests[r], Known(q)
  PROVE  Recalled(r, q)
BY RequestsAreNotIdle DEF Recalled

\* A step of a request that has not been audited, and is not answered, makes nothing known.
LEMMA UnknownStays ==
  ASSUME OperationsInvariant, NEW r \in Requests, NEW p \in Request, p = requests'[r],
         NEW q \in Request, q = requests[r], q.step \in Unsent \union {"sent"},
         p.audit = q.audit, p.step # "succeeded"
  PROVE  ~Known(p)
BY RequestsFitNow DEF Sound, Known

LEMMA GivenIsUnknown ==
  ASSUME NEW q \in Request, NEW inventory
  PROVE  /\ Given(q, inventory).audit = q.audit
         /\ Given(q, inventory).step \in {"ended", "judging", "sending", "failed"}
<1>1. CASE q.key = "list"
  BY <1>1 DEF Given, Request
<1>2. CASE q.key # "list" /\ q.environment = NoEnvironment
  <2>1. CASE Visible(q, inventory.environment[q.resource])
    BY <1>2, <2>1 DEF Given, Request
  <2>2. CASE ~Visible(q, inventory.environment[q.resource])
    BY <1>2, <2>2 DEF Given, Request
  <2> QED BY <2>1, <2>2
<1>3. CASE q.key # "list" /\ q.environment # NoEnvironment
  <2>1. CASE Visible(q, inventory.environment[q.resource])
    BY <1>3, <2>1 DEF Given, Request
  <2>2. CASE ~Visible(q, inventory.environment[q.resource])
    BY <1>3, <2>2 DEF Given, Request
  <2> QED BY <2>1, <2>2
<1> QED BY <1>1, <1>2, <1>3

LEMMA FindingMakesNothingKnown ==
  ASSUME OperationsInvariant, NEW r \in Requests,
         Find(r) \/ Miss(r) \/ Load(r) \/ Store(r) \/ FallBack(r) \/ NotFound(r),
         NEW p \in Request, p = requests'[r]
  PROVE  ~Known(p)
<1>1. PICK q \in Request : q = requests[r]
  BY RequestsAreTyped DEF OperationsInvariant, Find, Miss, Load, Store, FallBack, NotFound
<1>2. q.step \in Unsent
  BY <1>1 DEF Find, Miss, Load, Store, FallBack, NotFound, Unsent
<1>3. p.audit = q.audit /\ p.step # "succeeded"
  <2>1. CASE Find(r) \/ Store(r) \/ FallBack(r)
    <3>1. PICK inventory : p = Given(q, inventory)
      BY <1>1, <2>1 DEF Find, Store, FallBack, OperationsInvariant, TypeOK
    <3> QED
      BY <3>1, GivenIsUnknown
  <2>2. CASE Miss(r) \/ Load(r) \/ NotFound(r)
    BY <1>1, <2>2 DEF Miss, Load, NotFound, Step, OperationsInvariant, TypeOK, Request
  <2> QED
    BY <2>1, <2>2
<1> QED
  BY <1>1, <1>2, <1>3, UnknownStays

LEMMA OthersStay ==
  ASSUME OperationsInvariant, NEW r \in Requests, NEW s \in Requests, s # r,
         \/ Find(s) \/ Miss(s) \/ Load(s) \/ Store(s) \/ FallBack(s) \/ NotFound(s)
         \/ Send(s) \/ CarryOut(s) \/ Answer(s) \/ NoAnswer(s) \/ Audit(s) \/ Record(s)
  PROVE  requests'[r] = requests[r]
BY DEF Find, Miss, Load, Store, FallBack, NotFound, Send, CarryOut, Answer, NoAnswer, Audit,
       Record, Step, OperationsInvariant, TypeOK

LEMMA SendingRecalls ==
  ASSUME OperationsInvariant, NEW r \in Requests,
         Send(r) \/ CarryOut(r) \/ Answer(r) \/ NoAnswer(r) \/ Audit(r) \/ Record(r),
         NEW p \in Request, p = requests'[r], Known(p)
  PROVE  Recalled(r, p)
<1>1. PICK q \in Request : q = requests[r]
  BY RequestsAreTyped
     DEF OperationsInvariant, TypeOK, Send, CarryOut, Answer, NoAnswer, Audit, Record
<1>2. Sound(q) /\ requests[r] # Idle
  BY <1>1, RequestsFitNow, RequestsAreNotIdle
<1>3. CASE Send(r) \/ NoAnswer(r)
  <2>1. q.step \in Unsent \union {"sent"}
    BY <1>1, <1>3 DEF Send, NoAnswer, Unsent
  <2>2. p.audit = q.audit /\ p.step \in {"sent", "sending", "failed"}
    <3>1. CASE Send(r)
      BY <1>1, <3>1 DEF Send, OperationsInvariant, TypeOK, Request
    <3>2. CASE requests' = [requests EXCEPT ![r].step = "failed", ![r].onWire = FALSE]
      BY <1>1, <3>2 DEF OperationsInvariant, TypeOK, Request
    <3>3. CASE Step(r, "failed") \/ Step(r, "sending")
      BY <1>1, <3>3 DEF Step, OperationsInvariant, TypeOK, Request
    <3> QED
      BY <1>3, <3>1, <3>2, <3>3 DEF NoAnswer
  <2> QED
    BY <1>1, <2>1, <2>2, UnknownStays
<1>4. CASE CarryOut(r)
  <2>1. q.onWire /\ p.step = q.step /\ p.audit = q.audit
    BY <1>1, <1>4 DEF CarryOut, OperationsInvariant, TypeOK, Request
  <2> QED
    BY <1>2, <2>1 DEF Sound, Known
<1>5. CASE Answer(r)
  <2>1. p.resource = q.resource /\ p.effects = q.effects
    BY <1>1, <1>5 DEF Answer, Step, OperationsInvariant, TypeOK, Request
  <2> QED
    BY <1>1, <1>2, <1>5, <2>1 DEF Recalled, KindOf
<1>6. CASE Audit(r)
  <2>1. PICK audit \in {AuditOf(q.step), "lost"}, step \in {"ended", "recording"} :
          /\ step = IF q.step = "denied" THEN "ended" ELSE "recording"
          /\ requests' = [requests EXCEPT ![r].audit = audit, ![r].step = step]
    BY <1>1, <1>6 DEF Audit
  <2>2. p = [q EXCEPT !.audit = audit, !.step = step]
    BY <1>1, <2>1 DEF OperationsInvariant, TypeOK
  <2>3. p.resource = q.resource /\ p.effects = q.effects /\ p.audit = audit /\ p.step = step
    BY <2>2 DEF Request
  <2>4. audit = "success" => q.step = "succeeded"
    BY <1>1, <1>6, <2>1 DEF Audit, AuditOf
  <2> QED
    BY <1>1, <1>2, <2>1, <2>3, <2>4 DEF Recalled, Known, KindOf
<1>7. CASE Record(r)
  <2>1. /\ p.resource = q.resource /\ p.effects = q.effects
        /\ p.audit = q.audit /\ p.step = "ended"
    BY <1>1, <1>7 DEF Record, Step, OperationsInvariant, TypeOK, Request
  <2> QED
    BY <1>1, <1>2, <2>1 DEF Recalled, Known, KindOf
<1> QED
  BY <1>3, <1>4, <1>5, <1>6, <1>7

LEMMA StepsRecall ==
  ASSUME OperationsInvariant, [Next]_vars, NEW r \in Requests,
         NEW p \in Request, p = requests'[r], Known(p)
  PROVE  Recalled(r, p)
<1>1. CASE requests'[r] = requests[r]
  BY <1>1, SameIsRecalled
<1>2. CASE requests'[r] # requests[r]
  <2>1. ~UNCHANGED vars /\ ~\E kind \in Kinds : Expire(kind)
    BY <1>2 DEF vars, Expire
  <2>2. ~\E resource \in Resources, to \in InUse : Move(resource, to)
    BY <1>2 DEF Move
  <2>3. ASSUME NEW s \in Requests, NEW user \in Users, NEW key \in Keys \union {"list"},
               NEW resource \in Resources, Begin(s, user, key, resource)
        PROVE  FALSE
    <3>1. p.step = "asking" /\ p.audit = "none"
      BY <1>2, <2>3 DEF Begin, OperationsInvariant, TypeOK
    <3> QED
      BY <3>1 DEF Known
  <2>4. ASSUME NEW s \in Requests, NEW claimed \in Environments, NEW confirmed \in BOOLEAN,
               NEW reasoned \in BOOLEAN, Judge(s, claimed, confirmed, reasoned)
        PROVE  FALSE
    <3>1. s = r
      BY <1>2, <2>4 DEF Judge, Step, OperationsInvariant, TypeOK
    <3>2. PICK q \in Request : q = requests[r] /\ q.step = "judging"
      BY <2>4, <3>1, RequestsAreTyped DEF Judge, OperationsInvariant
    <3>3. p.audit = q.audit /\ p.step # "succeeded"
      BY <2>4, <3>1, <3>2 DEF Judge, Step, OperationsInvariant, TypeOK, Request
    <3> QED
      BY <3>2, <3>3, UnknownStays DEF Unsent
  <2>5. ASSUME NEW s \in Requests,
               \/ Find(s) \/ Miss(s) \/ Load(s) \/ Store(s) \/ FallBack(s) \/ NotFound(s)
        PROVE  FALSE
    <3>1. s = r
      BY <1>2, <2>5, OthersStay
    <3> QED
      BY <2>5, <3>1, FindingMakesNothingKnown
  <2>6. ASSUME NEW s \in Requests,
               Send(s) \/ CarryOut(s) \/ Answer(s) \/ NoAnswer(s) \/ Audit(s) \/ Record(s)
        PROVE  Recalled(r, p)
    <3>1. s = r
      BY <1>2, <2>6, OthersStay
    <3> QED
      BY <2>6, <3>1, SendingRecalls
  <2>7. CASE Die
    <3>1. requests[r].step # "idle" /\ requests'[r] = [requests[r] EXCEPT !.step = "died"]
      BY <1>2, <2>7 DEF Die
    <3>2. PICK q \in Request : q = requests[r] /\ q # Idle
      BY <3>1, RequestsAreTyped DEF OperationsInvariant
    <3>3. /\ p.resource = q.resource /\ p.effects = q.effects
          /\ p.audit = q.audit /\ p.step = "died"
      BY <3>1, <3>2 DEF Request
    <3> QED
      BY <3>2, <3>3 DEF Recalled, Known, KindOf
  <2> QED
    BY <2>1, <2>2, <2>3, <2>4, <2>5, <2>6, <2>7 DEF Next
<1> QED
  BY <1>1, <1>2

\* Only a load that has come back is stored; every other step leaves an entry alone or
\* takes it out of service.
LEMMA OnlyLoadsAreServed ==
  ASSUME OperationsInvariant, [Next]_vars, NEW kind \in Kinds, cache'[kind].fresh,
         ~\E s \in Requests : KindOf(requests[s]) = kind /\ Store(s)
  PROVE  /\ cache'[kind] = cache[kind]
         /\ \A s \in Requests : Answer(s) => KindOf(requests[s]) # kind
<1>1. \A s \in Requests : Answer(s) =>
        cache' = [cache EXCEPT ![KindOf(requests[s])] = Invalidated(@)]
  BY DEF Answer
<1>2. \A s \in Requests : Answer(s) => KindOf(requests[s]) # kind
  BY <1>1 DEF Invalidated, OperationsInvariant, TypeOK
<1>3. cache'[kind] = cache[kind]
  <2>1. CASE \E s \in Requests : Store(s)
    BY <2>1 DEF Store, OperationsInvariant, TypeOK
  <2>2. CASE \E s \in Requests : Answer(s)
    BY <1>1, <1>2, <2>2 DEF OperationsInvariant, TypeOK
  <2>3. CASE \E k \in Kinds : Expire(k)
    BY <2>3 DEF Expire, Expired, OperationsInvariant, TypeOK
  <2>4. CASE Die
    BY <2>4 DEF Die, Empty
  <2>5. CASE UNCHANGED cache
    BY <2>5
  <2> QED
    BY <2>1, <2>2, <2>3, <2>4, <2>5
       DEF Next, vars, Move, Begin, Find, Miss, Load, FallBack, NotFound, Judge, Send, CarryOut,
           NoAnswer, Audit, Record
<1> QED
  BY <1>2, <1>3

\* Invalidating an inventory hides no operation that was answered, but for a load that was
\* under way (wrap, invalidate).
THEOREM OnlyOvertakenLoadsHideHolds == Spec => OnlyOvertakenLoadsHide
<1>1. ASSUME OperationsInvariant, OperationsInvariant', [Next]_vars,
             NEW kind \in Kinds, ~Hides(kind), Hides(kind)'
      PROVE  \E r \in Requests : /\ requests[r].step = "loaded"
                                 /\ requests'[r].step # "loaded"
                                 /\ KindOf(requests[r]) = kind
  <2>1. CASE \E s \in Requests : KindOf(requests[s]) = kind /\ Store(s)
    <3>1. PICK s \in Requests : KindOf(requests[s]) = kind /\ Store(s)
      BY <2>1
    <3>2. PICK q \in Request : q = requests[s]
      BY <1>1, <3>1, RequestsAreTyped DEF OperationsInvariant, Store
    <3>3. PICK inventory : requests'[s] = Given(q, inventory)
      BY <1>1, <3>1, <3>2 DEF Store, OperationsInvariant, TypeOK
    <3>4. requests'[s].step # "loaded"
      BY <3>3, GivenIsUnknown
    <3> QED
      BY <3>1, <3>4 DEF Store
  <2>2. CASE ~\E s \in Requests : KindOf(requests[s]) = kind /\ Store(s)
    <3>1. cache'[kind].fresh
      BY <1>1 DEF Hides
    <3>2. /\ cache'[kind] = cache[kind]
          /\ \A s \in Requests : Answer(s) => KindOf(requests[s]) # kind
      BY <1>1, <2>2, <3>1, OnlyLoadsAreServed
    <3>3. PICK r \in Requests, p \in Request :
            /\ p = requests'[r] /\ Known(p) /\ KindOf(p) = kind
            /\ \E n \in p.effects : cache'[kind].value.operations < n
      BY <1>1 DEF Hides, Known, KindOf, OperationsInvariant, TypeOK
    <3>4. Recalled(r, p)
      BY <1>1, <3>3, StepsRecall
    <3>5. Hides(kind)
      BY <3>1, <3>2, <3>3, <3>4 DEF Recalled, Known, Hides
    <3> QED
      BY <1>1, <3>5
  <2> QED
    BY <2>1, <2>2
<1>2. OperationsInvariant /\ OperationsInvariant' /\ [Next]_vars =>
        \A kind \in Kinds : ~Hides(kind) /\ Hides(kind)' =>
          \E r \in Requests : /\ requests[r].step = "loaded"
                              /\ requests'[r].step # "loaded"
                              /\ KindOf(requests[r]) = kind
  BY <1>1
<1> QED
  BY <1>2, InvariantHolds, PTL DEF Spec, OnlyOvertakenLoadsHide

\* Operations run where they were judged, and the audit trail tells what happened.
THEOREM GatewayCorrect == Spec => []GatewayInvariant
<1>1. TypeOK /\ AuditTellsWhatHappened /\ RunsWhereJudged => GatewayInvariant
  BY DEF GatewayInvariant
<1> QED BY <1>1, TypeCorrect, AuditTellsWhatHappenedHolds, RunsWhereJudgedHolds, PTL
----------------------------------------------------------------------------
\* Running an operation from a page (OperationDialog).

LEMMA DialogTyped ==
  ASSUME OpTypeOK
  PROVE  /\ opPage \in {"digitalocean", "proxmox", "services"} /\ drawer \in Listed \union {Nothing}
         /\ queries \in [QueryNames -> Query] /\ (\A q \in QueryNames : queries[q] \in Query)
         /\ target \in Target \union {Nothing} /\ typing \in Typing /\ submit \in Submit \union {Nothing}
         /\ accepted \in [Listed -> Versions] /\ (\A r \in Listed : accepted[r] \in Versions)
         /\ dialogs \in Nat /\ dialogs <= MaxRequests /\ MaxRequests \in Nat /\ Versions = 0 .. MaxRequests
         /\ Listed # {} /\ "list" \notin Listed /\ "list" \in QueryNames /\ Listed \subseteq QueryNames
         /\ Nothing \notin QueryNames /\ Nothing \notin Versions /\ Nothing \notin Target /\ Nothing \notin Submit
BY DialogAssumption DEF OpTypeOK, Versions, QueryNames

\* The last operation accepted: there is one, and none is later.
LEMMA LatestIsLast ==
  ASSUME OpTypeOK, OperationsAreCounted
  PROVE  /\ Latest \in Versions /\ Latest \in Nat
         /\ \A r \in Listed : accepted[r] \in Nat /\ accepted[r] <= Latest
<1>1. PICK r \in Listed : \A s \in Listed : accepted[s] <= accepted[r]
  BY DEF OperationsAreCounted
<1>2. accepted[r] \in {accepted[s] : s \in Listed} /\ \A m \in {accepted[s] : s \in Listed} : m <= accepted[r]
  BY <1>1
<1>3. Latest \in {accepted[s] : s \in Listed} /\ \A m \in {accepted[s] : s \in Listed} : m <= Latest
  BY <1>2, Zenon DEF Latest
<1>4. (\A s \in Listed : accepted[s] \in Versions) /\ Versions \subseteq Nat
  BY DialogTyped
<1> QED BY <1>3, <1>4

\* When all is counted as before, the last one stays the last.
LEMMA LatestStays ==
  ASSUME accepted' = accepted PROVE Latest' = Latest
BY DEF Latest

\* The last of what is accepted, when one more is.
LEMMA LatestGrows ==
  ASSUME OpTypeOK, OperationsAreCounted, NEW r \in Listed, accepted' = [accepted EXCEPT ![r] = Latest + 1]
  PROVE  /\ Latest' = Latest + 1 /\ \A s \in Listed : accepted'[s] <= accepted'[r]
         /\ accepted'[r] = Latest + 1 /\ \A s \in Listed \ {r} : accepted'[s] = accepted[s]
<1>0. Latest \in Nat /\ \A s \in Listed : accepted[s] \in Nat /\ accepted[s] <= Latest
  BY LatestIsLast
<1>1. accepted'[r] = Latest + 1 /\ \A s \in Listed \ {r} : accepted'[s] = accepted[s]
  BY DialogTyped
<1>2. \A s \in Listed : accepted'[s] \in Nat /\ accepted'[s] <= Latest + 1
  BY <1>0, <1>1
<1>3. PICK all : all = {accepted'[s] : s \in Listed}
  OBVIOUS
<1>4. Latest + 1 \in all /\ \A m \in all : m \in Nat /\ m <= Latest + 1
  BY <1>1, <1>2, <1>3
<1>5. Latest' = CHOOSE n \in all : \A m \in all : m <= n
  BY <1>3 DEF Latest
<1>6. PICK last : last = CHOOSE n \in all : \A m \in all : m <= n
  OBVIOUS
<1>7. last \in all /\ \A m \in all : m <= last
  BY <1>4, <1>6, Zenon
<1>8. last = Latest + 1
  BY <1>0, <1>4, <1>7
<1> QED BY <1>1, <1>2, <1>5, <1>6, <1>8

\* One query is read, arrives or fails, and nothing else changes.
LEMMA QueryTurns ==
  ASSUME DialogInvariant, NEW q \in QueryNames, NEW query \in Query,
         queries' = [queries EXCEPT ![q] = query],
         UNCHANGED <<opPage, drawer, target, typing, submit, accepted, dialogs>>,
         query.read # Nothing => query.fetching,
         \A version \in Nat : version <= Latest /\ Settled(q, version) =>
           /\ query.read # Nothing => query.overtaken \/ query.read >= version
           /\ Current(query, version) \/ (query.stale /\ q \notin Mounted)
  PROVE  DialogInvariant'
<1>0. OpTypeOK /\ OperationsAreCounted /\ QueriesSettle
  BY DEF DialogInvariant, DialogPromise
<1>1. /\ queries' \in [QueryNames -> Query] /\ queries'[q] = query
      /\ \A p \in QueryNames \ {q} : queries'[p] = queries[p]
  BY <1>0, DialogTyped
<1>2. Latest' = Latest /\ Mounted' = Mounted
  BY LatestStays DEF Mounted
<1>3. ASSUME NEW p \in QueryNames, NEW version \in Nat, version <= Latest, Settled(p, version)
      PROVE  /\ queries'[p].read # Nothing => queries'[p].overtaken \/ queries'[p].read >= version
             /\ Current(queries'[p], version) \/ (queries'[p].stale /\ p \notin Mounted')
  <2>1. CASE p = q
    BY <1>1, <1>2, <1>3, <2>1
  <2>2. CASE p # q
    BY <1>1, <1>2, <1>3, <2>2 DEF Settled
  <2> QED BY <2>1, <2>2
<1>4. OpTypeOK'
  BY <1>0, <1>1 DEF OpTypeOK
<1>5. OperationsAreCounted' /\ DialogsStay'
  BY <1>2 DEF DialogInvariant, OperationsAreCounted, DialogsStay
<1>6. QueriesSettle'
  <2>1. \A p \in QueryNames : queries'[p].read # Nothing => queries'[p].fetching
    BY <1>0, <1>1 DEF QueriesSettle
  <2>2. ListPending' \/ Settled("list", Latest)'
    <3>1. "list" \in QueryNames /\ Latest \in Nat /\ Latest <= Latest
      BY <1>0, DialogTyped, LatestIsLast
    <3>2. ListPending' = ListPending
      BY DEF ListPending
    <3> QED BY <1>0, <1>2, <1>3, <3>1, <3>2 DEF QueriesSettle, Settled
  <2>3. ASSUME NEW r \in Listed, opPage # "proxmox" PROVE ResourcePending(r)' \/ Settled(r, accepted[r])'
    <3>1. r \in QueryNames /\ accepted[r] \in Nat /\ accepted[r] <= Latest
      BY <1>0, DialogTyped, LatestIsLast
    <3>2. ResourcePending(r)' = ResourcePending(r)
      BY DEF ResourcePending
    <3> QED BY <1>0, <1>2, <1>3, <2>3, <3>1, <3>2 DEF QueriesSettle, Settled
  <2> QED BY <2>1, <2>2, <2>3 DEF QueriesSettle
<1>7. AnswersFindTheirDialog' /\ ConfirmationsAreTheirOwn'
  BY DEF DialogInvariant, DialogPromise, AnswersFindTheirDialog, ConfirmationsAreTheirOwn
<1>8. OutcomesAreShown'
  BY <1>0, <1>4, <1>6 DEF OutcomesAreShown, QueriesSettle, Settled, ListPending, ResourcePending, Mounted, OpTypeOK
<1> QED BY <1>4, <1>5, <1>6, <1>7, <1>8 DEF DialogInvariant, DialogPromise

\* Once no operation is pending, what has settled is what is to be shown.
LEMMA OutcomesFollow ==
  ASSUME OpTypeOK, QueriesSettle PROVE OutcomesAreShown
BY DEF OutcomesAreShown, QueriesSettle, Settled, ListPending, ResourcePending, Mounted, OpTypeOK

\* A query is read, arrives, fails or is asked once more.
LEMMA QueryKeeps ==
  ASSUME DialogInvariant, NEW q \in QueryNames,
         ReadQuery(q) \/ QueryArrives(q) \/ QueryFails(q) \/ FocusOrInterval(q)
  PROVE  DialogInvariant'
<1>0. OpTypeOK /\ OperationsAreCounted /\ QueriesSettle /\ queries[q] \in Query /\ Latest \in Versions
      /\ Nothing \notin Versions /\ Latest \in Nat /\ queries \in [QueryNames -> Query] /\ Versions \subseteq Nat
      /\ (queries[q].read # Nothing => queries[q].fetching)
  BY DialogTyped, LatestIsLast DEF DialogInvariant, DialogPromise, QueriesSettle
<1>1. CASE ReadQuery(q)
  <2>1. PICK query : query = [queries[q] EXCEPT !.read = Latest, !.overtaken = FALSE]
    OBVIOUS
  <2>2. /\ query \in Query /\ query.read = Latest /\ query.fetching = queries[q].fetching
    BY <1>0, <2>1 DEF Query
  <2>3. queries' = [queries EXCEPT ![q].read = Latest, ![q].overtaken = FALSE] /\ queries[q].fetching
    BY <1>1 DEF ReadQuery
  <2>4. queries' = [queries EXCEPT ![q] = query]
    BY <1>0, <2>1, <2>3
  <2>5. UNCHANGED <<opPage, drawer, target, typing, submit, accepted, dialogs>>
    BY <1>1 DEF ReadQuery
  <2> QED BY <1>0, <2>2, <2>3, <2>4, <2>5, QueryTurns DEF Current
<1>2. CASE QueryArrives(q)
  <2>1. PICK query : query = [queries[q] EXCEPT !.at = queries[q].read, !.read = Nothing, !.stale = FALSE]
    OBVIOUS
  <2>2. /\ query \in Query /\ query.read = Nothing /\ query.at = queries[q].read
        /\ query.overtaken = queries[q].overtaken
    BY <1>0, <2>1 DEF Query
  <2>3. PICK new : new = [query EXCEPT !.failed = FALSE, !.fetching = FALSE]
    OBVIOUS
  <2>4. /\ new \in Query /\ new.read = Nothing /\ new.at = queries[q].read /\ new.overtaken = queries[q].overtaken
    BY <2>2, <2>3 DEF Query
  <2>5. queries' = [queries EXCEPT ![q].at = queries[q].read, ![q].read = Nothing, ![q].stale = FALSE,
                                   ![q].failed = FALSE, ![q].fetching = FALSE] /\ queries[q].read # Nothing
    BY <1>2 DEF QueryArrives
  <2>6. queries' = [queries EXCEPT ![q] = new]
    BY <1>0, <2>1, <2>3, <2>5
  <2>7. UNCHANGED <<opPage, drawer, target, typing, submit, accepted, dialogs>>
    BY <1>2 DEF QueryArrives
  <2>8. ASSUME NEW version \in Nat, Settled(q, version)
        PROVE  Current(new, version)
    BY <2>4, <2>5, <2>8 DEF Settled, Current
  <2> QED BY <2>4, <2>6, <2>7, <2>8, QueryTurns
<1>3. CASE QueryFails(q)
  <2>1. PICK query : query = [queries[q] EXCEPT !.fetching = FALSE, !.read = Nothing, !.failed = TRUE]
    OBVIOUS
  <2>2. /\ query \in Query /\ query.read = Nothing /\ query.failed
    BY <1>0, <2>1 DEF Query
  <2>3. queries' = [queries EXCEPT ![q].fetching = FALSE, ![q].read = Nothing, ![q].failed = TRUE]
    BY <1>3 DEF QueryFails
  <2>4. queries' = [queries EXCEPT ![q] = query]
    BY <1>0, <2>1, <2>3
  <2>5. UNCHANGED <<opPage, drawer, target, typing, submit, accepted, dialogs>>
    BY <1>3 DEF QueryFails
  <2> QED BY <2>2, <2>4, <2>5, QueryTurns DEF Current
<1>4. CASE FocusOrInterval(q)
  <2>1. PICK query : query = [queries[q] EXCEPT !.fetching = TRUE]
    OBVIOUS
  <2>2. /\ query \in Query /\ query.read = queries[q].read /\ query.fetching /\ query.overtaken = queries[q].overtaken
    BY <1>0, <2>1 DEF Query
  <2>3. queries' = [queries EXCEPT ![q] = query]
    BY <1>4, <2>1 DEF FocusOrInterval
  <2>4. UNCHANGED <<opPage, drawer, target, typing, submit, accepted, dialogs>>
    BY <1>4 DEF FocusOrInterval
  <2>5. ASSUME NEW version \in Nat, Settled(q, version)
        PROVE  query.read # Nothing => query.overtaken \/ query.read >= version
    BY <2>2, <2>5 DEF Settled
  <2> QED BY <2>2, <2>3, <2>4, <2>5, QueryTurns DEF Current
<1> QED BY <1>1, <1>2, <1>3, <1>4

\* A drawer is opened, whose query is fetched when it was marked, or closed.
LEMMA DrawerKeeps ==
  ASSUME DialogInvariant, Deselect \/ \E r \in Listed, aged \in BOOLEAN : Select(r, aged)
  PROVE  DialogInvariant'
<1>0. OpTypeOK /\ OperationsAreCounted /\ QueriesSettle /\ queries \in [QueryNames -> Query]
      /\ "list" \in QueryNames /\ "list" \notin Listed /\ Listed \subseteq QueryNames
      /\ Nothing \notin QueryNames
  BY DialogTyped DEF DialogInvariant, DialogPromise
<1>1. UNCHANGED <<opPage, target, typing, submit, accepted, dialogs>> /\ drawer' \in Listed \union {Nothing}
      /\ Latest' = Latest
  BY LatestStays DEF Deselect, Select
<1>2. /\ queries' \in [QueryNames -> Query]
      /\ \A q \in QueryNames :
           /\ queries'[q].at = queries[q].at /\ queries'[q].read = queries[q].read
           /\ queries'[q].overtaken = queries[q].overtaken /\ queries'[q].failed = queries[q].failed
           /\ queries'[q].stale = queries[q].stale /\ (queries[q].fetching => queries'[q].fetching)
      /\ drawer' # Nothing /\ queries[drawer'].stale => queries'[drawer'].fetching
  <2>1. CASE Deselect
    BY <1>0, <2>1 DEF Deselect
  <2>2. ASSUME NEW r \in Listed, NEW aged \in BOOLEAN, Select(r, aged)
        PROVE  <1>2!:
    <3>1. PICK query : query = [queries[r] EXCEPT !.fetching = queries[r].fetching \/ queries[r].stale \/ aged]
      OBVIOUS
    <3>2. queries' = [queries EXCEPT ![r].fetching = @ \/ queries[r].stale \/ aged] /\ drawer' = r
      BY <2>2 DEF Select
    <3>3. queries' = [queries EXCEPT ![r] = query]
      BY <1>0, <3>1, <3>2
    <3>4. queries[r] \in Query
      BY <1>0
    <3>5. /\ query.fetching = (queries[r].fetching \/ queries[r].stale \/ aged)
          /\ query \in Query /\ query.at = queries[r].at /\ query.read = queries[r].read
          /\ query.overtaken = queries[r].overtaken /\ query.failed = queries[r].failed /\ query.stale = queries[r].stale
      BY <3>1, <3>4 DEF Query
    <3> QED BY <1>0, <3>2, <3>3, <3>5
  <2> QED BY <2>1, <2>2
<1>3. OpTypeOK'
  BY <1>0, <1>1, <1>2 DEF OpTypeOK
<1>4. OperationsAreCounted' /\ DialogsStay' /\ AnswersFindTheirDialog' /\ ConfirmationsAreTheirOwn'
  BY <1>1 DEF DialogInvariant, DialogPromise, OperationsAreCounted, DialogsStay, AnswersFindTheirDialog,
              ConfirmationsAreTheirOwn
<1>5. ASSUME NEW q \in QueryNames, NEW version, Settled(q, version)
      PROVE  /\ queries'[q].read # Nothing => queries'[q].overtaken \/ queries'[q].read >= version
             /\ Current(queries'[q], version) \/ (queries'[q].stale /\ q \notin Mounted')
  <2>1. queries'[q].read # Nothing => queries'[q].overtaken \/ queries'[q].read >= version
    BY <1>2, <1>5 DEF Settled
  <2>2. CASE Current(queries[q], version)
    BY <1>2, <2>1, <2>2 DEF Current
  <2>3. CASE queries[q].stale /\ q \notin Mounted
    <3>1. q = drawer' => queries'[q].fetching
      BY <1>0, <1>2, <2>3
    <3>2. q # "list" /\ queries'[q].stale
      BY <1>2, <2>3 DEF Mounted
    <3> QED BY <2>1, <3>1, <3>2 DEF Mounted, Current
  <2> QED BY <1>5, <2>2, <2>3 DEF Settled
<1>6. QueriesSettle'
  <2>1. \A q \in QueryNames : queries'[q].read # Nothing => queries'[q].fetching
    BY <1>0, <1>2 DEF QueriesSettle
  <2>2. ListPending' \/ Settled("list", Latest)'
    <3>1. ListPending' = ListPending
      BY <1>1 DEF ListPending
    <3> QED BY <1>0, <1>1, <1>5, <3>1 DEF QueriesSettle, Settled
  <2>3. ASSUME NEW r \in Listed, opPage # "proxmox" PROVE ResourcePending(r)' \/ Settled(r, accepted[r])'
    <3>1. ResourcePending(r)' = ResourcePending(r)
      BY <1>1 DEF ResourcePending
    <3> QED BY <1>0, <1>1, <1>5, <2>3, <3>1 DEF QueriesSettle, Settled
  <2> QED BY <1>1, <2>1, <2>2, <2>3 DEF QueriesSettle
<1>7. OutcomesAreShown'
  BY <1>3, <1>6, OutcomesFollow, PTL
<1> QED BY <1>3, <1>4, <1>6, <1>7 DEF DialogInvariant, DialogPromise

\* Queries settle as before when nothing but the wait for their invalidation changes.
LEMMA QueriesRest ==
  ASSUME DialogInvariant, OpTypeOK', UNCHANGED <<opPage, drawer, queries, accepted>>,
         ListPending => ListPending', \A r \in Listed : ResourcePending(r) => ResourcePending(r)'
  PROVE  QueriesSettle' /\ OutcomesAreShown'
<1>1. Latest' = Latest
  BY LatestStays
<1>2. \A q, version : Settled(q, version) => Settled(q, version)'
  BY DEF Settled, Current, Mounted
<1>3. QueriesSettle'
  <2>1. (ListPending \/ Settled("list", Latest)) => (ListPending' \/ Settled("list", Latest)')
    BY <1>1 DEF Settled, Current, Mounted
  <2>2. \A r \in Listed : ResourcePending(r) \/ Settled(r, accepted[r])
                            => ResourcePending(r)' \/ Settled(r, accepted[r])'
    BY DEF Settled, Current, Mounted
  <2> QED BY <2>1, <2>2 DEF DialogInvariant, QueriesSettle
<1> QED BY <1>3, OutcomesFollow, PTL

\* The dialog is opened, left or typed in.
LEMMA TargetKeeps ==
  ASSUME DialogInvariant, (\E r \in Listed : RequestOp(r)) \/ CancelOp \/ TypeName
  PROVE  DialogInvariant'
<1>0. /\ OpTypeOK /\ OperationsAreCounted /\ DialogsStay /\ AnswersFindTheirDialog /\ ConfirmationsAreTheirOwn
      /\ typing \in Typing /\ target \in Target \union {Nothing} /\ submit \in Submit \union {Nothing}
      /\ Nothing \notin Target /\ Nothing \notin Submit /\ dialogs \in Nat /\ MaxRequests \in Nat
      /\ Versions = 0 .. MaxRequests /\ Latest \in Nat
  BY DialogTyped, LatestIsLast DEF DialogInvariant, DialogPromise
<1>1. UNCHANGED <<opPage, drawer, queries, submit, accepted>> /\ Latest' = Latest
  BY LatestStays DEF RequestOp, CancelOp, TypeName
<1>2. ASSUME NEW r \in Listed, RequestOp(r) PROVE DialogInvariant'
  <2>1. PICK new : new = [resource |-> r, serial |-> dialogs + 1, over |-> target # Nothing]
    OBVIOUS
  <2>2. dialogs + 1 \in Versions /\ dialogs' = dialogs + 1 /\ dialogs' \in Nat /\ dialogs <= dialogs'
    BY <1>0, <1>2 DEF RequestOp
  <2>3. new \in Target /\ new.serial = dialogs + 1 /\ (target # Nothing => new.over) /\ new # Nothing
    <3>1. new \in Target
      <4>1. (target # Nothing) \in BOOLEAN
        OBVIOUS
      <4> QED BY <2>1, <2>2, <4>1, Zenon DEF Target
    <3>2. new.serial = dialogs + 1 /\ (target # Nothing => new.over)
      BY <2>1
    <3> QED BY <1>0, <3>1, <3>2
  <2>4. target' = new
    BY <1>2, <2>1 DEF RequestOp
  <2>5. typing' \in Typing /\ (target = Nothing => ~typing'.right)
    <3>1. 0 \in Versions
      BY <1>0
    <3>2. [right |-> FALSE, by |-> 0] \in Typing
      BY <3>1 DEF Typing
    <3> QED BY <1>0, <1>2, <3>2 DEF RequestOp, ResetTyped
  <2>6. OpTypeOK'
    BY <1>0, <1>1, <2>2, <2>3, <2>4, <2>5 DEF OpTypeOK
  <2>7. OperationsAreCounted'
    <3>1. Latest' <= dialogs' /\ Latest' < target'.serial /\ target'.serial <= dialogs'
      BY <1>0, <1>1, <2>2, <2>3, <2>4 DEF OperationsAreCounted
    <3>2. submit # Nothing => submit.serial <= dialogs'
      <4>1. submit # Nothing => submit.serial \in Nat /\ submit.serial <= dialogs
        BY <1>0 DEF OperationsAreCounted, Submit
      <4> QED BY <1>0, <2>2, <4>1
    <3> QED BY <1>0, <1>1, <3>1, <3>2 DEF OperationsAreCounted
  <2>8. DialogsStay'
    BY <1>0, <1>1, <2>3, <2>4, <2>5 DEF DialogsStay
  <2>9. AnswersFindTheirDialog'
    BY <1>0, <1>1, <2>3, <2>4 DEF AnswersFindTheirDialog, DialogsStay
  <2>10. ConfirmationsAreTheirOwn'
    <3>1. submit # Nothing => submit.serial \in Nat /\ submit.serial <= dialogs
      BY <1>0 DEF OperationsAreCounted, Submit
    <3>2. submit # Nothing => target'.serial # submit.serial
      BY <1>0, <2>3, <2>4, <3>1
    <3> QED BY <1>1, <3>2 DEF ConfirmationsAreTheirOwn
  <2>11. QueriesSettle' /\ OutcomesAreShown'
    BY <1>1, <2>6, QueriesRest DEF ListPending, ResourcePending
  <2> QED BY <2>6, <2>7, <2>8, <2>9, <2>10, <2>11 DEF DialogInvariant, DialogPromise
<1>3. CASE CancelOp
  <2>1. submit = Nothing /\ target' = Nothing /\ UNCHANGED <<typing, dialogs>>
    BY <1>3 DEF CancelOp, MayCancel
  <2>2. OpTypeOK'
    BY <1>0, <1>1, <2>1 DEF OpTypeOK
  <2>3. OperationsAreCounted' /\ DialogsStay' /\ AnswersFindTheirDialog' /\ ConfirmationsAreTheirOwn'
    BY <1>0, <1>1, <2>1 DEF OperationsAreCounted, DialogsStay, AnswersFindTheirDialog, ConfirmationsAreTheirOwn
  <2>4. QueriesSettle' /\ OutcomesAreShown'
    BY <1>1, <2>2, QueriesRest DEF ListPending, ResourcePending
  <2> QED BY <2>2, <2>3, <2>4 DEF DialogInvariant, DialogPromise
<1>4. CASE TypeName
  <2>1. target # Nothing /\ target \in Target /\ UNCHANGED <<target, dialogs>>
    BY <1>0, <1>4 DEF TypeName
  <2>2. typing' \in Typing /\ typing'.by = target.serial
    BY <1>4, <2>1 DEF TypeName, Typing, Target
  <2>3. OpTypeOK'
    BY <1>0, <1>1, <2>1, <2>2 DEF OpTypeOK
  <2>4. OperationsAreCounted' /\ DialogsStay' /\ AnswersFindTheirDialog' /\ ConfirmationsAreTheirOwn'
    BY <1>0, <1>1, <2>1, <2>2 DEF OperationsAreCounted, DialogsStay, AnswersFindTheirDialog, ConfirmationsAreTheirOwn
  <2>5. QueriesSettle' /\ OutcomesAreShown'
    BY <1>1, <2>3, QueriesRest DEF ListPending, ResourcePending
  <2> QED BY <2>3, <2>4, <2>5 DEF DialogInvariant, DialogPromise
<1> QED BY <1>2, <1>3, <1>4

\* An operation accepted is one more, whose list and resource are pending.
LEMMA OpAnswerKeeps ==
  ASSUME DialogInvariant, NEW ok \in BOOLEAN, OperationAnswered(ok) PROVE DialogInvariant'
<1>0. /\ OpTypeOK /\ OperationsAreCounted /\ DialogsStay /\ QueriesSettle /\ ConfirmationsAreTheirOwn
      /\ submit \in Submit /\ submit # Nothing /\ submit.step = "sent" /\ Nothing \notin Submit
      /\ target \in Target \union {Nothing} /\ dialogs \in Nat /\ dialogs <= MaxRequests /\ MaxRequests \in Nat
      /\ Versions = 0 .. MaxRequests /\ Latest \in Nat /\ accepted \in [Listed -> Versions]
      /\ submit.resource \in Listed /\ submit.serial \in Nat /\ Listed \subseteq QueryNames
  BY DialogTyped, LatestIsLast DEF DialogInvariant, DialogPromise, OperationAnswered, Submit
<1>1. UNCHANGED <<opPage, drawer, queries, target, typing, dialogs>>
  BY DEF OperationAnswered
<1>2. PICK step : step = IF ok THEN "accepted" ELSE "refused"
  OBVIOUS
<1>3. submit' = [submit EXCEPT !.step = step]
  BY <1>2 DEF OperationAnswered
<1>4. /\ submit' \in Submit /\ submit' # Nothing /\ submit'.step = step /\ submit'.serial = submit.serial
      /\ submit'.resource = submit.resource
  BY <1>0, <1>2, <1>3 DEF Submit
<1>5. DialogsStay' /\ AnswersFindTheirDialog' /\ ConfirmationsAreTheirOwn'
  BY <1>0, <1>1, <1>2, <1>4 DEF DialogsStay, AnswersFindTheirDialog, ConfirmationsAreTheirOwn
<1>6. CASE ~ok
  <2>1. accepted' = accepted /\ step = "refused" /\ Latest' = Latest
    BY <1>2, <1>6, LatestStays DEF OperationAnswered
  <2>2. OpTypeOK'
    BY <1>0, <1>1, <1>4, <2>1 DEF OpTypeOK
  <2>3. OperationsAreCounted'
    BY <1>0, <1>1, <1>4, <2>1 DEF OperationsAreCounted
  <2>4. QueriesSettle' /\ OutcomesAreShown'
    BY <1>0, <1>1, <2>1, <2>2, QueriesRest DEF ListPending, ResourcePending
  <2> QED BY <1>5, <2>2, <2>3, <2>4 DEF DialogInvariant, DialogPromise
<1>7. CASE ok
  <2>1. accepted' = [accepted EXCEPT ![submit.resource] = Latest + 1] /\ step = "accepted"
    BY <1>2, <1>7 DEF OperationAnswered
  <2>2. /\ Latest' = Latest + 1 /\ \A s \in Listed : accepted'[s] <= accepted'[submit.resource]
        /\ \A s \in Listed \ {submit.resource} : accepted'[s] = accepted[s]
    BY <1>0, <2>1, LatestGrows
  <2>3. Latest + 1 <= submit.serial /\ submit.serial <= dialogs
    BY <1>0 DEF OperationsAreCounted
  <2>4. OpTypeOK'
    <3>1. Latest + 1 \in Versions
      BY <1>0, <2>3
    <3> QED BY <1>0, <1>1, <1>4, <2>1, <3>1 DEF OpTypeOK
  <2>5. OperationsAreCounted'
    <3>1. Latest' <= dialogs'
      BY <1>0, <1>1, <2>2, <2>3
    <3> QED BY <1>0, <1>1, <1>4, <2>1, <2>2, <3>1 DEF OperationsAreCounted
  <2>6. QueriesSettle'
    <3>1. ListPending' /\ \A r \in Listed : r = submit.resource => ResourcePending(r)'
      BY <1>4, <2>1 DEF ListPending, ResourcePending
    <3>2. ASSUME NEW r \in Listed, r # submit.resource, opPage # "proxmox" PROVE Settled(r, accepted[r])'
      <4>1. Settled(r, accepted[r]) /\ accepted'[r] = accepted[r]
        BY <1>0, <2>2, <3>2 DEF QueriesSettle, ResourcePending
      <4> QED BY <1>1, <4>1 DEF Settled, Current, Mounted
    <3> QED BY <1>0, <1>1, <3>1, <3>2 DEF QueriesSettle
  <2>7. OutcomesAreShown'
    BY <2>4, <2>6, OutcomesFollow, PTL
  <2> QED BY <1>5, <2>4, <2>5, <2>6, <2>7 DEF DialogInvariant, DialogPromise
<1> QED BY <1>6, <1>7

\* Three keys are invalidated, the list's first and then, but for a guest, the resource's.
LEMMA ThreeKeys ==
  ASSUME OpTypeOK, NEW r
  PROVE  /\ Len(Invalidates(opPage, r)) = 3 /\ Invalidates(opPage, r)[1] = ListKey(opPage)
         /\ opPage # "proxmox" => Invalidates(opPage, r)[2] = ResourceKey(opPage, r)
BY DialogTyped DEF Invalidates, ListKey, ResourceKey

\* The operation is submitted, told of, or over.
LEMMA SubmitKeeps ==
  ASSUME DialogInvariant, ConfirmOp \/ OpSucceeds \/ OpFails \/ KeyAwaited \/ SubmitDone PROVE DialogInvariant'
<1>0. /\ OpTypeOK /\ OperationsAreCounted /\ DialogsStay /\ AnswersFindTheirDialog /\ ConfirmationsAreTheirOwn
      /\ typing \in Typing /\ target \in Target \union {Nothing} /\ submit \in Submit \union {Nothing}
      /\ Nothing \notin Target /\ Nothing \notin Submit
  BY DialogTyped DEF DialogInvariant, DialogPromise
<1>1. UNCHANGED <<opPage, drawer, queries, typing, accepted, dialogs>> /\ Latest' = Latest
  BY LatestStays DEF ConfirmOp, OpSucceeds, OpFails, KeyAwaited, SubmitDone
<1>2. CASE ConfirmOp
  <2>1. target \in Target /\ target # Nothing /\ target' = target /\ typing.right /\ submit = Nothing
    BY <1>0, <1>2 DEF ConfirmOp
  <2>2. PICK new : new = [resource |-> target.resource, serial |-> target.serial, step |-> "sent", left |-> 0]
    OBVIOUS
  <2>3. new \in Submit /\ new # Nothing /\ new.serial = target.serial /\ new.step = "sent" /\ submit' = new
    BY <1>0, <1>2, <2>1, <2>2 DEF ConfirmOp, Submit, Target
  <2>4. OpTypeOK'
    BY <1>0, <1>1, <2>1, <2>3 DEF OpTypeOK
  <2>5. OperationsAreCounted' /\ DialogsStay' /\ AnswersFindTheirDialog' /\ ConfirmationsAreTheirOwn'
    BY <1>0, <1>1, <2>1, <2>3 DEF OperationsAreCounted, DialogsStay, AnswersFindTheirDialog, ConfirmationsAreTheirOwn
  <2>6. QueriesSettle' /\ OutcomesAreShown'
    BY <1>1, <2>1, <2>4, QueriesRest DEF ListPending, ResourcePending
  <2> QED BY <2>4, <2>5, <2>6 DEF DialogInvariant, DialogPromise
<1>3. CASE OpSucceeds
  <2>1. submit \in Submit /\ submit # Nothing /\ submit.step = "accepted" /\ target' = Nothing
    BY <1>0, <1>3 DEF OpSucceeds
  <2>2. PICK new : new = [submit EXCEPT !.step = "invalidating", !.left = 3]
    OBVIOUS
  <2>3. /\ new \in Submit /\ new # Nothing /\ new.serial = submit.serial /\ new.step = "invalidating" /\ new.left = 3
        /\ new.resource = submit.resource
    <3>1. 3 \in 0 .. 3
      OBVIOUS
    <3> QED BY <1>0, <2>1, <2>2, <3>1 DEF Submit
  <2>4. submit' = new
    BY <1>0, <1>3, <2>2, ThreeKeys DEF OpSucceeds
  <2>5. OpTypeOK'
    BY <1>0, <1>1, <2>1, <2>3, <2>4 DEF OpTypeOK
  <2>6. OperationsAreCounted' /\ DialogsStay' /\ AnswersFindTheirDialog' /\ ConfirmationsAreTheirOwn'
    BY <1>0, <1>1, <2>1, <2>3, <2>4 DEF OperationsAreCounted, DialogsStay, AnswersFindTheirDialog, ConfirmationsAreTheirOwn
  <2>7. QueriesSettle' /\ OutcomesAreShown'
    BY <1>1, <2>1, <2>3, <2>4, <2>5, QueriesRest DEF ListPending, ResourcePending
  <2> QED BY <2>5, <2>6, <2>7 DEF DialogInvariant, DialogPromise
<1>4. CASE OpFails \/ SubmitDone
  <2>1. /\ submit' = Nothing /\ target' = target /\ submit # Nothing
        /\ submit.step = "refused" \/ (submit.step = "invalidating" /\ submit.left = 0)
    BY <1>4 DEF OpFails, SubmitDone
  <2>2. OpTypeOK'
    BY <1>0, <1>1, <2>1 DEF OpTypeOK
  <2>3. OperationsAreCounted' /\ DialogsStay' /\ AnswersFindTheirDialog' /\ ConfirmationsAreTheirOwn'
    BY <1>0, <1>1, <2>1 DEF OperationsAreCounted, DialogsStay, AnswersFindTheirDialog, ConfirmationsAreTheirOwn
  <2>4. QueriesSettle' /\ OutcomesAreShown'
    BY <1>1, <2>1, <2>2, QueriesRest DEF ListPending, ResourcePending
  <2> QED BY <2>2, <2>3, <2>4 DEF DialogInvariant, DialogPromise
<1>5. CASE KeyAwaited
  <2>1. submit \in Submit /\ submit # Nothing /\ submit.step = "waiting" /\ target' = target
    BY <1>0, <1>5 DEF KeyAwaited
  <2>2. submit.left \in 1 .. 3
    BY <1>0, <2>1 DEF OperationsAreCounted, Submit
  <2>3. PICK new : new = [submit EXCEPT !.step = "invalidating", !.left = submit.left - 1]
    OBVIOUS
  <2>4. /\ new \in Submit /\ new # Nothing /\ new.serial = submit.serial /\ new.step = "invalidating"
        /\ new.left = submit.left - 1 /\ new.resource = submit.resource
    <3>1. submit.left - 1 \in 0 .. 3
      BY <2>2
    <3> QED BY <1>0, <2>1, <2>3, <3>1 DEF Submit
  <2>5. submit' = new
    BY <1>5, <2>1, <2>3 DEF KeyAwaited, Submit
  <2>6. OpTypeOK'
    BY <1>0, <1>1, <2>1, <2>4, <2>5 DEF OpTypeOK
  <2>7. OperationsAreCounted' /\ DialogsStay' /\ AnswersFindTheirDialog' /\ ConfirmationsAreTheirOwn'
    BY <1>0, <1>1, <2>1, <2>4, <2>5 DEF OperationsAreCounted, DialogsStay, AnswersFindTheirDialog, ConfirmationsAreTheirOwn
  <2>8. /\ ListPending => ListPending'
        /\ \A r \in Listed : ResourcePending(r) => ResourcePending(r)'
    BY <2>1, <2>2, <2>4, <2>5 DEF ListPending, ResourcePending
  <2>9. QueriesSettle' /\ OutcomesAreShown'
    BY <1>1, <2>6, <2>8, QueriesRest
  <2> QED BY <2>6, <2>7, <2>9 DEF DialogInvariant, DialogPromise
<1> QED BY <1>2, <1>3, <1>4, <1>5
\* The first key an operation invalidates is that of its list, and the next, but for a guest's, that of its resource.
LEMMA KeysMatch ==
  ASSUME OpTypeOK, submit \in Submit
  PROVE  /\ submit.left = 3 => "list" \in Matched(ThisKey)
         /\ submit.left = 2 /\ opPage # "proxmox" => submit.resource \in Matched(ThisKey)
<1>0. /\ opPage \in {"digitalocean", "proxmox", "services"} /\ DOMAIN queries = QueryNames
      /\ "list" \in QueryNames /\ "list" \notin Listed /\ submit.resource \in Listed /\ submit.resource \in QueryNames
  BY DialogTyped DEF Submit
<1>1. ASSUME NEW q \in QueryNames, NEW S, KeyOf(q) \in Seq(S), ThisKey = KeyOf(q)
      PROVE  q \in Matched(ThisKey)
  <2>1. SubSeq(KeyOf(q), 1, Len(KeyOf(q))) = KeyOf(q)
    BY <1>1, SubSeqFull
  <2>2. Len(KeyOf(q)) \in Nat
    BY <1>1, LenProperties
  <2> QED BY <1>0, <1>1, <2>1, <2>2 DEF Matched
<1>2. /\ submit.left = 3 => ThisKey = ListKey(opPage)
      /\ submit.left = 2 /\ opPage # "proxmox" => ThisKey = ResourceKey(opPage, submit.resource)
  <2>1. PICK keys : keys = Invalidates(opPage, submit.resource)
    OBVIOUS
  <2>2. /\ Len(keys) = 3 /\ keys[1] = ListKey(opPage)
        /\ opPage # "proxmox" => keys[2] = ResourceKey(opPage, submit.resource)
    BY <2>1, ThreeKeys
  <2>3. ThisKey = keys[Len(keys) - submit.left + 1]
    BY <2>1 DEF ThisKey
  <2>4. Len(keys) - 3 + 1 = 1 /\ Len(keys) - 2 + 1 = 2
    BY <2>2
  <2> QED BY <2>2, <2>3, <2>4
<1>3. submit.left = 3 => "list" \in Matched(ThisKey)
  <2>1. PICK S : S = {Text("do"), Text("droplets"), Text("pve"), Text("overview"), Text("applications")}
    OBVIOUS
  <2>2. ListKey(opPage) \in Seq(S)
    <3>1. CASE opPage = "digitalocean"
      BY <2>1, <3>1 DEF ListKey
    <3>2. CASE opPage = "proxmox"
      BY <2>1, <3>2 DEF ListKey
    <3>3. CASE opPage = "services"
      BY <2>1, <3>3 DEF ListKey
    <3> QED BY <1>0, <3>1, <3>2, <3>3
  <2>3. KeyOf("list") = ListKey(opPage)
    BY DEF KeyOf
  <2>4. submit.left = 3 => ThisKey = ListKey(opPage)
    BY <1>2
  <2> QED BY <1>0, <1>1, <2>2, <2>3, <2>4
<1>4. submit.left = 2 /\ opPage # "proxmox" => submit.resource \in Matched(ThisKey)
  <2>1. PICK r : r = submit.resource
    OBVIOUS
  <2>2. PICK S : S = {Text("do"), Text("droplet"), Text("application"), Text(r)}
    OBVIOUS
  <2>3. opPage # "proxmox" => ResourceKey(opPage, r) \in Seq(S)
    <3>1. CASE opPage = "digitalocean"
      BY <2>2, <3>1 DEF ResourceKey
    <3>2. CASE opPage = "services"
      BY <2>2, <3>2 DEF ResourceKey
    <3> QED BY <1>0, <3>1, <3>2
  <2>4. KeyOf(r) = ResourceKey(opPage, r)
    BY <1>0, <2>1 DEF KeyOf
  <2>5. submit.left = 2 /\ opPage # "proxmox" => ThisKey = ResourceKey(opPage, r)
    BY <1>2, <2>1
  <2> QED BY <1>0, <1>1, <2>1, <2>3, <2>4, <2>5
<1> QED BY <1>3, <1>4

\* What is invalidated is fetched anew, or will be when it is looked at.
LEMMA InvalidationKeeps ==
  ASSUME DialogInvariant, InvalidateKey PROVE DialogInvariant'
<1>0. /\ OpTypeOK /\ OperationsAreCounted /\ DialogsStay /\ QueriesSettle
      /\ AnswersFindTheirDialog /\ ConfirmationsAreTheirOwn
      /\ submit \in Submit /\ submit # Nothing /\ submit.step = "invalidating" /\ submit.left > 0
      /\ submit.left \in 0 .. 3 /\ Nothing \notin Submit
      /\ queries \in [QueryNames -> Query] /\ (\A q \in QueryNames : queries[q] \in Query)
      /\ Nothing \notin Versions /\ Listed \subseteq QueryNames /\ "list" \in QueryNames
  BY DialogTyped DEF DialogInvariant, DialogPromise, InvalidateKey, Submit
<1>1. UNCHANGED <<opPage, drawer, target, typing, accepted, dialogs>> /\ Latest' = Latest /\ Mounted' = Mounted
  BY LatestStays DEF InvalidateKey, Mounted
<1>2. /\ submit' \in Submit /\ submit' # Nothing /\ submit'.step = "waiting" /\ submit'.serial = submit.serial
      /\ submit'.resource = submit.resource /\ submit'.left = submit.left
  <2>1. submit' = [submit EXCEPT !.step = "waiting"]
    BY DEF InvalidateKey
  <2> QED BY <1>0, <2>1 DEF Submit
<1>3. queries' = [q \in QueryNames |->
                    IF q \notin Matched(ThisKey) THEN queries[q]
                    ELSE IF q \in Mounted THEN Refetch(queries[q]) ELSE MarkStale(queries[q])]
  BY DEF InvalidateKey
<1>4. ASSUME NEW q \in QueryNames, q \in Matched(ThisKey), q \in Mounted
      PROVE  queries'[q] \in Query /\ queries'[q].read = Nothing /\ queries'[q].fetching
  <2>1. queries'[q] = Refetch(queries[q]) /\ queries[q] \in Query
    BY <1>0, <1>3, <1>4
  <2> QED BY <2>1 DEF Refetch, Query
<1>5. ASSUME NEW q \in QueryNames, q \in Matched(ThisKey), q \notin Mounted
      PROVE  /\ queries'[q] \in Query /\ queries'[q].read = queries[q].read /\ queries'[q].stale
             /\ queries'[q].fetching = queries[q].fetching /\ queries'[q].overtaken = (queries[q].overtaken \/ queries[q].fetching)
  <2>1. queries'[q] = MarkStale(queries[q]) /\ queries[q] \in Query
    BY <1>0, <1>3, <1>5
  <2> QED BY <2>1 DEF MarkStale, Query
<1>6. ASSUME NEW q \in QueryNames, q \notin Matched(ThisKey)
      PROVE  queries'[q] = queries[q] /\ queries'[q] \in Query
  BY <1>0, <1>3, <1>6
<1>7. OpTypeOK'
  <2>1. queries' \in [QueryNames -> Query]
    BY <1>3, <1>4, <1>5, <1>6
  <2> QED BY <1>0, <1>1, <1>2, <2>1 DEF OpTypeOK
<1>8. OperationsAreCounted' /\ DialogsStay' /\ AnswersFindTheirDialog' /\ ConfirmationsAreTheirOwn'
  BY <1>0, <1>1, <1>2 DEF OperationsAreCounted, DialogsStay, AnswersFindTheirDialog, ConfirmationsAreTheirOwn
<1>9. ASSUME NEW q \in QueryNames, NEW version, q \in Matched(ThisKey) \/ Settled(q, version)
      PROVE  /\ queries'[q].read # Nothing => queries'[q].overtaken \/ queries'[q].read >= version
             /\ Current(queries'[q], version) \/ (queries'[q].stale /\ q \notin Mounted)
  <2>1. CASE q \in Matched(ThisKey) /\ q \in Mounted
    BY <1>4, <2>1 DEF Current
  <2>2. CASE q \in Matched(ThisKey) /\ q \notin Mounted
    BY <1>0, <1>5, <2>2 DEF QueriesSettle
  <2>3. CASE q \notin Matched(ThisKey)
    BY <1>6, <1>9, <2>3 DEF Settled
  <2> QED BY <2>1, <2>2, <2>3
<1>10. QueriesSettle'
  <2>1. ASSUME NEW q \in QueryNames, queries'[q].read # Nothing PROVE queries'[q].fetching
    BY <1>0, <1>4, <1>5, <1>6, <2>1 DEF QueriesSettle
  <2>2. Settled("list", Latest)'
    <3>1. "list" \in Matched(ThisKey) \/ Settled("list", Latest)
      BY <1>0, KeysMatch DEF QueriesSettle, ListPending
    <3> QED BY <1>0, <1>1, <1>9, <3>1 DEF Settled
  <2>3. ASSUME NEW r \in Listed, opPage # "proxmox" PROVE ResourcePending(r)' \/ Settled(r, accepted[r])'
    <3>1. ResourcePending(r)' \/ r \in Matched(ThisKey) \/ Settled(r, accepted[r])
      BY <1>0, <1>2, <2>3, KeysMatch DEF QueriesSettle, ResourcePending
    <3> QED BY <1>0, <1>1, <1>9, <3>1 DEF Settled
  <2> QED BY <1>1, <2>1, <2>2, <2>3 DEF QueriesSettle
<1>11. OutcomesAreShown'
  BY <1>7, <1>10, OutcomesFollow, PTL
<1> QED BY <1>7, <1>8, <1>10, <1>11 DEF DialogInvariant, DialogPromise

\* Nothing is asked for yet but the list.
LEMMA DialogBegins ==
  ASSUME OpInit PROVE DialogInvariant
<1>1. PICK first : first = [NoData EXCEPT !.fetching = TRUE]
  BY DEF NoData
<1>2. NoData \in Query /\ NoData.at = Nothing /\ NoData.read = Nothing
  BY DEF NoData, Query
<1>3. first \in Query /\ first.at = Nothing /\ first.read = Nothing
  BY <1>1, <1>2 DEF Query
<1>4. queries = [q \in QueryNames |-> IF q = "list" THEN first ELSE NoData]
  BY <1>1 DEF OpInit
<1>5. queries \in [QueryNames -> Query] /\ \A q \in QueryNames : queries[q].at = Nothing /\ queries[q].read = Nothing
  BY <1>2, <1>3, <1>4
<1>6. 0 \in Versions /\ [right |-> FALSE, by |-> 0] \in Typing
  BY DialogAssumption DEF Versions, Typing
<1>7. OpTypeOK
  BY <1>5, <1>6 DEF OpInit, OpTypeOK
<1>8. /\ target = Nothing /\ submit = Nothing /\ dialogs = 0 /\ \A r \in Listed : accepted[r] = 0
      /\ typing.right = FALSE
  BY DEF OpInit
<1>9. Latest = 0
  <2>1. {accepted[r] : r \in Listed} = {0}
    BY <1>8, DialogAssumption
  <2> QED BY <2>1 DEF Latest
<1>10. OperationsAreCounted /\ DialogsStay /\ AnswersFindTheirDialog /\ ConfirmationsAreTheirOwn
  BY <1>8, <1>9, DialogAssumption DEF OperationsAreCounted, DialogsStay, AnswersFindTheirDialog, ConfirmationsAreTheirOwn
<1>11. QueriesSettle
  BY <1>5, <1>7, DialogTyped DEF QueriesSettle, Settled, Current
<1> QED BY <1>7, <1>10, <1>11, OutcomesFollow DEF DialogInvariant, DialogPromise

\* Dialogs, what is typed in them, and the pages behind them keep the invariant.
THEOREM DialogCorrect == OpSpec => []DialogInvariant
<1>1. OpInit => DialogInvariant
  BY DialogBegins
<1>2. DialogInvariant /\ [OpNext]_opVars => DialogInvariant'
  <2>1. SUFFICES ASSUME DialogInvariant, [OpNext]_opVars PROVE DialogInvariant'
    OBVIOUS
  <2>2. CASE \E q \in QueryNames : ReadQuery(q) \/ QueryArrives(q) \/ QueryFails(q) \/ FocusOrInterval(q)
    BY <2>1, <2>2, QueryKeeps
  <2>3. CASE Deselect \/ \E r \in Listed, aged \in BOOLEAN : Select(r, aged)
    BY <2>1, <2>3, DrawerKeeps
  <2>4. CASE (\E r \in Listed : RequestOp(r)) \/ CancelOp \/ TypeName
    BY <2>1, <2>4, TargetKeeps
  <2>5. CASE ConfirmOp \/ OpSucceeds \/ OpFails \/ KeyAwaited \/ SubmitDone
    BY <2>1, <2>5, SubmitKeeps
  <2>6. CASE InvalidateKey
    BY <2>1, <2>6, InvalidationKeeps
  <2>7. CASE \E ok \in BOOLEAN : OperationAnswered(ok)
    BY <2>1, <2>7, OpAnswerKeeps
  <2>8. CASE UNCHANGED opVars
    BY <2>1, <2>8 DEF opVars, DialogInvariant, DialogPromise, OpTypeOK, OutcomesAreShown, AnswersFindTheirDialog,
       ConfirmationsAreTheirOwn, OperationsAreCounted, DialogsStay, QueriesSettle, Settled, ListPending, ResourcePending,
       Current, Latest, Mounted
  <2> QED BY <2>1, <2>2, <2>3, <2>4, <2>5, <2>6, <2>7, <2>8 DEF OpNext
<1> QED BY <1>1, <1>2, PTL DEF OpSpec

\* What is typed, answered and shown is of the operation it stands beside.
THEOREM DialogPromiseHolds == OpSpec => []DialogPromise
<1>1. DialogInvariant => DialogPromise
  BY DEF DialogInvariant
<1> QED BY <1>1, DialogCorrect, PTL
----------------------------------------------------------------------------
\* The page of settings, their table and the retention job.

\* What the page knows of a write: it shows it, or has asked for it, or has read it.
PageSees(n) == shown.at >= n \/ fetch.step = "asked" \/ (fetch.step = "read" /\ fetch.at >= n)

\* What makes the promise of the settings inductive: a save that was sent has a setting and a
\* text, one that was answered will be seen whatever came between, and a refetch that has read
\* the table is never older than what the page shows.
SavesAreSeen ==
  /\ fetch.step = "read" => fetch.at >= shown.at
  /\ \A c \in SaveCalls :
       /\ saves[c].wrote <= settingWrites
       /\ saves[c].step # "free" => saves[c].key \in Settings /\ saves[c].text \in DOMAIN Reads
       /\ saves[c].step \in {"refetching", "replaced"} => PageSees(saves[c].wrote)

SettingsInvariant == SettingsTypeOK /\ RetentionLeavesTheLastDay /\ SavesAreSeen

\* The constants, by themselves.
LEMMA SettingBounds ==
  /\ MaxSettingWrites \in Nat /\ 0 \in 0..MaxSettingWrites
  /\ NoText \notin DOMAIN Reads /\ NoKey \notin Settings
  /\ OldestDay \in Nat \ {0}
<1>1. MaxSettingWrites \in Nat
  BY SettingsAssumption DEF SettingsAssumption
<1>2. NoText \notin DOMAIN Reads /\ NoKey \notin Settings
  BY SettingsAssumption DEF SettingsAssumption, NoText, NoKey
<1>3. OldestDay \in Nat \ {0}
  BY SettingsAssumption DEF SettingsAssumption
<1> QED BY <1>1, <1>2, <1>3

LEMMA NothingIsNoSave == NoSave \in Save /\ NoSave.step = "free" /\ NoSave.wrote = 0
BY SettingBounds DEF NoSave, Save

\* Writes are counted from 0, and the page has seen some of them.
LEMMA WritesCount ==
  SettingsTypeOK => settingWrites \in Nat /\ shown.at \in 0..settingWrites
<1> SUFFICES ASSUME SettingsTypeOK PROVE settingWrites \in Nat /\ shown.at \in 0..settingWrites
  OBVIOUS
<1>1. settingWrites \in 0..MaxSettingWrites
  BY DEF SettingsTypeOK
<1>2. settingWrites \in Nat
  BY <1>1, SettingBounds
<1>3. shown.at \in 0..settingWrites
  BY DEF SettingsTypeOK
<1> QED BY <1>2, <1>3

\* What a text is stored as is a value of the table.
LEMMA StoredAsNumberOrText ==
  ASSUME NEW text \in DOMAIN Reads
  PROVE  [type |-> IF Numeric(text) THEN "number" ELSE "text", text |-> text] \in StoredSetting
BY DEF StoredSetting

\* However a setting reads, the days the job takes are at least one.
LEMMA AtLeastADay ==
  ASSUME SettingsTypeOK, NEW s \in DOMAIN Fallbacks
  PROVE  NumericSetting(s) \in Nat \ {0}
<1>1. Fallbacks[s] \in Nat \ {0} /\ NaN \notin Int
  BY SettingsAssumption DEF SettingsAssumption
<1>2. stored[s] \in StoredSetting
  BY SettingsAssumption DEF SettingsAssumption, SettingsTypeOK
<1>3. Reads[stored[s].text] \in Int \union {NaN}
  BY <1>2, SettingsAssumption DEF StoredSetting, SettingsAssumption
<1>4. DaysOf(stored[s]) \in Int \union {NaN}
  BY <1>3 DEF DaysOf
<1> QED BY <1>1, <1>4 DEF NumericSetting

LEMMA SettingsStart == SettingsInit => SettingsInvariant
<1> SUFFICES ASSUME SettingsInit PROVE SettingsInvariant
  OBVIOUS
<1>1. stored \in [Settings -> StoredSetting]
  <2>1. /\ DOMAIN Seeded = Settings
        /\ \A s \in Settings : Seeded[s] \in DOMAIN Reads
        /\ \A s \in Settings : Seeded[s] \in {"true", "false"} \/ (Seeded[s] # "" /\ Reads[Seeded[s]] # NaN)
    BY SettingsAssumption DEF SettingsAssumption
  <2>2. ASSUME NEW s \in Settings
        PROVE  stored[s] \in StoredSetting
    <3>1. PICK type : type = IF Seeded[s] \in Truth THEN "boolean" ELSE "number"
      OBVIOUS
    <3>2. stored[s] = [type |-> type, text |-> Seeded[s]]
      BY <3>1 DEF SettingsInit
    <3>3. /\ type \in {"number", "boolean"}
          /\ type = "boolean" => Seeded[s] \in Truth
          /\ type = "number" => Numeric(Seeded[s])
      BY <2>1, <3>1 DEF Truth, Numeric
    <3>4. stored[s].text = Seeded[s] /\ stored[s].type = type
      BY <3>2
    <3>5. stored[s] \in [type : {"number", "text", "boolean"}, text : DOMAIN Reads]
      <4>1. Seeded[s] \in DOMAIN Reads
        BY <2>1, Zenon
      <4>2. type \in {"number", "text", "boolean"}
        BY <3>3
      <4> QED BY <3>2, <4>1, <4>2
    <3> QED BY <3>3, <3>4, <3>5 DEF StoredSetting
  <2>3. stored = [s \in Settings |-> stored[s]]
    BY DEF SettingsInit
  <2> QED BY <2>2, <2>3
<1>2. 0 \in 0..MaxSettingWrites /\ 0 \in 0..0
  BY SettingBounds
<1>3. SettingsTypeOK
  <2>1. settingWrites \in 0..MaxSettingWrites /\ settingWrites = 0
    BY <1>2 DEF SettingsInit
  <2>2. /\ shown \in [data : [Settings -> StoredSetting], at : 0..settingWrites]
        /\ fetch \in [step : {"idle", "asked", "read"}, data : [Settings -> StoredSetting], at : 0..settingWrites]
    BY <1>1, <1>2 DEF SettingsInit
  <2>3. saves \in [SaveCalls -> Save]
    BY NothingIsNoSave DEF SettingsInit
  <2>4. keptAges \in [DOMAIN Fallbacks -> SUBSET (0..OldestDay)]
    BY DEF SettingsInit
  <2>5. drafts \in [Settings -> DOMAIN Reads \union {NoText}] /\ saving \in Settings \union {NoKey}
    BY DEF SettingsInit
  <2> QED BY <1>1, <2>1, <2>2, <2>3, <2>4, <2>5 DEF SettingsTypeOK
<1>4. RetentionLeavesTheLastDay
  BY SettingBounds DEF SettingsInit, RetentionLeavesTheLastDay
<1>5. SavesAreSeen
  BY NothingIsNoSave DEF SettingsInit, SavesAreSeen
<1> QED BY <1>3, <1>4, <1>5 DEF SettingsInvariant

\* A write of the table, whoever makes it.
LEMMA StoreKeepsTable ==
  ASSUME SettingsTypeOK, NEW s \in Settings, NEW value \in StoredSetting, StoreSetting(s, value)
  PROVE  /\ stored' \in [Settings -> StoredSetting]
         /\ settingWrites' \in 0..MaxSettingWrites /\ settingWrites' = settingWrites + 1
<1>1. stored' \in [Settings -> StoredSetting]
  BY DEF SettingsTypeOK, StoreSetting
<1>2. settingWrites' = settingWrites + 1 /\ settingWrites < MaxSettingWrites
  BY DEF StoreSetting
<1> QED BY <1>1, <1>2, WritesCount, SettingBounds

\* A step that leaves the saves, the page and its refetch alone keeps what is true of them.
LEMMA WritesPassUnseen ==
  ASSUME SettingsInvariant, UNCHANGED <<shown, fetch>>,
         settingWrites' \in 0..MaxSettingWrites, settingWrites' >= settingWrites
  PROVE  /\ shown' \in [data : [Settings -> StoredSetting], at : 0..settingWrites']
         /\ fetch' \in [step : {"idle", "asked", "read"}, data : [Settings -> StoredSetting], at : 0..settingWrites']
         /\ \A c \in SaveCalls : saves[c].wrote <= settingWrites'
         /\ \A n : PageSees(n) => PageSees(n)'
<1>1. 0..settingWrites \subseteq 0..settingWrites' /\ settingWrites \in Nat
  BY WritesCount DEF SettingsInvariant
<1>2. \A c \in SaveCalls : saves[c].wrote \in Int
  BY DEF SettingsInvariant, SettingsTypeOK, Save
<1> QED BY <1>1, <1>2 DEF SettingsInvariant, SettingsTypeOK, SavesAreSeen, PageSees

LEMMA TypeDraftKeeps ==
  ASSUME SettingsInvariant, NEW s \in Settings, NEW text \in DOMAIN Reads, TypeDraft(s, text)
  PROVE  SettingsInvariant'
BY DEF SettingsInvariant, SettingsTypeOK, RetentionLeavesTheLastDay, SavesAreSeen, PageSees, TypeDraft

LEMMA SaveSettingKeeps ==
  ASSUME SettingsInvariant, NEW c \in SaveCalls, NEW s \in Settings, SaveSetting(c, s)
  PROVE  SettingsInvariant'
<1> DEFINE sent == [step |-> "sent", key |-> s, text |-> drafts[s], wrote |-> 0]
<1>1. drafts[s] \in DOMAIN Reads
  BY SettingBounds DEF SettingsInvariant, SettingsTypeOK, SaveSetting, MaySave
<1>2. sent \in Save
  BY <1>1, SettingBounds DEF Save
<1>3. /\ saves' = [saves EXCEPT ![c] = sent] /\ saving' = s
      /\ UNCHANGED <<stored, keptAges, shown, fetch, drafts, settingWrites>>
  BY DEF SaveSetting
<1>4. SettingsTypeOK' /\ RetentionLeavesTheLastDay'
  <2>1. saves' \in [SaveCalls -> Save]
    BY <1>2, <1>3 DEF SettingsInvariant, SettingsTypeOK
  <2> QED BY <1>3, <2>1 DEF SettingsInvariant, SettingsTypeOK, RetentionLeavesTheLastDay
<1>5. 0 <= settingWrites
  BY WritesCount DEF SettingsInvariant
<1>6. SavesAreSeen'
  BY <1>1, <1>3, <1>5 DEF SettingsInvariant, SettingsTypeOK, SavesAreSeen, PageSees
<1> QED BY <1>4, <1>6 DEF SettingsInvariant

LEMMA UpdateSettingKeeps ==
  ASSUME SettingsInvariant, NEW c \in SaveCalls, UpdateSetting(c)
  PROVE  SettingsInvariant'
<1> DEFINE value == [type |-> IF Numeric(saves[c].text) THEN "number" ELSE "text", text |-> saves[c].text]
<1>1. /\ saves[c].key \in Settings /\ saves[c].text \in DOMAIN Reads /\ saves[c].step = "sent"
      /\ saves[c] \in Save
  BY DEF SettingsInvariant, SettingsTypeOK, SavesAreSeen, UpdateSetting
<1>2. value \in StoredSetting /\ StoreSetting(saves[c].key, value)
  BY <1>1, StoredAsNumberOrText DEF UpdateSetting
<1>3. /\ stored' \in [Settings -> StoredSetting]
      /\ settingWrites' \in 0..MaxSettingWrites /\ settingWrites' = settingWrites + 1
  BY <1>1, <1>2, StoreKeepsTable DEF SettingsInvariant
<1>4. UNCHANGED <<keptAges, shown, fetch, drafts, saving>>
  BY DEF UpdateSetting
<1>5. PICK new : new = [saves[c] EXCEPT !.step = "wrote", !.wrote = settingWrites']
  OBVIOUS
<1>6. /\ new \in Save /\ new.step = "wrote" /\ new.wrote = settingWrites'
      /\ new.key = saves[c].key /\ new.text = saves[c].text
  BY <1>1, <1>3, <1>5 DEF Save
<1>7. saves' = [saves EXCEPT ![c] = new]
  <2>1. saves' = [saves EXCEPT ![c].step = "wrote", ![c].wrote = settingWrites']
    BY DEF UpdateSetting
  <2>2. saves \in [SaveCalls -> Save]
    BY DEF SettingsInvariant, SettingsTypeOK
  <2> QED BY <1>1, <1>5, <2>1, <2>2
<1>8. settingWrites' >= settingWrites /\ settingWrites \in Nat
  BY <1>3, WritesCount DEF SettingsInvariant
<1>9. SettingsTypeOK' /\ RetentionLeavesTheLastDay'
  BY <1>3, <1>4, <1>6, <1>7, <1>8, WritesPassUnseen
     DEF SettingsInvariant, SettingsTypeOK, RetentionLeavesTheLastDay
<1>10. /\ saves'[c] = new /\ \A d \in SaveCalls : d # c => saves'[d] = saves[d]
  BY <1>7 DEF SettingsInvariant, SettingsTypeOK
<1>11. \A d \in SaveCalls : saves'[d].wrote <= settingWrites'
  BY <1>3, <1>4, <1>6, <1>8, <1>10, WritesPassUnseen
<1>12. SavesAreSeen'
  BY <1>1, <1>3, <1>4, <1>6, <1>8, <1>10, <1>11, WritesPassUnseen DEF SettingsInvariant, SavesAreSeen
<1> QED BY <1>9, <1>12 DEF SettingsInvariant

LEMMA UpdatedElsewhereKeeps ==
  ASSUME SettingsInvariant, NEW s \in Settings, NEW value \in StoredSetting, UpdatedElsewhere(s, value)
  PROVE  SettingsInvariant'
<1>1. /\ stored' \in [Settings -> StoredSetting]
      /\ settingWrites' \in 0..MaxSettingWrites /\ settingWrites' = settingWrites + 1
  BY StoreKeepsTable DEF SettingsInvariant, UpdatedElsewhere
<1>2. UNCHANGED <<keptAges, shown, fetch, drafts, saving, saves>>
  BY DEF UpdatedElsewhere
<1>3. settingWrites' >= settingWrites
  BY <1>1, WritesCount DEF SettingsInvariant
<1>4. SettingsTypeOK' /\ RetentionLeavesTheLastDay'
  BY <1>1, <1>2, <1>3, WritesPassUnseen DEF SettingsInvariant, SettingsTypeOK, RetentionLeavesTheLastDay
<1>5. SavesAreSeen'
  BY <1>1, <1>2, <1>3, WritesPassUnseen DEF SettingsInvariant, SavesAreSeen
<1> QED BY <1>4, <1>5 DEF SettingsInvariant

\* A refetch that is asked for sees every write there was.
LEMMA AskedSeesAll ==
  ASSUME SettingsInvariant, RefetchSettings
  PROVE  /\ fetch' \in [step : {"idle", "asked", "read"}, data : [Settings -> StoredSetting], at : 0..settingWrites]
         /\ fetch'.step = "asked" /\ \A n : PageSees(n)'
BY DEF SettingsInvariant, SettingsTypeOK, RefetchSettings, PageSees

LEMMA SaveAnsweredKeeps ==
  ASSUME SettingsInvariant, NEW c \in SaveCalls, SaveAnswered(c)
  PROVE  SettingsInvariant'
<1>1. /\ saves[c].step = "wrote" /\ RefetchSettings
      /\ drafts' = [drafts EXCEPT ![saves[c].key] = NoText]
      /\ UNCHANGED <<stored, keptAges, shown, saving, settingWrites>>
  BY DEF SaveAnswered
<1>2. \A d \in SaveCalls : saves[d] \in Save
  BY DEF SettingsInvariant, SettingsTypeOK
<1>3. ASSUME NEW d \in SaveCalls
      PROVE  /\ saves'[d] \in Save /\ saves'[d].wrote = saves[d].wrote
             /\ saves'[d].key = saves[d].key /\ saves'[d].text = saves[d].text
             /\ saves[d].step = "free" => saves'[d].step = "free"
  <2>1. /\ [saves[d] EXCEPT !.step = "refetching"] \in Save
        /\ [saves[d] EXCEPT !.step = "refetching"].wrote = saves[d].wrote
        /\ [saves[d] EXCEPT !.step = "refetching"].key = saves[d].key
        /\ [saves[d] EXCEPT !.step = "refetching"].text = saves[d].text
        /\ [saves[d] EXCEPT !.step = "replaced"] \in Save
        /\ [saves[d] EXCEPT !.step = "replaced"].wrote = saves[d].wrote
        /\ [saves[d] EXCEPT !.step = "replaced"].key = saves[d].key
        /\ [saves[d] EXCEPT !.step = "replaced"].text = saves[d].text
    BY <1>2 DEF Save
  <2>2. saves'[d] = IF d = c THEN [saves[c] EXCEPT !.step = "refetching"]
                    ELSE IF saves[d].step = "refetching" /\ fetch.step # "idle"
                         THEN [saves[d] EXCEPT !.step = "replaced"] ELSE saves[d]
    BY DEF SaveAnswered
  <2> QED BY <1>1, <1>2, <2>1, <2>2
<1>4. saves' \in [SaveCalls -> Save]
  <2>1. DOMAIN saves' = SaveCalls /\ saves' = [d \in SaveCalls |-> saves'[d]]
    BY DEF SaveAnswered
  <2> QED BY <1>3, <2>1
<1>5. drafts' \in [Settings -> DOMAIN Reads \union {NoText}]
  BY <1>1 DEF SettingsInvariant, SettingsTypeOK
<1>6. SettingsTypeOK' /\ RetentionLeavesTheLastDay'
  BY <1>1, <1>4, <1>5, AskedSeesAll DEF SettingsInvariant, SettingsTypeOK, RetentionLeavesTheLastDay
<1>7. SavesAreSeen'
  BY <1>1, <1>3, AskedSeesAll DEF SettingsInvariant, SavesAreSeen
<1> QED BY <1>6, <1>7 DEF SettingsInvariant

LEMMA SaveEndsKeeps ==
  ASSUME SettingsInvariant, NEW c \in SaveCalls, SaveFails(c) \/ SaveDone(c)
  PROVE  SettingsInvariant'
<1>1. /\ saves' = [saves EXCEPT ![c] = NoSave] /\ saving' = NoKey
      /\ UNCHANGED <<stored, keptAges, shown, fetch, drafts, settingWrites>>
  BY DEF SaveFails, SaveDone
<1>2. SettingsTypeOK' /\ RetentionLeavesTheLastDay'
  <2>1. saves' \in [SaveCalls -> Save]
    BY <1>1, NothingIsNoSave DEF SettingsInvariant, SettingsTypeOK
  <2> QED BY <1>1, <2>1 DEF SettingsInvariant, SettingsTypeOK, RetentionLeavesTheLastDay
<1>3. 0 <= settingWrites
  BY WritesCount DEF SettingsInvariant
<1>4. SavesAreSeen'
  BY <1>1, <1>3, NothingIsNoSave DEF SettingsInvariant, SettingsTypeOK, SavesAreSeen, PageSees
<1> QED BY <1>2, <1>4 DEF SettingsInvariant

LEMMA ListSettingsKeeps ==
  ASSUME SettingsInvariant, ListSettings
  PROVE  SettingsInvariant'
<1>1. /\ settingWrites \in Nat /\ settingWrites \in 0..settingWrites /\ shown.at <= settingWrites
  BY WritesCount DEF SettingsInvariant
<1>2. SettingsTypeOK' /\ RetentionLeavesTheLastDay'
  BY <1>1 DEF SettingsInvariant, SettingsTypeOK, RetentionLeavesTheLastDay, ListSettings
<1>3. \A c \in SaveCalls : saves[c].wrote \in Int
  BY DEF SettingsInvariant, SettingsTypeOK, Save
<1>4. SavesAreSeen'
  BY <1>1, <1>3 DEF SettingsInvariant, SavesAreSeen, PageSees, ListSettings
<1> QED BY <1>2, <1>4 DEF SettingsInvariant

LEMMA SettingsArriveKeeps ==
  ASSUME SettingsInvariant, SettingsArrive
  PROVE  SettingsInvariant'
<1>1. /\ fetch'.step = "idle" /\ fetch'.at = fetch.at /\ fetch'.data = fetch.data
      /\ fetch' \in [step : {"idle", "asked", "read"}, data : [Settings -> StoredSetting], at : 0..settingWrites]
      /\ fetch.step = "read" /\ shown' = [data |-> fetch.data, at |-> fetch.at]
      /\ UNCHANGED <<stored, keptAges, drafts, saving, saves, settingWrites>>
  BY DEF SettingsInvariant, SettingsTypeOK, SettingsArrive
<1>2. SettingsTypeOK' /\ RetentionLeavesTheLastDay'
  BY <1>1 DEF SettingsInvariant, SettingsTypeOK, RetentionLeavesTheLastDay
<1>3. \A c \in SaveCalls : saves[c].wrote \in Int
  BY DEF SettingsInvariant, SettingsTypeOK, Save
<1>4. fetch.at \in Int /\ shown.at \in Int /\ fetch.at >= shown.at
  BY <1>1 DEF SettingsInvariant, SettingsTypeOK, SavesAreSeen
<1>5. \A n \in Int : PageSees(n) => PageSees(n)'
  BY <1>1, <1>4 DEF PageSees
<1>6. SavesAreSeen'
  BY <1>1, <1>3, <1>5 DEF SettingsInvariant, SavesAreSeen
<1> QED BY <1>2, <1>6 DEF SettingsInvariant

LEMMA FocusSettingsKeeps ==
  ASSUME SettingsInvariant, FocusSettings
  PROVE  SettingsInvariant'
<1>1. RefetchSettings /\ UNCHANGED <<stored, keptAges, shown, drafts, saving, saves, settingWrites>>
  BY DEF FocusSettings
<1>2. SettingsTypeOK' /\ RetentionLeavesTheLastDay'
  BY <1>1, AskedSeesAll DEF SettingsInvariant, SettingsTypeOK, RetentionLeavesTheLastDay
<1>3. SavesAreSeen'
  BY <1>1, AskedSeesAll DEF SettingsInvariant, SavesAreSeen
<1> QED BY <1>2, <1>3 DEF SettingsInvariant

LEMMA RunRetentionKeeps ==
  ASSUME SettingsInvariant, RunRetention
  PROVE  SettingsInvariant'
<1>1. /\ keptAges' = [s \in DOMAIN Fallbacks |-> {age \in keptAges[s] : age <= NumericSetting(s)}]
      /\ UNCHANGED <<stored, shown, fetch, drafts, saving, saves, settingWrites>>
  BY DEF RunRetention
<1>2. keptAges' \in [DOMAIN Fallbacks -> SUBSET (0..OldestDay)]
  BY <1>1 DEF SettingsInvariant, SettingsTypeOK
<1>3. ASSUME NEW s \in DOMAIN Fallbacks PROVE 0..1 \subseteq keptAges'[s]
  BY <1>1, <1>3, AtLeastADay DEF SettingsInvariant, RetentionLeavesTheLastDay
<1> QED BY <1>1, <1>2, <1>3
        DEF SettingsInvariant, SettingsTypeOK, RetentionLeavesTheLastDay, SavesAreSeen, PageSees

LEMMA SettingsStep == SettingsInvariant /\ [SettingsNext]_settingVars => SettingsInvariant'
<1> SUFFICES ASSUME SettingsInvariant, [SettingsNext]_settingVars PROVE SettingsInvariant'
  OBVIOUS
<1>1. CASE UNCHANGED settingVars
  BY <1>1 DEF settingVars, SettingsInvariant, SettingsTypeOK, RetentionLeavesTheLastDay, SavesAreSeen, PageSees
<1>2. CASE SettingsNext
  BY <1>2, TypeDraftKeeps, SaveSettingKeeps, UpdateSettingKeeps, UpdatedElsewhereKeeps, SaveAnsweredKeeps,
     SaveEndsKeeps, ListSettingsKeeps, SettingsArriveKeeps, FocusSettingsKeeps, RunRetentionKeeps
     DEF SettingsNext
<1> QED BY <1>1, <1>2

\* A step of the page that ends a save ends it as a failure or as done.
SavesEndSeen ==
  \A c \in SaveCalls :
    saves[c].step \in {"refetching", "replaced"} /\ saves'[c] = NoSave =>
      shown.at >= saves[c].wrote \/ fetch.step = "asked" \/ (fetch.step = "read" /\ fetch.at >= saves[c].wrote)

\* The settings are correct.
THEOREM SettingsPromiseHolds == SettingsSpec => SettingsPromise
<1>1. SettingsInvariant => SettingsTypeOK /\ RetentionLeavesTheLastDay /\ SavesEndSeen
  BY DEF SettingsInvariant, SavesAreSeen, PageSees, SavesEndSeen
<1>2. SettingsInvariant /\ [SettingsNext]_settingVars => [SavesEndSeen]_settingVars
  BY <1>1
<1> QED BY <1>1, <1>2, SettingsStart, SettingsStep, PTL
    DEF SettingsSpec, SettingsPromise, SavedSettingsAreShown, SavesEndSeen

----------------------------------------------------------------------------
\* The page of the logs.

\* What makes the log page's promise inductive: the open source, every search and every list
\* in the cache are of the filters they are known by.
LogsAreAsAsked ==
  /\ channels \subseteq {filters}
  /\ \A r \in logRequests : r.asked = LogKey(r.key)
  /\ \A f \in Filters : answers[LogKey(f)] \in {All, f}

LogInvariant == LogTypeOK /\ LogsAreAsAsked

\* The tail keeps at most MaxLines lines, and the one that came last among them.
LEMMA LastLineIsKept ==
  ASSUME NEW lines \in Seq(Filters), Len(lines) <= MaxLines, NEW line \in Filters
  PROVE  /\ LastLines(Append(lines, line)) \in Seq(Filters)
         /\ Len(LastLines(Append(lines, line))) \in 1..MaxLines
         /\ LastLines(Append(lines, line))[Len(LastLines(Append(lines, line)))] = line
<1> DEFINE longer == Append(lines, line)
<1>1. /\ longer \in Seq(Filters) /\ Len(longer) = Len(lines) + 1 /\ longer[Len(lines) + 1] = line
      /\ Len(lines) \in Nat /\ MaxLines \in Nat \ {0}
  BY AppendProperties, LenProperties, LogAssumption DEF LogAssumption
<1>2. CASE Len(longer) <= MaxLines
  BY <1>1, <1>2 DEF LastLines
<1>3. CASE ~(Len(longer) <= MaxLines)
  <2>1. longer # << >> /\ LastLines(longer) = Tail(longer)
    BY <1>1, <1>3, EmptySeq DEF LastLines
  <2>2. /\ Tail(longer) \in Seq(Filters) /\ Len(Tail(longer)) = Len(longer) - 1
        /\ \A i \in 1..Len(Tail(longer)) : Tail(longer)[i] = longer[i + 1]
    BY <1>1, <2>1, HeadTailProperties
  <2>3. Len(lines) = MaxLines /\ Len(Tail(longer)) = Len(lines) /\ Len(lines) \in 1..Len(lines)
    BY <1>1, <1>3, <2>2
  <2> QED BY <1>1, <2>1, <2>2, <2>3
<1> QED BY <1>2, <1>3

LEMMA LogStarts == LogInit => LogInvariant
<1> SUFFICES ASSUME LogInit PROVE LogInvariant
  OBVIOUS
<1>1. tailLines \in Seq(Filters) /\ Len(tailLines) = 0
  BY EmptySeq DEF LogInit
<1>2. 0 <= MaxLines
  BY LogAssumption DEF LogAssumption
<1>3. filters \in Filters
  BY DEF LogInit, Filters
<1>4. LogTypeOK
  BY <1>1, <1>2, <1>3 DEF LogInit, LogTypeOK
<1>5. LogsAreAsAsked
  BY DEF LogInit, LogsAreAsAsked, LogKey
<1> QED BY <1>4, <1>5 DEF LogInvariant

LEMMA LogStep == LogInvariant /\ [LogNext]_logVars => LogInvariant'
<1> SUFFICES ASSUME LogInvariant, [LogNext]_logVars PROVE LogInvariant'
  OBVIOUS
<1> USE DEF LogInvariant
<1>1. CASE UNCHANGED logVars
  BY <1>1 DEF logVars, LogTypeOK, LogsAreAsAsked
<1>2. ASSUME NEW on \in BOOLEAN, NEW chosen \in Filters PROVE Streams(on, chosen) \subseteq {chosen}
  BY DEF Streams, CloseStream
<1>3. ASSUME NEW chosen \in Filters, SelectFilters(chosen) PROVE LogInvariant'
  BY <1>2, <1>3 DEF SelectFilters, LogTypeOK, LogsAreAsAsked
<1>4. CASE ToggleTail
  <2>1. tailLines' \in Seq(Filters) /\ Len(tailLines') = 0 /\ 0 <= MaxLines
    BY <1>4, EmptySeq, LogAssumption DEF ToggleTail, LogAssumption
  <2>2. (~tailing) \in BOOLEAN /\ channels' \subseteq {filters}
    BY <1>2, <1>4 DEF ToggleTail, LogTypeOK
  <2> QED BY <1>4, <2>1, <2>2 DEF ToggleTail, LogTypeOK, LogsAreAsAsked
<1>5. ASSUME NEW channel \in channels, LineArrives(channel) PROVE LogInvariant'
  <2>1. channel \in Filters
    BY DEF LogTypeOK
  <2>2. tailLines' \in Seq(Filters) /\ Len(tailLines') <= MaxLines
    BY <1>5, <2>1, LastLineIsKept, LogAssumption DEF LineArrives, LogTypeOK, LogAssumption
  <2> QED BY <1>5, <2>2 DEF LineArrives, LogTypeOK, LogsAreAsAsked
<1>6. CASE FetchLogs
  BY <1>6 DEF FetchLogs, LogTypeOK, LogsAreAsAsked, LogKey
<1>7. ASSUME NEW r \in logRequests, LogsArrive(r) PROVE LogInvariant'
  <2>1. r.key \in Filters /\ r.asked = r.key
    BY DEF LogTypeOK, LogsAreAsAsked, LogKey
  <2> QED BY <1>7, <2>1 DEF LogsArrive, LogTypeOK, LogsAreAsAsked, LogKey
<1>8. ASSUME NEW r \in logRequests, LogsFail(r) PROVE LogInvariant'
  BY <1>8 DEF LogsFail, LogTypeOK, LogsAreAsAsked
<1> QED BY <1>1, <1>3, <1>4, <1>5, <1>6, <1>7, <1>8 DEF LogNext

\* A line is added to the tail only by the stream that is open.
LEMMA LinesAreAdded ==
  LogInvariant /\ LogNext =>
    (tailLines' # tailLines /\ tailLines' # << >> => tailLines'[Len(tailLines')] = filters)
<1> SUFFICES ASSUME LogInvariant, LogNext, tailLines' # tailLines, tailLines' # << >>
             PROVE  tailLines'[Len(tailLines')] = filters
  OBVIOUS
<1>1. PICK channel \in channels : LineArrives(channel)
  BY DEF LogNext, SelectFilters, ToggleTail, FetchLogs, LogsArrive, LogsFail
<1>2. channel = filters /\ channel \in Filters
  BY DEF LogInvariant, LogTypeOK, LogsAreAsAsked
<1> QED BY <1>1, <1>2, LastLineIsKept DEF LogInvariant, LogTypeOK, LineArrives

\* The log page is correct.
THEOREM LogPromiseHolds == LogSpec => LogPromise
<1>1. LogInvariant => LogTypeOK /\ ListedLinesAreOfTheFilters
  BY DEF LogInvariant, LogTypeOK, LogsAreAsAsked, ListedLinesAreOfTheFilters
<1>2. LogInvariant /\ [LogNext]_logVars =>
        [tailLines' # tailLines /\ tailLines' # << >> => tailLines'[Len(tailLines')] = filters]_logVars
  BY LinesAreAdded
<1> QED BY <1>1, <1>2, LogStarts, LogStep, PTL
    DEF LogSpec, LogPromise, AddedLinesAreOfTheFilters

-----------------------------------------------------------------------------
(***************************************************************************)
(* The state of services (ServiceStatus). The invariant says of a load on  *)
(* its own that its probes found what they say, and that one which no list *)
(* overlapped follows the list before it; and of a success that was shown  *)
(* that it is remembered: stored still, or pruned, and then older than any *)
(* probe under way, so that it is never stored anew.                       *)
(***************************************************************************)
\* A check that a list names is stored, or was pruned: then it lies before every probe.
AllProbesAfter(t) ==
  \A c \in StatusCalls : statusCalls[c] # Missing =>
    \A s \in DOMAIN statusCalls[c].probes : t < statusCalls[c].probes[s].health.at

Remembered(s, t) ==
  t = 0 \/ [at |-> t, healthy |-> TRUE] \in checks[s] \/ (t < pulse /\ AllProbesAfter(t))

Happened(s, health) ==
  /\ health.lastSuccess # 0 => [at |-> health.lastSuccess, healthy |-> TRUE] \in outcomes[s]
  /\ health.lastFailure # 0 => [at |-> health.lastFailure, healthy |-> FALSE] \in outcomes[s]

ProbeStands(s, probe) ==
  /\ Happened(s, probe.health)
  /\ probe.health.at <= pulse
  /\ probe.step = "worked" => probe.health.lastSuccess = probe.health.at
  /\ probe.step = "broke" => probe.health.lastFailure = probe.health.at
  /\ mishaps = 0 /\ probe.step # "worked" => Remembered(s, probe.health.lastSuccess)

\* A load that began after the list was stored sees what that list names, unless pruned.
Follows(s, probe) ==
  LET t == statusEntry.list[s].health.lastSuccess IN
  /\ t <= probe.health.at
  /\ mishaps = 0 /\ probe.step # "begun" /\ [at |-> t, healthy |-> TRUE] \in checks[s] =>
       t <= probe.health.lastSuccess

Loads(call) == call.kind = "list" /\ call.step = "probing"

CallStands(call) ==
  /\ call.since <= edits
  /\ call.since = edits => call.rows = registered
  /\ \A s \in DOMAIN call.probes : ProbeStands(s, call.probes[s])
  /\ Loads(call) => DOMAIN call.probes = Services
  /\ Loads(call) /\ ~call.overlapped /\ statusEntry.list # Missing =>
       \A s \in Services : Follows(s, call.probes[s])

EntryStands ==
  /\ statusEntry.fresh => statusEntry.list # Missing
  /\ statusEntry.list # Missing =>
       \A s \in Services : /\ Happened(s, statusEntry.list[s].health)
                           /\ mishaps = 0 => Remembered(s, statusEntry.list[s].health.lastSuccess)

ChecksStand ==
  \A s \in Services : checks[s] \subseteq outcomes[s] /\ \A check \in outcomes[s] : check.at <= pulse

StatusInvariant ==
  /\ StatusTypeOK /\ ChecksStand /\ EntryStands /\ ServedListsFollowTheRegistry
  /\ \A c \in StatusCalls : statusCalls[c] # Missing => CallStands(statusCalls[c])

-----------------------------------------------------------------------------
\* Of natural numbers there is a least one, and of those up to a bound a greatest.
LEMMA LeastOf ==
  ASSUME NEW T \in SUBSET Nat, T # {}
  PROVE  \E x \in T : \A y \in T : x <= y
<1>1. PICK x \in T : \A y \in T : ~(<<y, x>> \in OpToRel(<, Nat))
  BY NatLessThanWellFounded, WFMin
<1>2. \A y \in T : ~(y < x)
  BY <1>1 DEF OpToRel
<1> QED BY <1>2

LEMMA GreatestOf ==
  ASSUME NEW n \in Nat, NEW S \in SUBSET (0..n), S # {}
  PROVE  Max(S) \in S /\ \A j \in S : j <= Max(S)
<1>1. \A i \in S : i \in Nat /\ i <= n /\ n - i \in Nat
  OBVIOUS
<1>2. PICK T \in SUBSET Nat : T = {n - i : i \in S}
  BY <1>1
<1>3. T # {}
  BY <1>2
<1>4. PICK x \in T : \A y \in T : x <= y
  BY <1>3, LeastOf
<1>5. PICK i \in S : x = n - i
  BY <1>2, <1>4
<1>6. \A j \in S : i >= j
  <2> SUFFICES ASSUME NEW j \in S PROVE i >= j
    OBVIOUS
  <2>1. n - i <= n - j
    BY <1>2, <1>4, <1>5
  <2> QED BY <2>1, <1>1
<1>7. Max(S) \in S /\ \A j \in S : Max(S) >= j
  BY <1>6 DEF Max
<1> QED BY <1>1, <1>7

\* What lastCheck finds: nothing, or the newest stored check of that kind.
LEMMA LastCheckFinds ==
  ASSUME StatusTypeOK, NEW s \in Services, NEW healthy \in BOOLEAN
  PROVE  /\ LastCheck(s, healthy) \in 0..MaxPulse
         /\ LastCheck(s, healthy) # 0 => [at |-> LastCheck(s, healthy), healthy |-> healthy] \in checks[s]
         /\ \A t \in Nat : [at |-> t, healthy |-> healthy] \in checks[s] => t <= LastCheck(s, healthy)
<1>1. MaxPulse \in Nat /\ checks[s] \subseteq Check
  BY StatusAssumption DEF StatusTypeOK
<1>2. PICK S : S = {0} \union {check.at : check \in {k \in checks[s] : k.healthy = healthy}}
  OBVIOUS
<1>3. S \in SUBSET (0..MaxPulse) /\ S # {}
  BY <1>1, <1>2 DEF Check
<1>4. PICK t : t = Max(S)
  OBVIOUS
<1>5. t \in S /\ \A j \in S : j <= t
  BY <1>1, <1>3, <1>4, GreatestOf
<1>6. t = LastCheck(s, healthy)
  BY <1>2, <1>4 DEF LastCheck
<1>7. \A check \in Check : check = [at |-> check.at, healthy |-> check.healthy]
  BY DEF Check
<1>8. t # 0 => [at |-> t, healthy |-> healthy] \in checks[s]
  <2> SUFFICES ASSUME t # 0 PROVE [at |-> t, healthy |-> healthy] \in checks[s]
    OBVIOUS
  <2>1. PICK check \in checks[s] : check.healthy = healthy /\ t = check.at
    BY <1>2, <1>5
  <2> QED BY <1>1, <1>7, <2>1
<1>9. ASSUME NEW n \in Nat, [at |-> n, healthy |-> healthy] \in checks[s] PROVE n <= t
  <2>1. n \in S
    BY <1>2, <1>9
  <2> QED BY <1>5, <2>1
<1> QED BY <1>3, <1>5, <1>6, <1>8, <1>9

-----------------------------------------------------------------------------
\* Types of the parts.
LEMMA HealthShape ==
  ASSUME NEW health \in Found
  PROVE  /\ health.at \in 1..MaxPulse /\ health.at \in Nat /\ health.at >= 1
         /\ health.lastSuccess \in 0..MaxPulse /\ health.lastSuccess \in Nat
         /\ health.lastFailure \in 0..MaxPulse /\ health.lastFailure \in Nat
BY StatusAssumption DEF Found

LEMMA CallShape ==
  ASSUME NEW call \in StatusCall
  PROVE  /\ call.kind \in {"list", "page", "edit"} /\ call.step \in {"listed", "probing", "failed", "written"}
         /\ call.rows \in [Services -> ServiceRow] /\ call.since \in 0..MaxUpsets /\ call.overlapped \in BOOLEAN
         /\ call.probes \in Probes /\ call # Missing
BY StatusAssumption DEF StatusCall

LEMMA ProbesShape ==
  ASSUME NEW ps \in Probes
  PROVE  /\ DOMAIN ps \in SUBSET Services /\ ps \in [DOMAIN ps -> Probe]
         /\ \A s \in DOMAIN ps : ps[s] \in Probe /\ ps[s].health \in Found
BY DEF Probes, Probe

LEMMA EntryShape ==
  ASSUME StatusTypeOK
  PROVE  /\ statusEntry.list \in [Services -> Item] \union {Missing}
         /\ statusEntry.fresh \in BOOLEAN /\ statusEntry.overtaken \in BOOLEAN
         /\ statusEntry.list # Missing => /\ statusEntry.list \in [Services -> Item]
                                          /\ \A s \in Services : statusEntry.list[s].health \in Found
BY DEF StatusTypeOK, Item

LEMMA PulseTyped ==
  ASSUME StatusTypeOK
  PROVE  pulse \in Nat /\ pulse >= 1 /\ edits \in Nat /\ mishaps \in Nat /\ MaxPulse \in Nat /\ MaxUpsets \in Nat
BY StatusAssumption DEF StatusTypeOK

LEMMA StatusStarts == StatusInit => StatusInvariant
<1> SUFFICES ASSUME StatusInit PROVE StatusInvariant
  OBVIOUS
<1>1. statusEntry.list = Missing /\ ~statusEntry.fresh
  BY DEF StatusInit
<1>2. StatusTypeOK
  <2>1. registered \in [Services -> ServiceRow] /\ checks \in [Services -> SUBSET Check] /\ outcomes = checks
    BY DEF StatusInit
  <2>2. pulse \in 1..MaxPulse /\ edits \in 0..MaxUpsets /\ mishaps \in 0..MaxUpsets
    BY StatusAssumption DEF StatusInit
  <2>3. statusEntry \in [list : [Services -> Item] \union {Missing}, fresh : BOOLEAN, overtaken : BOOLEAN]
    BY DEF StatusInit
  <2>4. statusCalls \in [StatusCalls -> StatusCall \union {Missing}]
    BY DEF StatusInit
  <2> QED BY <2>1, <2>2, <2>3, <2>4 DEF StatusTypeOK
<1>3. ChecksStand
  BY DEF StatusInit, ChecksStand
<1> QED BY <1>1, <1>2, <1>3 DEF StatusInit, StatusInvariant, EntryStands, ServedListsFollowTheRegistry

-----------------------------------------------------------------------------
(***************************************************************************)
(* What every step keeps: probes found what they found, time and counters  *)
(* go on, and a success that is kept stays kept.                           *)
(***************************************************************************)
GoesOn ==
  /\ StatusTypeOK'
  /\ \A s \in Services : outcomes[s] \subseteq outcomes'[s]
  /\ pulse <= pulse' /\ mishaps <= mishaps'
  /\ edits <= edits' /\ (edits' = edits => registered' = registered)
  /\ \A s \in Services, t \in Nat : Remembered(s, t) => Remembered(s, t)'

\* The list stays, and the successes it names are not stored anew.
SameList ==
  /\ statusEntry'.list = statusEntry.list
  /\ mishaps' = 0 /\ statusEntry.list # Missing =>
       \A s \in Services : LET t == statusEntry.list[s].health.lastSuccess IN
         [at |-> t, healthy |-> TRUE] \in checks'[s] => [at |-> t, healthy |-> TRUE] \in checks[s]

LEMMA MishapsGo ==
  ASSUME StatusTypeOK, GoesOn
  PROVE  mishaps' = 0 => mishaps = 0
<1>1. mishaps \in Nat /\ mishaps' \in Nat /\ mishaps <= mishaps'
  BY StatusAssumption DEF StatusTypeOK, GoesOn
<1> QED BY <1>1

LEMMA HappenedStays ==
  ASSUME GoesOn, NEW s \in Services, NEW health, Happened(s, health)
  PROVE  Happened(s, health)'
BY DEF GoesOn, Happened

LEMMA ProbeStays ==
  ASSUME StatusTypeOK, GoesOn, NEW s \in Services, NEW probe, probe.health \in Found, ProbeStands(s, probe)
  PROVE  ProbeStands(s, probe)'
<1>1. pulse \in Nat /\ pulse' \in Nat /\ pulse <= pulse' /\ probe.health.at \in Nat /\ probe.health.lastSuccess \in Nat
  BY StatusAssumption, HealthShape DEF StatusTypeOK, GoesOn
<1>2. probe.health.at <= pulse'
  BY <1>1 DEF ProbeStands
<1>3. mishaps' = 0 /\ probe.step # "worked" => Remembered(s, probe.health.lastSuccess)'
  BY <1>1, MishapsGo DEF ProbeStands, GoesOn
<1>4. Happened(s, probe.health)'
  BY HappenedStays DEF ProbeStands
<1> QED BY <1>2, <1>3, <1>4 DEF ProbeStands

LEMMA FollowsStays ==
  ASSUME StatusTypeOK, GoesOn, SameList, statusEntry.list # Missing, NEW s \in Services, NEW probe, Follows(s, probe)
  PROVE  Follows(s, probe)'
BY MishapsGo DEF Follows, SameList

\* What was read of the registry before its last edit is not taken for its present state.
LEMMA SinceStays ==
  ASSUME StatusTypeOK, GoesOn, NEW since \in 0..MaxUpsets, NEW rows, since <= edits, since = edits => rows = registered
  PROVE  since <= edits' /\ (since = edits' => rows = registered')
<1>1. since \in Nat /\ edits \in Nat /\ edits' \in Nat /\ edits <= edits'
  BY StatusAssumption DEF StatusTypeOK, GoesOn
<1>2. since <= edits'
  BY <1>1
<1>3. since = edits' => since = edits /\ edits' = edits
  BY <1>1
<1> QED BY <1>2, <1>3 DEF GoesOn

LEMMA CallStays ==
  ASSUME StatusTypeOK, GoesOn, SameList, NEW call \in StatusCall, CallStands(call)
  PROVE  CallStands(call)'
<1>1. \A s \in DOMAIN call.probes : s \in Services /\ call.probes[s].health \in Found
  BY CallShape, ProbesShape
<1>2. \A s \in DOMAIN call.probes : ProbeStands(s, call.probes[s])'
  BY <1>1, ProbeStays DEF CallStands
<1>3. ASSUME Loads(call), ~call.overlapped, statusEntry'.list # Missing, NEW s \in Services
      PROVE  Follows(s, call.probes[s])'
  <2>1. statusEntry.list # Missing
    BY <1>3 DEF SameList
  <2>2. Follows(s, call.probes[s])
    BY <1>3, <2>1 DEF CallStands
  <2> QED BY <2>1, <2>2, FollowsStays
<1>4. call.since <= edits' /\ (call.since = edits' => call.rows = registered')
  <2>1. PICK since \in 0..MaxUpsets : since = call.since
    BY CallShape
  <2>2. since <= edits /\ (since = edits => call.rows = registered)
    BY <2>1 DEF CallStands
  <2>3. since <= edits' /\ (since = edits' => call.rows = registered')
    BY <2>2, SinceStays
  <2> QED BY <2>1, <2>3
<1>5. Loads(call) => DOMAIN call.probes = Services
  BY DEF CallStands
<1> QED BY <1>2, <1>3, <1>4, <1>5 DEF CallStands, Loads

LEMMA EntryStays ==
  ASSUME StatusTypeOK, EntryStands, GoesOn, statusEntry'.list = statusEntry.list,
         statusEntry'.fresh => statusEntry.fresh
  PROVE  EntryStands'
<1>1. ASSUME statusEntry.list # Missing, NEW s \in Services
      PROVE  /\ Happened(s, statusEntry.list[s].health)'
             /\ mishaps' = 0 => Remembered(s, statusEntry.list[s].health.lastSuccess)'
  <2>1. PICK health \in Found : health = statusEntry.list[s].health
    BY <1>1, EntryShape
  <2>2. Happened(s, health) /\ (mishaps = 0 => Remembered(s, health.lastSuccess)) /\ health.lastSuccess \in Nat
    BY <1>1, <2>1, HealthShape DEF EntryStands
  <2>3. Happened(s, health)' /\ (mishaps' = 0 => Remembered(s, health.lastSuccess)')
    BY <2>2, HappenedStays, MishapsGo DEF GoesOn
  <2>4. health = statusEntry'.list[s].health
    BY <2>1
  <2> QED BY <2>1, <2>3, <2>4
<1> QED BY <1>1 DEF EntryStands

\* A step that changes one call at most, and neither the list nor the registry.
LEMMA OneCallFollows ==
  ASSUME StatusInvariant, GoesOn, SameList, ChecksStand', NEW c \in StatusCalls, NEW call \in StatusCall \union {Missing},
         statusCalls' = [statusCalls EXCEPT ![c] = call],
         call # Missing => CallStands(call)',
         statusEntry'.fresh => statusEntry.fresh, statusEntry'.overtaken = statusEntry.overtaken,
         (statusCalls[c] # Missing /\ statusCalls[c].step = "written") =>
            ~statusEntry'.fresh \/ (call # Missing /\ call.step = "written"),
         registered' = registered \/ (call # Missing /\ call.step = "written")
  PROVE  StatusInvariant'
<1>1. /\ statusCalls \in [StatusCalls -> StatusCall \union {Missing}]
      /\ statusCalls'[c] = call /\ \A d \in StatusCalls : d # c => statusCalls'[d] = statusCalls[d]
  BY DEF StatusInvariant, StatusTypeOK
<1>2. (\A d \in StatusCalls : statusCalls[d] # Missing => CallStands(statusCalls[d]))'
  <2> SUFFICES ASSUME NEW d \in StatusCalls, statusCalls'[d] # Missing PROVE CallStands(statusCalls[d])'
    OBVIOUS
  <2>1. CASE d = c
    <3>1. call = statusCalls'[d] /\ CallStands(call)'
      BY <1>1, <2>1
    <3> QED BY <3>1 DEF CallStands, Loads, ProbeStands, Follows, Happened, Remembered
  <2>2. CASE d # c
    <3>1. PICK other \in StatusCall : other = statusCalls[d]
      BY <1>1, <2>2
    <3>2. CallStands(other)
      BY <1>1, <2>2, <3>1 DEF StatusInvariant
    <3>3. CallStands(other)'
      BY <3>2, CallStays DEF StatusInvariant
    <3>4. other = statusCalls'[d]
      BY <1>1, <2>2, <3>1
    <3> QED BY <3>3, <3>4 DEF CallStands, Loads, ProbeStands, Follows, Happened, Remembered
  <2> QED BY <2>1, <2>2
<1>3. EntryStands'
  BY EntryStays DEF StatusInvariant, SameList
<1>4. ServedListsFollowTheRegistry'
  <2> SUFFICES ASSUME statusEntry'.fresh, ~statusEntry'.overtaken,
                      \A d \in StatusCalls : statusCalls'[d] # Missing => statusCalls'[d].step # "written",
                      NEW s \in Services
               PROVE  statusEntry'.list[s].row = registered'[s]
    BY DEF ServedListsFollowTheRegistry
  <2>1. \A d \in StatusCalls : statusCalls[d] # Missing => statusCalls[d].step # "written"
    BY <1>1
  <2>2. statusEntry.fresh /\ ~statusEntry.overtaken
    OBVIOUS
  <2>3. statusEntry.list[s].row = registered[s]
    BY <2>1, <2>2 DEF StatusInvariant, ServedListsFollowTheRegistry
  <2>4. registered' = registered
    BY <1>1
  <2> QED BY <2>3, <2>4 DEF SameList
<1>5. StatusTypeOK' /\ ChecksStand'
  BY DEF GoesOn
<1> QED BY <1>2, <1>3, <1>4, <1>5 DEF StatusInvariant

\* The probes of a call begin now, or began when they did.
Timed(c, call) ==
  call # Missing => \A s \in DOMAIN call.probes :
    \/ call.probes[s].health.at = pulse
    \/ /\ statusCalls[c] # Missing /\ s \in DOMAIN statusCalls[c].probes
       /\ call.probes[s].health.at = statusCalls[c].probes[s].health.at

LEMMA KeptStays ==
  ASSUME StatusTypeOK, NEW c \in StatusCalls, NEW call, statusCalls' = [statusCalls EXCEPT ![c] = call],
         Timed(c, call), \A s \in Services : checks[s] \subseteq checks'[s], pulse' = pulse,
         NEW s \in Services, NEW t \in Nat, Remembered(s, t)
  PROVE  Remembered(s, t)'
<1>1. statusCalls'[c] = call /\ \A d \in StatusCalls : d # c => statusCalls'[d] = statusCalls[d]
  BY DEF StatusTypeOK
<1>2. ASSUME t < pulse, AllProbesAfter(t) PROVE AllProbesAfter(t)'
  <2> SUFFICES ASSUME NEW d \in StatusCalls, statusCalls'[d] # Missing, NEW r \in DOMAIN statusCalls'[d].probes
               PROVE  t < statusCalls'[d].probes[r].health.at
    BY DEF AllProbesAfter
  <2>1. CASE d = c
    BY <1>1, <1>2, <2>1 DEF Timed, AllProbesAfter
  <2>2. CASE d # c
    BY <1>1, <1>2, <2>2 DEF AllProbesAfter
  <2> QED BY <2>1, <2>2
<1> QED BY <1>2 DEF Remembered

\* A step of one call that stores no check.
LEMMA CallMoves ==
  ASSUME StatusInvariant, NEW c \in StatusCalls, NEW call \in StatusCall \union {Missing},
         statusCalls' = [statusCalls EXCEPT ![c] = call], Timed(c, call),
         UNCHANGED <<registered, checks, pulse, edits>>,
         mishaps' \in 0..MaxUpsets, mishaps <= mishaps',
         outcomes' \in [Services -> SUBSET Check],
         \A s \in Services : outcomes[s] \subseteq outcomes'[s] /\ \A check \in outcomes'[s] : check.at <= pulse,
         statusEntry' = statusEntry \/ statusEntry' = [statusEntry EXCEPT !.fresh = FALSE]
  PROVE  GoesOn /\ SameList /\ ChecksStand'
<1>1. /\ statusEntry' \in [list : [Services -> Item] \union {Missing}, fresh : BOOLEAN, overtaken : BOOLEAN]
      /\ statusEntry'.list = statusEntry.list
  BY DEF StatusInvariant, StatusTypeOK
<1>2. statusCalls' \in [StatusCalls -> StatusCall \union {Missing}]
  BY DEF StatusInvariant, StatusTypeOK
<1>3. StatusTypeOK'
  BY <1>1, <1>2 DEF StatusInvariant, StatusTypeOK
<1>4. \A s \in Services, t \in Nat : Remembered(s, t) => Remembered(s, t)'
  BY KeptStays DEF StatusInvariant
<1>5. pulse <= pulse'
  BY PulseTyped DEF StatusInvariant
<1>6. GoesOn
  BY <1>3, <1>4, <1>5, PulseTyped DEF GoesOn, StatusInvariant
<1>7. SameList
  BY <1>1 DEF SameList
<1>8. ChecksStand'
  BY DEF StatusInvariant, ChecksStand
<1> QED BY <1>6, <1>7, <1>8

LEMMA CallEnds ==
  ASSUME StatusInvariant, NEW c \in StatusCalls, statusCalls' = [statusCalls EXCEPT ![c] = Missing],
         UNCHANGED <<registered, checks, pulse, edits, mishaps, outcomes>>,
         \/ statusEntry' = statusEntry /\ (statusCalls[c] # Missing => statusCalls[c].step # "written")
         \/ statusEntry' = [statusEntry EXCEPT !.fresh = FALSE]
  PROVE  StatusInvariant'
<1>1. Timed(c, Missing)
  BY DEF Timed
<1>2. /\ mishaps' \in 0..MaxUpsets /\ mishaps <= mishaps' /\ outcomes' \in [Services -> SUBSET Check]
  BY PulseTyped DEF StatusInvariant, StatusTypeOK
<1>3. \A s \in Services : outcomes[s] \subseteq outcomes'[s] /\ \A check \in outcomes'[s] : check.at <= pulse
  BY DEF StatusInvariant, ChecksStand
<1>4. GoesOn /\ SameList /\ ChecksStand'
  BY <1>1, <1>2, <1>3, CallMoves
<1>5. /\ statusEntry'.fresh => statusEntry.fresh
      /\ statusEntry'.overtaken = statusEntry.overtaken
      /\ (statusCalls[c] # Missing /\ statusCalls[c].step = "written") => ~statusEntry'.fresh
  BY DEF StatusInvariant, StatusTypeOK
<1> QED BY <1>4, <1>5, OneCallFollows

\* A call that begins: of what it read of the registry, and with probes that begin now.
LEMMA CallMade ==
  ASSUME StatusTypeOK, NEW kind \in {"list", "page", "edit"}, NEW step \in {"listed", "probing", "written"},
         NEW rows \in [Services -> ServiceRow], NEW since \in 0..MaxUpsets, NEW probed \in SUBSET Services,
         NEW call, call = Call(kind, step, rows, since, probed)
  PROVE  /\ call \in StatusCall /\ call # Missing /\ call.kind = kind /\ call.step = step /\ call.rows = rows
         /\ call.since = since /\ DOMAIN call.probes = probed
         /\ \A s \in probed : /\ call.probes[s].step = "begun" /\ call.probes[s].health.at = pulse
                              /\ call.probes[s].health.lastSuccess = 0 /\ call.probes[s].health.lastFailure = 0
<1>1. PICK probe : probe = [step |-> "begun", health |-> [at |-> pulse, lastSuccess |-> 0, lastFailure |-> 0]]
  OBVIOUS
<1>2. probe \in Probe
  BY <1>1, PulseTyped DEF Probe, Found, StatusTypeOK
<1>3. call = [kind |-> kind, step |-> step, rows |-> rows, since |-> since, overlapped |-> FALSE,
              probes |-> [s \in probed |-> probe]]
  BY <1>1 DEF Call
<1>4. [s \in probed |-> probe] \in Probes
  BY <1>2 DEF Probes
<1>5. call \in StatusCall
  BY <1>3, <1>4 DEF StatusCall
<1>6. call.probes = [s \in probed |-> probe]
  BY <1>3
<1>7. DOMAIN call.probes = probed /\ \A s \in probed : call.probes[s] = probe
  BY <1>6
<1>8. /\ probe.step = "begun" /\ probe.health.at = pulse
      /\ probe.health.lastSuccess = 0 /\ probe.health.lastFailure = 0
  BY <1>1
<1>9. call.kind = kind /\ call.step = step /\ call.rows = rows /\ call.since = since
  BY <1>3
<1>10. call # Missing
  BY <1>5, CallShape
<1>11. \A s \in probed : /\ call.probes[s].step = "begun" /\ call.probes[s].health.at = pulse
                          /\ call.probes[s].health.lastSuccess = 0 /\ call.probes[s].health.lastFailure = 0
  BY <1>7, <1>8
<1> QED BY <1>5, <1>7, <1>9, <1>10, <1>11

LEMMA MadeStands ==
  ASSUME StatusInvariant, GoesOn, SameList, ChecksStand', NEW kind \in {"list", "page", "edit"},
         NEW step \in {"listed", "probing", "written"},
         NEW rows \in [Services -> ServiceRow], NEW since \in 0..MaxUpsets, NEW probed \in SUBSET Services,
         NEW call, call = Call(kind, step, rows, since, probed),
         since <= edits, since = edits => rows = registered,
         kind = "list" /\ step = "probing" => probed = Services, pulse' = pulse
  PROVE  CallStands(call)'
<1>1. /\ call \in StatusCall /\ call # Missing /\ call.kind = kind /\ call.step = step /\ call.rows = rows
      /\ call.since = since /\ DOMAIN call.probes = probed
      /\ \A s \in probed : /\ call.probes[s].step = "begun" /\ call.probes[s].health.at = pulse
                           /\ call.probes[s].health.lastSuccess = 0 /\ call.probes[s].health.lastFailure = 0
  BY CallMade DEF StatusInvariant
<1>2. call.since <= edits' /\ (call.since = edits' => call.rows = registered')
  BY <1>1, SinceStays DEF StatusInvariant
<1>3. \A s \in probed : ProbeStands(s, call.probes[s])'
  <2> SUFFICES ASSUME NEW s \in probed PROVE ProbeStands(s, call.probes[s])'
    OBVIOUS
  <2>1. pulse <= pulse'
    BY DEF GoesOn
  <2> QED BY <1>1, <2>1 DEF ProbeStands, Happened, Remembered
<1>4. ASSUME Loads(call), statusEntry'.list # Missing, NEW s \in Services PROVE Follows(s, call.probes[s])'
  <2>1. s \in probed
    BY <1>1, <1>4 DEF Loads
  <2>2. PICK health \in Found : health = statusEntry.list[s].health
    BY <1>4, EntryShape DEF SameList, StatusInvariant
  <2>3. PICK n \in Nat : n = health.lastSuccess
    BY HealthShape
  <2>4. n <= pulse
    <3>1. Happened(s, health)
      BY <1>4, <2>2 DEF StatusInvariant, EntryStands, SameList
    <3>2. n = 0 \/ n <= pulse
      BY <2>3, <3>1 DEF Happened, StatusInvariant, ChecksStand
    <3> QED BY <2>3, <3>2, PulseTyped DEF StatusInvariant
  <2>5. statusEntry'.list[s].health.lastSuccess = n
    BY <2>2, <2>3 DEF SameList
  <2> QED BY <1>1, <2>1, <2>4, <2>5 DEF Follows
<1> QED BY <1>1, <1>2, <1>3, <1>4 DEF CallStands, Loads

LEMMA CallBegins ==
  ASSUME StatusInvariant, NEW c \in StatusCalls, NEW kind \in {"list", "page"}, NEW step \in {"listed", "probing"},
         NEW rows \in [Services -> ServiceRow], NEW since \in 0..MaxUpsets, NEW probed \in SUBSET Services,
         statusCalls' = [statusCalls EXCEPT ![c] = Call(kind, step, rows, since, probed)],
         since <= edits, since = edits => rows = registered,
         kind = "list" /\ step = "probing" => probed = Services,
         UNCHANGED <<registered, checks, statusEntry, pulse, edits, mishaps, outcomes>>,
         statusCalls[c] # Missing => statusCalls[c].step # "written"
  PROVE  StatusInvariant'
<1>1. PICK call : call = Call(kind, step, rows, since, probed)
  OBVIOUS
<1>2. call \in StatusCall /\ call # Missing /\ DOMAIN call.probes = probed
      /\ \A s \in probed : call.probes[s].health.at = pulse
  BY <1>1, CallMade DEF StatusInvariant
<1>3. Timed(c, call)
  BY <1>2 DEF Timed
<1>4. mishaps' \in 0..MaxUpsets /\ mishaps <= mishaps' /\ outcomes' \in [Services -> SUBSET Check]
  BY PulseTyped DEF StatusInvariant, StatusTypeOK
<1>5. \A s \in Services : outcomes[s] \subseteq outcomes'[s] /\ \A check \in outcomes'[s] : check.at <= pulse
  BY DEF StatusInvariant, ChecksStand
<1>6. GoesOn /\ SameList /\ ChecksStand'
  BY <1>1, <1>2, <1>3, <1>4, <1>5, CallMoves
<1>7. CallStands(call)'
  BY <1>1, <1>6, MadeStands
<1> QED BY <1>1, <1>2, <1>6, <1>7, OneCallFollows

LEMMA ReadersStand ==
  ASSUME StatusInvariant, NEW c \in StatusCalls,
         \/ ListApplications(c) \/ AnswerFromCache(c) \/ BeginLoad(c) \/ EndCall(c) \/ UpsertAnswered(c)
         \/ \E s \in Services : RequireApplication(c, s)
  PROVE  StatusInvariant'
<1>1. /\ registered \in [Services -> ServiceRow] /\ edits \in 0..MaxUpsets /\ edits <= edits
      /\ statusCalls[c] \in StatusCall \union {Missing}
  BY PulseTyped DEF StatusInvariant, StatusTypeOK
<1>2. CASE ListApplications(c)
  <2>1. /\ statusCalls' = [statusCalls EXCEPT ![c] = Call("list", "listed", registered, edits, {})]
        /\ UNCHANGED <<registered, checks, statusEntry, pulse, edits, mishaps, outcomes>>
        /\ statusCalls[c] = Missing
    BY <1>2 DEF ListApplications
  <2>2. {} \in SUBSET Services
    OBVIOUS
  <2> QED BY <1>1, <2>1, <2>2, CallBegins
<1>3. CASE AnswerFromCache(c)
  BY <1>3, CallEnds DEF AnswerFromCache
<1>4. CASE BeginLoad(c)
  <2>1. statusCalls[c] \in StatusCall /\ statusCalls[c].step = "listed" /\ CallStands(statusCalls[c])
    BY <1>1, <1>4 DEF BeginLoad, StatusInvariant
  <2>2. /\ statusCalls[c].rows \in [Services -> ServiceRow] /\ statusCalls[c].since \in 0..MaxUpsets
        /\ statusCalls[c].since <= edits /\ (statusCalls[c].since = edits => statusCalls[c].rows = registered)
    BY <2>1, CallShape DEF CallStands
  <2> QED BY <1>4, <2>1, <2>2, CallBegins DEF BeginLoad
<1>5. CASE EndCall(c)
  BY <1>5, CallEnds DEF EndCall, Recorded
<1>6. CASE UpsertAnswered(c)
  BY <1>6, CallEnds DEF UpsertAnswered, InvalidateStatuses
<1>7. ASSUME NEW s \in Services, RequireApplication(c, s) PROVE StatusInvariant'
  <2>1. /\ statusCalls' = [statusCalls EXCEPT ![c] = Call("page", "probing", registered, edits, {s})]
        /\ UNCHANGED <<registered, checks, statusEntry, pulse, edits, mishaps, outcomes>>
        /\ statusCalls[c] = Missing
    BY <1>7 DEF RequireApplication
  <2>2. {s} \in SUBSET Services
    OBVIOUS
  <2> QED BY <1>1, <2>1, <2>2, CallBegins
<1> QED BY <1>2, <1>3, <1>4, <1>5, <1>6, <1>7

-----------------------------------------------------------------------------
Probed(call, was, s, probe) ==
  call = [was EXCEPT !.probes[s] = probe] \/ call = [was EXCEPT !.probes[s] = probe, !.step = "failed"]

\* A probe moves on: its call keeps what it read of the registry, and its other probes.
LEMMA ProbedCall ==
  ASSUME StatusTypeOK, NEW c \in StatusCalls, NEW was \in StatusCall, statusCalls[c] = was,
         NEW s \in DOMAIN was.probes, NEW probe \in Probe, probe.health.at = was.probes[s].health.at,
         NEW call, Probed(call, was, s, probe)
  PROVE  /\ call \in StatusCall /\ call # Missing /\ call.kind = was.kind /\ call.rows = was.rows
         /\ call.since = was.since /\ call.overlapped = was.overlapped
         /\ call.step = was.step \/ call.step = "failed"
         /\ DOMAIN call.probes = DOMAIN was.probes /\ s \in Services
         /\ call.probes[s] = probe /\ \A r \in DOMAIN was.probes : r # s => call.probes[r] = was.probes[r]
         /\ Timed(c, call)
<1>1. PICK ps : ps = [was.probes EXCEPT ![s] = probe]
  OBVIOUS
<1>2. /\ was.kind \in {"list", "page", "edit"} /\ was.step \in {"listed", "probing", "failed", "written"}
      /\ was.rows \in [Services -> ServiceRow] /\ was.since \in 0..MaxUpsets /\ was.overlapped \in BOOLEAN
      /\ was.probes \in Probes /\ was # Missing
  BY CallShape
<1>3. DOMAIN was.probes \in SUBSET Services /\ was.probes \in [DOMAIN was.probes -> Probe]
  BY <1>2, ProbesShape
<1>4. ps \in [DOMAIN was.probes -> Probe] /\ DOMAIN ps = DOMAIN was.probes
      /\ ps[s] = probe /\ \A r \in DOMAIN was.probes : r # s => ps[r] = was.probes[r]
  BY <1>1, <1>3
<1>5. ps \in Probes
  BY <1>3, <1>4 DEF Probes
<1>6. PICK step \in {was.step, "failed"} :
        call = [kind |-> was.kind, step |-> step, rows |-> was.rows, since |-> was.since,
                overlapped |-> was.overlapped, probes |-> ps]
  BY <1>1 DEF StatusCall, Probed
<1>7. call \in StatusCall
  BY <1>2, <1>5, <1>6 DEF StatusCall
<1>8. /\ call.kind = was.kind /\ call.rows = was.rows /\ call.step = step /\ call.probes = ps
      /\ call.since = was.since /\ call.overlapped = was.overlapped
  BY <1>6
<1>9. Timed(c, call)
  BY <1>2, <1>4, <1>8 DEF Timed
<1>10. call # Missing
  BY <1>7, CallShape
<1> QED BY <1>3, <1>4, <1>6, <1>7, <1>8, <1>9, <1>10

\* If the new probe is sound, and follows the list if it is of a load, so is its call.
LEMMA ProbedStands ==
  ASSUME StatusInvariant, GoesOn, SameList, NEW c \in StatusCalls, NEW was \in StatusCall, statusCalls[c] = was,
         NEW s \in DOMAIN was.probes, NEW probe \in Probe, NEW call \in StatusCall,
         call.kind = was.kind, call.rows = was.rows, call.since = was.since, call.overlapped = was.overlapped,
         call.step = was.step \/ call.step = "failed",
         DOMAIN call.probes = DOMAIN was.probes,
         call.probes[s] = probe, \A r \in DOMAIN was.probes : r # s => call.probes[r] = was.probes[r],
         ProbeStands(s, probe)',
         statusEntry.list # Missing /\ Follows(s, was.probes[s]) => Follows(s, probe)'
  PROVE  CallStands(call)'
<1>1. CallStands(was) /\ StatusTypeOK
  BY CallShape DEF StatusInvariant
<1>2. CallStands(was)'
  BY <1>1, CallStays
<1>3. \A r \in DOMAIN was.probes : ProbeStands(r, was.probes[r])'
  BY <1>2 DEF CallStands
<1>4. \A r \in DOMAIN call.probes : ProbeStands(r, call.probes[r])'
  <2> SUFFICES ASSUME NEW r \in DOMAIN call.probes PROVE ProbeStands(r, call.probes[r])'
    OBVIOUS
  <2>1. CASE r = s
    BY <2>1
  <2>2. CASE r # s
    BY <1>3, <2>2
  <2> QED BY <2>1, <2>2
<1>5. ASSUME Loads(call), ~call.overlapped, statusEntry'.list # Missing, NEW r \in Services
      PROVE  Follows(r, call.probes[r])'
  <2>1. Loads(was) /\ DOMAIN was.probes = Services /\ statusEntry.list # Missing /\ ~was.overlapped
    BY <1>1, <1>5 DEF Loads, CallStands, SameList
  <2>2. \A q \in Services : Follows(q, was.probes[q])
    BY <1>1, <2>1 DEF CallStands
  <2>3. CASE r = s
    BY <2>1, <2>2, <2>3
  <2>4. CASE r # s
    <3>1. Follows(r, was.probes[r])'
      BY <1>1, <2>1, <2>2, FollowsStays
    <3>2. call.probes[r] = was.probes[r]
      BY <2>1, <2>4
    <3> QED BY <3>1, <3>2
  <2> QED BY <2>3, <2>4
<1> QED BY <1>2, <1>4, <1>5 DEF CallStands, Loads

LEMMA ProbedProbe ==
  ASSUME StatusInvariant, NEW c \in StatusCalls, NEW s, NEW step, Probing(c, s, step)
  PROVE  /\ statusCalls[c] \in StatusCall /\ statusCalls[c].step \in {"probing", "failed"}
         /\ s \in Services /\ s \in DOMAIN statusCalls[c].probes
         /\ statusCalls[c].probes[s] \in Probe /\ statusCalls[c].probes[s].health \in Found
         /\ statusCalls[c].probes[s].step = step
         /\ ProbeStands(s, statusCalls[c].probes[s])
<1>1. statusCalls[c] \in StatusCall
  BY DEF Probing, StatusInvariant, StatusTypeOK
<1>2. s \in DOMAIN statusCalls[c].probes
  BY DEF Probing
<1>3. CallStands(statusCalls[c])
  BY DEF Probing, StatusInvariant
<1> QED BY <1>1, <1>2, <1>3, CallShape, ProbesShape DEF Probing, CallStands

\* What the steps of a probe that store nothing have in common.
LEMMA ProbeMoves ==
  ASSUME StatusInvariant, NEW c \in StatusCalls, NEW s, NEW step, Probing(c, s, step),
         NEW probe \in Probe, probe.health.at = statusCalls[c].probes[s].health.at,
         NEW call, Probed(call, statusCalls[c], s, probe),
         statusCalls' = [statusCalls EXCEPT ![c] = call],
         UNCHANGED <<registered, checks, statusEntry, pulse, edits>>,
         mishaps' \in 0..MaxUpsets, mishaps <= mishaps',
         outcomes' \in [Services -> SUBSET Check],
         \A r \in Services : outcomes[r] \subseteq outcomes'[r] /\ \A check \in outcomes'[r] : check.at <= pulse,
         GoesOn => ProbeStands(s, probe)',
         (GoesOn /\ statusEntry.list # Missing /\ Follows(s, statusCalls[c].probes[s])) => Follows(s, probe)'
  PROVE  StatusInvariant'
<1>1. PICK was \in StatusCall : was = statusCalls[c]
  BY ProbedProbe
<1>2. s \in DOMAIN was.probes /\ s \in Services /\ was.step \in {"probing", "failed"}
  BY <1>1, ProbedProbe
<1>3. /\ call \in StatusCall /\ call # Missing /\ call.kind = was.kind /\ call.rows = was.rows
      /\ call.since = was.since /\ call.overlapped = was.overlapped
      /\ call.step = was.step \/ call.step = "failed"
      /\ DOMAIN call.probes = DOMAIN was.probes /\ s \in Services
      /\ call.probes[s] = probe /\ \A r \in DOMAIN was.probes : r # s => call.probes[r] = was.probes[r]
      /\ Timed(c, call)
  <2>1. StatusTypeOK /\ statusCalls[c] = was /\ probe.health.at = was.probes[s].health.at
    BY <1>1 DEF StatusInvariant
  <2>2. Probed(call, was, s, probe)
    BY <1>1
  <2>3. s \in DOMAIN was.probes
    BY <1>2
  <2> QED BY <2>1, <2>2, <2>3, ProbedCall
<1>4. GoesOn /\ SameList /\ ChecksStand'
  BY <1>3, CallMoves
<1>5. CallStands(call)'
  BY <1>1, <1>2, <1>3, <1>4, ProbedStands
<1> QED BY <1>1, <1>2, <1>3, <1>4, <1>5, OneCallFollows

LEMMA ReadLastStands ==
  ASSUME StatusInvariant, NEW c \in StatusCalls, NEW s \in Services, ReadLast(c, s)
  PROVE  StatusInvariant'
<1>1. Probing(c, s, "begun")
  BY DEF ReadLast
<1>2. PICK was \in Probe : was = statusCalls[c].probes[s]
  BY <1>1, ProbedProbe
<1>3. was.health \in Found /\ was.step = "begun" /\ ProbeStands(s, was)
  BY <1>1, <1>2, ProbedProbe
<1>4. PICK probe : probe = [step |-> IF statusCalls[c].rows[s].probed THEN "asked" ELSE "recorded",
                            health |-> [at |-> was.health.at,
                                        lastSuccess |-> LastCheck(s, TRUE), lastFailure |-> LastCheck(s, FALSE)]]
  OBVIOUS
<1>5. StatusTypeOK
  BY DEF StatusInvariant
<1>6. PICK success \in 0..MaxPulse : success = LastCheck(s, TRUE)
  BY <1>5, LastCheckFinds
<1>7. PICK failure \in 0..MaxPulse : failure = LastCheck(s, FALSE)
  BY <1>5, LastCheckFinds
<1>8. /\ probe \in Probe /\ probe.step \in {"asked", "recorded"} /\ probe.health.at = was.health.at
      /\ probe.health.lastSuccess = success /\ probe.health.lastFailure = failure
  BY <1>3, <1>4, <1>6, <1>7, HealthShape DEF Probe, Found
<1>9. PICK call : call = [statusCalls[c] EXCEPT !.probes[s] = probe]
  OBVIOUS
<1>9a. Probed(call, statusCalls[c], s, probe)
  BY Zenon, <1>9 DEF Probed
<1>10. /\ statusCalls' = [statusCalls EXCEPT ![c] = call]
       /\ UNCHANGED <<registered, checks, statusEntry, pulse, edits, mishaps, outcomes>>
  <2>1. statusCalls' = [statusCalls EXCEPT ![c].probes[s] = probe]
    BY Zenon, <1>2, <1>4 DEF ReadLast, MoveProbe
  <2> QED BY <1>9, <2>1 DEF ReadLast
<1>11. /\ success # 0 => [at |-> success, healthy |-> TRUE] \in checks[s]
       /\ failure # 0 => [at |-> failure, healthy |-> FALSE] \in checks[s]
       /\ \A t \in Nat : [at |-> t, healthy |-> TRUE] \in checks[s] => t <= success
  BY <1>5, <1>6, <1>7, LastCheckFinds
<1>12. checks[s] \subseteq outcomes[s] /\ outcomes' = outcomes /\ checks' = checks /\ pulse' = pulse
  BY <1>10 DEF StatusInvariant, ChecksStand
<1>13. ProbeStands(s, probe)'
  <2>1. Happened(s, probe.health)'
    BY <1>8, <1>11, <1>12 DEF Happened
  <2>2. Remembered(s, probe.health.lastSuccess)'
    BY <1>8, <1>11, <1>12 DEF Remembered
  <2>3. probe.health.at <= pulse'
    BY <1>3, <1>8, <1>12 DEF ProbeStands
  <2> QED BY <1>8, <2>1, <2>2, <2>3 DEF ProbeStands
<1>14. ASSUME statusEntry.list # Missing, Follows(s, was) PROVE Follows(s, probe)'
  <2>1. PICK t \in Nat : t = statusEntry.list[s].health.lastSuccess
    BY <1>5, <1>14, EntryShape, HealthShape
  <2>2. t <= was.health.at
    BY <1>14, <2>1 DEF Follows
  <2>3. [at |-> t, healthy |-> TRUE] \in checks'[s] => t <= success
    BY <1>11, <1>12, <2>1
  <2>4. t = statusEntry'.list[s].health.lastSuccess
    BY <1>10, <2>1
  <2> QED BY <1>8, <2>2, <2>3, <2>4 DEF Follows
<1>15. /\ mishaps' \in 0..MaxUpsets /\ mishaps <= mishaps' /\ outcomes' \in [Services -> SUBSET Check]
       /\ \A r \in Services : outcomes[r] \subseteq outcomes'[r] /\ \A check \in outcomes'[r] : check.at <= pulse
  BY <1>5, <1>10, PulseTyped DEF StatusTypeOK, StatusInvariant, ChecksStand
<1> QED BY <1>1, <1>2, <1>8, <1>9a, <1>10, <1>13, <1>14, <1>15, ProbeMoves

LEMMA ProbeFailsStands ==
  ASSUME StatusInvariant, NEW c \in StatusCalls, NEW s \in Services, ProbeFails(c, s)
  PROVE  StatusInvariant'
<1>1. Probing(c, s, "begun")
  BY DEF ProbeFails
<1>2. PICK was \in Probe : was = statusCalls[c].probes[s]
  BY <1>1, ProbedProbe
<1>3. was.health \in Found /\ was.step = "begun" /\ ProbeStands(s, was)
  BY <1>1, <1>2, ProbedProbe
<1>4. PICK probe : probe = [was EXCEPT !.step = "recorded"]
  OBVIOUS
<1>5. probe \in Probe /\ probe.step = "recorded" /\ probe.health = was.health
  BY <1>4 DEF Probe
<1>6. PICK call : call = [statusCalls[c] EXCEPT !.probes[s] = probe, !.step = "failed"]
  OBVIOUS
<1>12. Probed(call, statusCalls[c], s, probe)
  BY Zenon, <1>6 DEF Probed
<1>7. /\ statusCalls' = [statusCalls EXCEPT ![c] = call]
      /\ UNCHANGED <<registered, checks, statusEntry, pulse, edits, outcomes>>
      /\ mishaps' = mishaps + 1 /\ edits + mishaps < MaxUpsets
  <2>1. statusCalls' = [statusCalls EXCEPT ![c].step = "failed", ![c].probes[s].step = "recorded"]
    BY DEF ProbeFails
  <2>2. statusCalls \in [StatusCalls -> StatusCall \union {Missing}] /\ statusCalls[c] \in StatusCall
    BY <1>1, ProbedProbe DEF StatusInvariant, StatusTypeOK
  <2>3. statusCalls' = [statusCalls EXCEPT ![c] = call]
    BY <1>2, <1>4, <1>6, <2>1, <2>2 DEF StatusCall
  <2> QED BY <2>3 DEF ProbeFails, Upsettable
<1>8. mishaps' \in 0..MaxUpsets /\ mishaps <= mishaps' /\ mishaps' # 0
  BY <1>7, PulseTyped DEF StatusInvariant
<1>9. GoesOn => ProbeStands(s, probe)'
  <2> SUFFICES ASSUME GoesOn PROVE ProbeStands(s, probe)'
    OBVIOUS
  <2>1. Happened(s, was.health)'
    BY <1>3, HappenedStays DEF ProbeStands
  <2> QED BY <1>3, <1>5, <1>7, <1>8, <2>1 DEF ProbeStands
<1>10. Follows(s, was) => Follows(s, probe)'
  BY <1>5, <1>7, <1>8 DEF Follows
<1>11. /\ outcomes' \in [Services -> SUBSET Check]
       /\ \A r \in Services : outcomes[r] \subseteq outcomes'[r] /\ \A check \in outcomes'[r] : check.at <= pulse
  BY <1>7 DEF StatusTypeOK, StatusInvariant, ChecksStand
<1> QED BY <1>1, <1>2, <1>5, <1>7, <1>8, <1>9, <1>10, <1>11, <1>12, ProbeMoves

LEMMA ProbeAnsweredStands ==
  ASSUME StatusInvariant, NEW c \in StatusCalls, NEW s \in Services, NEW healthy \in BOOLEAN, ProbeAnswered(c, s, healthy)
  PROVE  StatusInvariant'
<1>1. Probing(c, s, "asked")
  BY DEF ProbeAnswered
<1>2. PICK was \in Probe : was = statusCalls[c].probes[s]
  BY <1>1, ProbedProbe
<1>3. was.health \in Found /\ was.step = "asked" /\ ProbeStands(s, was)
  BY <1>1, <1>2, ProbedProbe
<1>4. PICK probe : probe = IF healthy THEN [step |-> "worked", health |-> [was.health EXCEPT !.lastSuccess = was.health.at]]
                           ELSE [step |-> "broke", health |-> [was.health EXCEPT !.lastFailure = was.health.at]]
  OBVIOUS
<1>5. /\ was.health.at \in 1..MaxPulse /\ was.health.at \in 0..MaxPulse /\ was.health.at # 0
      /\ was.health.lastSuccess \in Nat /\ was.health.at \in Nat
  BY <1>3, HealthShape, PulseTyped DEF StatusInvariant
<1>6. healthy => /\ probe \in Probe /\ probe.step = "worked" /\ probe.health.at = was.health.at
                 /\ probe.health.lastSuccess = was.health.at /\ probe.health.lastFailure = was.health.lastFailure
  BY <1>3, <1>4, <1>5 DEF Probe, Found
<1>7. ~healthy => /\ probe \in Probe /\ probe.step = "broke" /\ probe.health.at = was.health.at
                  /\ probe.health.lastFailure = was.health.at /\ probe.health.lastSuccess = was.health.lastSuccess
  BY <1>3, <1>4, <1>5 DEF Probe, Found
<1>8. PICK call : call = [statusCalls[c] EXCEPT !.probes[s] = probe]
  OBVIOUS
<1>9. Probed(call, statusCalls[c], s, probe)
  BY Zenon, <1>8 DEF Probed
<1>10. PICK found : found = [at |-> was.health.at, healthy |-> healthy]
  OBVIOUS
<1>11. /\ statusCalls' = [statusCalls EXCEPT ![c] = call]
       /\ outcomes' = [outcomes EXCEPT ![s] = outcomes[s] \union {found}]
       /\ UNCHANGED <<registered, checks, statusEntry, pulse, edits, mishaps>>
  <2>1. statusCalls' = [statusCalls EXCEPT ![c].probes[s] = probe]
    BY Zenon, <1>2, <1>4 DEF ProbeAnswered, MoveProbe
  <2>2. outcomes' = [outcomes EXCEPT ![s] = outcomes[s] \union {found}]
    BY <1>2, <1>10 DEF ProbeAnswered
  <2> QED BY <1>8, <2>1, <2>2 DEF ProbeAnswered
<1>12. /\ outcomes' \in [Services -> SUBSET Check] /\ outcomes'[s] = outcomes[s] \union {found}
       /\ \A r \in Services : r # s => outcomes'[r] = outcomes[r]
  <2>1. found \in Check
    BY <1>5, <1>10 DEF Check
  <2> QED BY <1>11, <2>1 DEF StatusInvariant, StatusTypeOK
<1>13. found.at <= pulse /\ was.health.at <= pulse
  BY <1>3, <1>10 DEF ProbeStands
<1>14. \A r \in Services : outcomes[r] \subseteq outcomes'[r] /\ \A check \in outcomes'[r] : check.at <= pulse
  BY <1>12, <1>13 DEF StatusInvariant, ChecksStand
<1>15. mishaps' \in 0..MaxUpsets /\ mishaps <= mishaps'
  BY <1>11, PulseTyped DEF StatusTypeOK, StatusInvariant
<1>16. GoesOn => ProbeStands(s, probe)'
  <2> SUFFICES ASSUME GoesOn PROVE ProbeStands(s, probe)'
    OBVIOUS
  <2>1. Happened(s, was.health)'
    BY <1>3, HappenedStays DEF ProbeStands
  <2>2. Happened(s, probe.health)'
    BY <1>6, <1>7, <1>10, <1>12, <2>1 DEF Happened
  <2>3. mishaps' = 0 /\ ~healthy => Remembered(s, was.health.lastSuccess)'
    BY <1>3, <1>5, <1>11 DEF ProbeStands, GoesOn
  <2> QED BY <1>6, <1>7, <1>11, <1>13, <2>2, <2>3 DEF ProbeStands
<1>17. ASSUME statusEntry.list # Missing, Follows(s, was) PROVE Follows(s, probe)'
  BY <1>3, <1>6, <1>7, <1>11, <1>17 DEF Follows
<1> QED BY <1>1, <1>2, <1>6, <1>7, <1>9, <1>11, <1>12, <1>14, <1>15, <1>16, <1>17, ProbeMoves

\* A check is stored: no list names it yet.
LEMMA CheckIsNew ==
  ASSUME StatusInvariant, NEW c \in StatusCalls, NEW s \in Services, NEW healthy \in BOOLEAN, NEW was \in Probe,
         Probing(c, s, IF healthy THEN "worked" ELSE "broke"), was = statusCalls[c].probes[s],
         NEW check, check = [at |-> was.health.at, healthy |-> healthy],
         checks' = [checks EXCEPT ![s] = checks[s] \union {check}],
         UNCHANGED <<statusEntry, mishaps, outcomes, pulse>>
  PROVE  /\ checks' \in [Services -> SUBSET Check] /\ checks'[s] = checks[s] \union {check}
         /\ \A r \in Services : r # s => checks'[r] = checks[r]
         /\ SameList /\ ChecksStand'
<1>1. was.health \in Found /\ was.step = (IF healthy THEN "worked" ELSE "broke") /\ ProbeStands(s, was)
  BY ProbedProbe
<1>2. was.health.at \in 1..MaxPulse /\ was.health.at \in Nat /\ was.health.at # 0
  BY <1>1, HealthShape
<1>3. check \in Check
  BY <1>2 DEF Check
<1>4. checks' \in [Services -> SUBSET Check] /\ checks'[s] = checks[s] \union {check}
      /\ \A r \in Services : r # s => checks'[r] = checks[r]
  BY <1>3 DEF StatusInvariant, StatusTypeOK
<1>5. check \in outcomes[s]
  BY <1>1, <1>2 DEF ProbeStands, Happened
<1>6. ChecksStand'
  BY <1>4, <1>5 DEF StatusInvariant, ChecksStand
<1>7. ASSUME mishaps = 0, statusEntry.list # Missing, NEW t, t = statusEntry.list[s].health.lastSuccess,
             [at |-> t, healthy |-> TRUE] = check
      PROVE  [at |-> t, healthy |-> TRUE] \in checks[s]
  <2>1. t = was.health.at
    BY <1>7
  <2>2. Remembered(s, t)
    BY <1>7 DEF StatusInvariant, EntryStands
  <2>3. ~AllProbesAfter(t)
    <3>1. statusCalls[c] # Missing /\ s \in DOMAIN statusCalls[c].probes
      BY DEF Probing
    <3>2. ~(t < statusCalls[c].probes[s].health.at)
      BY <1>2, <2>1
    <3> QED BY <3>1, <3>2 DEF AllProbesAfter
  <2> QED BY <1>2, <2>1, <2>2, <2>3 DEF Remembered
<1>8. SameList
  <2> SUFFICES ASSUME mishaps = 0, statusEntry.list # Missing, NEW r \in Services, NEW t,
                      t = statusEntry.list[r].health.lastSuccess, [at |-> t, healthy |-> TRUE] \in checks'[r]
               PROVE  [at |-> t, healthy |-> TRUE] \in checks[r]
    BY DEF SameList
  <2>1. CASE r # s
    BY <1>4, <2>1
  <2>2. CASE r = s
    BY <1>4, <1>7, <2>2
  <2> QED BY <2>1, <2>2
<1> QED BY <1>4, <1>6, <1>8

LEMMA CheckStoredStands ==
  ASSUME StatusInvariant, NEW c \in StatusCalls, NEW s \in Services, NEW healthy \in BOOLEAN,
         PersistCheck(c, s, healthy, TRUE)
  PROVE  StatusInvariant'
<1>1. Probing(c, s, IF healthy THEN "worked" ELSE "broke")
  BY DEF PersistCheck
<1>2. PICK was \in Probe : was = statusCalls[c].probes[s]
  BY <1>1, ProbedProbe
<1>3. /\ was.health \in Found /\ was.step = (IF healthy THEN "worked" ELSE "broke") /\ ProbeStands(s, was)
      /\ statusCalls[c] \in StatusCall /\ s \in DOMAIN statusCalls[c].probes
      /\ statusCalls[c].step \in {"probing", "failed"}
  BY <1>1, <1>2, ProbedProbe
<1>4. PICK probe : probe = [step |-> "recorded", health |-> was.health]
  OBVIOUS
<1>5. probe \in Probe /\ probe.step = "recorded" /\ probe.health = was.health
  BY <1>3, <1>4 DEF Probe
<1>6. PICK call : call = [statusCalls[c] EXCEPT !.probes[s] = probe]
  OBVIOUS
<1>7. Probed(call, statusCalls[c], s, probe)
  BY Zenon, <1>6 DEF Probed
<1>8. PICK check : check = [at |-> was.health.at, healthy |-> healthy]
  OBVIOUS
<1>9. /\ statusCalls' = [statusCalls EXCEPT ![c] = call]
      /\ checks' = [checks EXCEPT ![s] = checks[s] \union {check}]
      /\ UNCHANGED <<registered, statusEntry, pulse, edits, outcomes>> /\ mishaps' = mishaps
  <2>1. statusCalls' = [statusCalls EXCEPT ![c].probes[s] = probe]
    BY Zenon, <1>2, <1>4 DEF PersistCheck, MoveProbe
  <2>2. checks' = [checks EXCEPT ![s] = checks[s] \union {check}]
    BY <1>2, <1>8 DEF PersistCheck
  <2> QED BY <1>6, <2>1, <2>2 DEF PersistCheck
<1>10. /\ checks' \in [Services -> SUBSET Check] /\ checks'[s] = checks[s] \union {check}
       /\ \A r \in Services : r # s => checks'[r] = checks[r]
       /\ SameList /\ ChecksStand'
  BY <1>1, <1>2, <1>8, <1>9, CheckIsNew
<1>11. PICK old \in StatusCall : old = statusCalls[c]
  BY <1>3
<1>12. /\ call \in StatusCall /\ call # Missing /\ call.kind = old.kind /\ call.rows = old.rows
       /\ call.since = old.since /\ call.overlapped = old.overlapped
       /\ call.step = old.step \/ call.step = "failed"
       /\ DOMAIN call.probes = DOMAIN old.probes
       /\ call.probes[s] = probe /\ \A r \in DOMAIN old.probes : r # s => call.probes[r] = old.probes[r]
       /\ Timed(c, call)
  <2>1. StatusTypeOK /\ statusCalls[c] = old /\ probe.health.at = old.probes[s].health.at
    BY <1>2, <1>5, <1>11 DEF StatusInvariant
  <2>2. Probed(call, old, s, probe) /\ s \in DOMAIN old.probes
    BY <1>3, <1>7, <1>11
  <2> QED BY <1>5, <2>1, <2>2, ProbedCall
<1>13. GoesOn
  <2>1. statusCalls' \in [StatusCalls -> StatusCall \union {Missing}]
    BY <1>9, <1>12 DEF StatusInvariant, StatusTypeOK
  <2>2. StatusTypeOK'
    BY <1>9, <1>10, <2>1 DEF StatusInvariant, StatusTypeOK
  <2>3. \A r \in Services : checks[r] \subseteq checks'[r]
    BY <1>10
  <2>4. \A r \in Services, t \in Nat : Remembered(r, t) => Remembered(r, t)'
    BY <1>9, <1>12, <2>3, KeptStays DEF StatusInvariant
  <2>5. pulse <= pulse' /\ mishaps <= mishaps' /\ edits <= edits'
    BY <1>9, PulseTyped DEF StatusInvariant
  <2> QED BY <1>9, <2>2, <2>4, <2>5 DEF GoesOn
<1>14. was.health.lastSuccess \in Nat /\ was.health.at \in Nat
  BY <1>3, HealthShape
<1>15. ProbeStands(s, probe)'
  <2>1. Happened(s, was.health)'
    BY <1>3, <1>13, HappenedStays DEF ProbeStands
  <2>2. mishaps' = 0 => Remembered(s, was.health.lastSuccess)'
    <3>1. CASE healthy
      <4>1. was.health.lastSuccess = was.health.at
        BY <1>3, <3>1 DEF ProbeStands
      <4>2. [at |-> was.health.lastSuccess, healthy |-> TRUE] \in checks'[s]
        BY <1>8, <1>10, <3>1, <4>1
      <4> QED BY <4>2 DEF Remembered
    <3>2. CASE ~healthy
      BY <1>3, <1>9, <1>13, <1>14, <3>2 DEF ProbeStands, GoesOn
    <3> QED BY <3>1, <3>2
  <2> QED BY <1>3, <1>5, <1>9, <2>1, <2>2 DEF ProbeStands
<1>16. ASSUME statusEntry.list # Missing, Follows(s, was) PROVE Follows(s, probe)'
  <2>1. Follows(s, was)'
    BY <1>10, <1>13, <1>16, FollowsStays DEF StatusInvariant
  <2>2. was.step # "begun"
    BY <1>3
  <2> QED BY <1>5, <2>1, <2>2 DEF Follows
<1>17. CallStands(call)'
  BY <1>2, <1>3, <1>5, <1>10, <1>11, <1>12, <1>13, <1>15, <1>16, ProbedStands
<1> QED BY <1>3, <1>9, <1>10, <1>11, <1>12, <1>13, <1>17, OneCallFollows

LEMMA CheckLostStands ==
  ASSUME StatusInvariant, NEW c \in StatusCalls, NEW s \in Services, NEW healthy \in BOOLEAN,
         PersistCheck(c, s, healthy, FALSE)
  PROVE  StatusInvariant'
<1>1. Probing(c, s, IF healthy THEN "worked" ELSE "broke")
  BY DEF PersistCheck
<1>2. PICK was \in Probe : was = statusCalls[c].probes[s]
  BY <1>1, ProbedProbe
<1>3. was.health \in Found /\ ProbeStands(s, was)
  BY <1>1, <1>2, ProbedProbe
<1>4. PICK probe : probe = [step |-> "recorded", health |-> was.health]
  OBVIOUS
<1>5. probe \in Probe /\ probe.step = "recorded" /\ probe.health = was.health
  BY <1>3, <1>4 DEF Probe
<1>6. PICK call : call = [statusCalls[c] EXCEPT !.probes[s] = probe]
  OBVIOUS
<1>7. Probed(call, statusCalls[c], s, probe)
  BY Zenon, <1>6 DEF Probed
<1>8. /\ statusCalls' = [statusCalls EXCEPT ![c] = call]
      /\ UNCHANGED <<registered, checks, statusEntry, pulse, edits, outcomes>>
      /\ mishaps' = mishaps + 1 /\ edits + mishaps < MaxUpsets
  <2>1. statusCalls' = [statusCalls EXCEPT ![c].probes[s] = probe]
    BY Zenon, <1>2, <1>4 DEF PersistCheck, MoveProbe
  <2> QED BY <1>6, <2>1 DEF PersistCheck, Upsettable
<1>9. mishaps' \in 0..MaxUpsets /\ mishaps <= mishaps' /\ mishaps' # 0
  BY <1>8, PulseTyped DEF StatusInvariant
<1>10. GoesOn => ProbeStands(s, probe)'
  <2> SUFFICES ASSUME GoesOn PROVE ProbeStands(s, probe)'
    OBVIOUS
  <2>1. Happened(s, was.health)'
    BY <1>3, HappenedStays DEF ProbeStands
  <2> QED BY <1>3, <1>5, <1>8, <1>9, <2>1 DEF ProbeStands
<1>11. Follows(s, was) => Follows(s, probe)'
  BY <1>5, <1>8, <1>9 DEF Follows
<1>12. /\ outcomes' \in [Services -> SUBSET Check]
       /\ \A r \in Services : outcomes[r] \subseteq outcomes'[r] /\ \A check \in outcomes'[r] : check.at <= pulse
  BY <1>8 DEF StatusTypeOK, StatusInvariant, ChecksStand
<1> QED BY <1>1, <1>2, <1>5, <1>7, <1>8, <1>9, <1>10, <1>11, <1>12, ProbeMoves

-----------------------------------------------------------------------------
\* An edit of the registry: no list that is being loaded is of its new state.
LEMMA UpsertStands ==
  ASSUME StatusInvariant, NEW c \in StatusCalls, NEW s \in Services, NEW probed \in BOOLEAN, Upsert(c, s, probed)
  PROVE  StatusInvariant'
<1>1. /\ statusCalls[c] = Missing /\ edits + mishaps < MaxUpsets
      /\ registered' = [registered EXCEPT ![s] = [probed |-> probed, edition |-> edits + 1]]
      /\ edits' = edits + 1
      /\ statusCalls' = [statusCalls EXCEPT ![c] = Call("edit", "written", registered, edits, {})]
      /\ UNCHANGED <<checks, statusEntry, pulse, mishaps, outcomes>>
  BY DEF Upsert, Upsettable
<1>2. PICK call : call = Call("edit", "written", registered, edits, {})
  OBVIOUS
<1>3. /\ registered \in [Services -> ServiceRow] /\ edits \in 0..MaxUpsets /\ {} \in SUBSET Services
      /\ edits \in Nat /\ mishaps \in Nat /\ MaxUpsets \in Nat /\ edits <= edits
  BY PulseTyped DEF StatusInvariant, StatusTypeOK
<1>4. /\ call \in StatusCall /\ call # Missing /\ call.kind = "edit" /\ call.step = "written" /\ call.rows = registered
      /\ call.since = edits /\ DOMAIN call.probes = {}
  BY <1>2, <1>3, CallMade DEF StatusInvariant
<1>5. Timed(c, call)
  BY <1>4 DEF Timed
<1>6. GoesOn
  <2>1. edits' \in 0..MaxUpsets /\ edits <= edits' /\ edits' # edits
    BY <1>1, <1>3
  <2>2. registered' \in [Services -> ServiceRow]
    BY <1>1, <1>3, <2>1 DEF ServiceRow
  <2>3. statusCalls' \in [StatusCalls -> StatusCall \union {Missing}]
    BY <1>1, <1>2, <1>4 DEF StatusInvariant, StatusTypeOK
  <2>4. StatusTypeOK'
    BY <1>1, <2>1, <2>2, <2>3 DEF StatusInvariant, StatusTypeOK
  <2>5. statusCalls' = [statusCalls EXCEPT ![c] = call]
    BY <1>1, <1>2
  <2>6. \A r \in Services, t \in Nat : Remembered(r, t) => Remembered(r, t)'
    BY <1>1, <1>5, <2>5, KeptStays DEF StatusInvariant
  <2>7. pulse <= pulse' /\ mishaps <= mishaps'
    BY <1>1, PulseTyped DEF StatusInvariant
  <2> QED BY <1>1, <2>1, <2>4, <2>6, <2>7 DEF GoesOn
<1>7. SameList /\ ChecksStand'
  BY <1>1 DEF SameList, StatusInvariant, ChecksStand
<1>8. CallStands(call)'
  BY <1>1, <1>2, <1>3, <1>6, <1>7, MadeStands
<1>9. statusCalls' = [statusCalls EXCEPT ![c] = call]
  BY <1>1, <1>2
<1> QED BY <1>1, <1>4, <1>6, <1>7, <1>8, <1>9, OneCallFollows

\* A list is stored: the loads that are under way need not follow it.
LEMMA StoreStands ==
  ASSUME StatusInvariant, NEW c \in StatusCalls, StoreStatuses(c)
  PROVE  StatusInvariant'
<1>1. PICK call \in StatusCall : call = statusCalls[c]
  BY DEF StoreStatuses, Recorded, StatusInvariant, StatusTypeOK
<1>2. /\ CallStands(call) /\ Loads(call) /\ DOMAIN call.probes = Services
      /\ \A s \in Services : call.probes[s].step = "recorded"
  BY <1>1 DEF StoreStatuses, Recorded, StatusInvariant, CallStands, Loads
<1>3. /\ call.rows \in [Services -> ServiceRow] /\ call.probes \in [Services -> Probe]
      /\ \A s \in Services : call.probes[s].health \in Found
  BY <1>2, CallShape, ProbesShape
<1>4. PICK list : list = [s \in Services |-> [row |-> call.rows[s], health |-> call.probes[s].health]]
  OBVIOUS
<1>5. list \in [Services -> Item] /\ list # Missing
      /\ \A s \in Services : list[s].row = call.rows[s] /\ list[s].health = call.probes[s].health
  <2>1. list \in [Services -> Item]
    BY <1>3, <1>4 DEF Item
  <2> QED BY <1>4, <2>1, StatusAssumption
<1>6. /\ statusEntry' = [fresh |-> TRUE, overtaken |-> call.since # edits, list |-> list]
      /\ UNCHANGED <<registered, checks, pulse, edits, mishaps, outcomes>>
  BY <1>1, <1>4 DEF StoreStatuses
<1>7. /\ statusEntry'.list = list /\ statusEntry'.fresh = TRUE /\ statusEntry'.overtaken = (call.since # edits)
      /\ statusEntry' \in [list : [Services -> Item] \union {Missing}, fresh : BOOLEAN, overtaken : BOOLEAN]
  BY <1>5, <1>6
<1>8. ASSUME NEW d \in StatusCalls
      PROVE  /\ statusCalls'[d] \in StatusCall \union {Missing}
             /\ statusCalls'[d] # Missing =>
                  /\ d # c /\ statusCalls[d] \in StatusCall
                  /\ statusCalls'[d].probes = statusCalls[d].probes /\ statusCalls'[d].step = statusCalls[d].step
                  /\ statusCalls'[d].since = statusCalls[d].since /\ statusCalls'[d].rows = statusCalls[d].rows
                  /\ statusCalls'[d].kind = statusCalls[d].kind
                  /\ Loads(statusCalls'[d]) => statusCalls'[d].overlapped
  <2>1. /\ d = c => statusCalls'[d] = Missing
        /\ d # c => statusCalls'[d] = IF statusCalls[d] # Missing /\ Loads(statusCalls[d])
                                      THEN [statusCalls[d] EXCEPT !.overlapped = TRUE] ELSE statusCalls[d]
    BY DEF StoreStatuses, Loads
  <2>2. CASE d = c
    BY <2>1, <2>2
  <2>3. CASE d # c /\ ~(statusCalls[d] # Missing /\ Loads(statusCalls[d]))
    BY <2>1, <2>3 DEF StatusInvariant, StatusTypeOK
  <2>4. CASE d # c /\ statusCalls[d] # Missing /\ Loads(statusCalls[d])
    <3>1. PICK old \in StatusCall : old = statusCalls[d]
      BY <2>4 DEF StatusInvariant, StatusTypeOK
    <3>2. PICK new : new = [old EXCEPT !.overlapped = TRUE]
      OBVIOUS
    <3>3. new \in StatusCall
      BY <3>2 DEF StatusCall
    <3>4. /\ new.probes = old.probes /\ new.step = old.step /\ new.since = old.since /\ new.rows = old.rows
          /\ new.kind = old.kind /\ new.overlapped = TRUE
      BY <3>2 DEF StatusCall
    <3>5. statusCalls'[d] = new
      BY <2>1, <2>4, <3>1, <3>2
    <3> QED BY <2>4, <3>1, <3>3, <3>4, <3>5
  <2> QED BY <2>2, <2>3, <2>4
<1>9. StatusTypeOK'
  <2>1. statusCalls' \in [StatusCalls -> StatusCall \union {Missing}]
    BY <1>8 DEF StoreStatuses
  <2> QED BY <1>6, <1>7, <2>1 DEF StatusInvariant, StatusTypeOK
<1>10. GoesOn
  <2>1. ASSUME NEW s \in Services, NEW t \in Nat, Remembered(s, t) PROVE Remembered(s, t)'
    <3>1. ASSUME AllProbesAfter(t) PROVE AllProbesAfter(t)'
      <4> SUFFICES ASSUME NEW d \in StatusCalls, statusCalls'[d] # Missing, NEW r \in DOMAIN statusCalls'[d].probes
                   PROVE  t < statusCalls'[d].probes[r].health.at
        BY DEF AllProbesAfter
      <4>1. statusCalls[d] \in StatusCall /\ statusCalls'[d].probes = statusCalls[d].probes
        BY <1>8
      <4>2. statusCalls[d] # Missing
        BY <4>1, CallShape
      <4> QED BY <3>1, <4>1, <4>2 DEF AllProbesAfter
    <3> QED BY <1>6, <2>1, <3>1 DEF Remembered
  <2>2. pulse <= pulse' /\ mishaps <= mishaps' /\ edits <= edits'
    BY <1>6, PulseTyped DEF StatusInvariant
  <2> QED BY <1>6, <1>9, <2>1, <2>2 DEF GoesOn
<1>11. ASSUME NEW d \in StatusCalls, statusCalls'[d] # Missing PROVE CallStands(statusCalls[d])'
  <2>1. PICK old \in StatusCall : old = statusCalls[d]
    BY <1>8, <1>11
  <2>2. PICK new \in StatusCall : new = statusCalls'[d]
    BY <1>8, <1>11
  <2>3. /\ new.probes = old.probes /\ new.step = old.step /\ new.since = old.since /\ new.rows = old.rows
        /\ new.kind = old.kind /\ (Loads(new) => new.overlapped)
    BY <1>8, <1>11, <2>1, <2>2
  <2>4. CallStands(old)
    BY <2>1, CallShape DEF StatusInvariant
  <2>5. \A s \in DOMAIN old.probes : s \in Services /\ old.probes[s].health \in Found
    BY CallShape, ProbesShape
  <2>6. \A s \in DOMAIN old.probes : ProbeStands(s, old.probes[s])'
    BY <1>10, <2>4, <2>5, ProbeStays DEF CallStands, StatusInvariant
  <2>7. new.since <= edits' /\ (new.since = edits' => new.rows = registered')
    BY <1>6, <2>3, <2>4 DEF CallStands
  <2>8. Loads(new) => DOMAIN new.probes = Services
    BY <2>3, <2>4 DEF CallStands, Loads
  <2>9. CallStands(new)'
    BY <2>3, <2>6, <2>7, <2>8 DEF CallStands, Loads
  <2> QED BY <2>2, <2>9 DEF CallStands, Loads, ProbeStands, Follows, Happened, Remembered
<1>12. EntryStands'
  <2> SUFFICES ASSUME NEW s \in Services
               PROVE  /\ Happened(s, list[s].health)'
                      /\ mishaps' = 0 => Remembered(s, list[s].health.lastSuccess)'
    BY <1>5, <1>7 DEF EntryStands
  <2>1. PICK probe \in Probe : probe = call.probes[s] /\ probe.health \in Found /\ probe.step = "recorded"
    BY <1>2, <1>3
  <2>2. ProbeStands(s, probe)
    BY <1>2, <2>1 DEF CallStands
  <2>3. ProbeStands(s, probe)'
    BY <1>10, <2>1, <2>2, ProbeStays DEF StatusInvariant
  <2>4. Happened(s, probe.health)' /\ (mishaps' = 0 => Remembered(s, probe.health.lastSuccess)')
    BY <2>1, <2>3 DEF ProbeStands
  <2>5. list[s].health = probe.health
    BY <1>5, <2>1
  <2> QED BY <2>4, <2>5
<1>13. ServedListsFollowTheRegistry'
  BY <1>2, <1>5, <1>6, <1>7 DEF ServedListsFollowTheRegistry, CallStands
<1>14. ChecksStand'
  BY <1>6 DEF StatusInvariant, ChecksStand
<1> QED BY <1>9, <1>11, <1>12, <1>13, <1>14 DEF StatusInvariant

-----------------------------------------------------------------------------
\* A step that touches no call.
LEMMA NoCallFollows ==
  ASSUME StatusInvariant, GoesOn, SameList, ChecksStand', UNCHANGED <<statusCalls, registered>>,
         statusEntry'.fresh => statusEntry.fresh, statusEntry'.overtaken = statusEntry.overtaken
  PROVE  StatusInvariant'
<1>1. ASSUME NEW d \in StatusCalls, statusCalls'[d] # Missing PROVE CallStands(statusCalls[d])'
  <2>1. PICK call \in StatusCall : call = statusCalls[d]
    BY <1>1 DEF StatusInvariant, StatusTypeOK
  <2>2. CallStands(call)
    BY <1>1, <2>1 DEF StatusInvariant
  <2>3. CallStands(call)' /\ call = statusCalls'[d]
    BY <2>1, <2>2, CallStays DEF StatusInvariant
  <2> QED BY <2>3 DEF CallStands, Loads, ProbeStands, Follows, Happened, Remembered
<1>2. EntryStands'
  BY EntryStays DEF StatusInvariant, SameList
<1>3. ServedListsFollowTheRegistry'
  BY DEF StatusInvariant, ServedListsFollowTheRegistry, SameList
<1> QED BY <1>1, <1>2, <1>3 DEF StatusInvariant, GoesOn

LEMMA PruneStands ==
  ASSUME StatusInvariant, NEW cutoff \in 2..MaxPulse, PruneChecks(cutoff)
  PROVE  StatusInvariant'
<1>1. /\ checks' = [s \in Services |-> {check \in checks[s] : check.at >= cutoff}] /\ cutoff <= pulse
      /\ UNCHANGED <<registered, statusEntry, statusCalls, pulse, edits, mishaps, outcomes>>
  BY DEF PruneChecks
<1>2. cutoff \in Nat /\ pulse \in Nat /\ MaxPulse \in Nat
  BY PulseTyped DEF StatusInvariant
<1>3. checks' \in [Services -> SUBSET Check] /\ \A s \in Services : checks'[s] \subseteq checks[s]
  BY <1>1 DEF StatusInvariant, StatusTypeOK
<1>4. ASSUME NEW s \in Services, NEW t \in Nat, Remembered(s, t) PROVE Remembered(s, t)'
  <2>1. CASE t = 0 \/ (t < pulse /\ AllProbesAfter(t))
    BY <1>1, <2>1 DEF Remembered, AllProbesAfter
  <2>2. CASE [at |-> t, healthy |-> TRUE] \in checks[s] /\ t >= cutoff
    BY <1>1, <2>2 DEF Remembered
  <2>3. CASE t < cutoff
    <3>1. t < pulse
      BY <1>1, <1>2, <2>3
    <3>2. AllProbesAfter(t)
      <4> SUFFICES ASSUME NEW c \in StatusCalls, statusCalls[c] # Missing, NEW r \in DOMAIN statusCalls[c].probes
                   PROVE  t < statusCalls[c].probes[r].health.at
        BY DEF AllProbesAfter
      <4>1. cutoff <= statusCalls[c].probes[r].health.at
        BY DEF PruneChecks
      <4>2. statusCalls[c].probes[r].health.at \in Nat
        BY CallShape, ProbesShape, HealthShape DEF StatusInvariant, StatusTypeOK
      <4> QED BY <1>2, <2>3, <4>1, <4>2
    <3> QED BY <1>1, <3>1, <3>2 DEF Remembered, AllProbesAfter
  <2> QED BY <1>2, <1>4, <2>1, <2>2, <2>3 DEF Remembered
<1>5. GoesOn
  <2>1. StatusTypeOK'
    BY <1>1, <1>3 DEF StatusInvariant, StatusTypeOK
  <2>2. pulse <= pulse' /\ mishaps <= mishaps' /\ edits <= edits'
    BY <1>1, PulseTyped DEF StatusInvariant
  <2> QED BY <1>1, <1>4, <2>1, <2>2 DEF GoesOn
<1>6. SameList /\ ChecksStand'
  BY <1>1, <1>3 DEF SameList, StatusInvariant, ChecksStand
<1> QED BY <1>1, <1>5, <1>6, NoCallFollows

LEMMA ClockStands ==
  ASSUME StatusInvariant, StatusesExpire \/ Pulse
  PROVE  StatusInvariant'
<1>1. UNCHANGED <<registered, checks, statusCalls, edits, mishaps, outcomes>>
  BY DEF StatusesExpire, Pulse
<1>2. /\ statusEntry' \in [list : [Services -> Item] \union {Missing}, fresh : BOOLEAN, overtaken : BOOLEAN]
      /\ statusEntry'.list = statusEntry.list /\ statusEntry'.overtaken = statusEntry.overtaken
      /\ statusEntry'.fresh => statusEntry.fresh
  BY DEF StatusesExpire, Pulse, StatusInvariant, StatusTypeOK
<1>3. pulse \in Nat /\ pulse' \in 1..MaxPulse /\ pulse <= pulse'
  BY PulseTyped DEF StatusesExpire, Pulse, StatusInvariant, StatusTypeOK
<1>4. pulse' \in Nat
  BY <1>3
<1>5. StatusTypeOK'
  BY <1>1, <1>2, <1>3 DEF StatusInvariant, StatusTypeOK
<1>6. ASSUME NEW s \in Services, NEW t \in Nat, Remembered(s, t) PROVE Remembered(s, t)'
  <2>1. t < pulse => t < pulse'
    BY <1>3, <1>4
  <2> QED BY <1>1, <1>6, <2>1 DEF Remembered, AllProbesAfter
<1>7. GoesOn
  <2>1. mishaps <= mishaps' /\ edits <= edits'
    BY <1>1, PulseTyped DEF StatusInvariant
  <2> QED BY <1>1, <1>3, <1>5, <1>6, <2>1 DEF GoesOn
<1>8. ChecksStand'
  <2>1. \A s \in Services : \A check \in outcomes[s] : check.at \in Nat
    BY StatusAssumption DEF StatusInvariant, StatusTypeOK, Check
  <2>2. \A s \in Services : \A check \in outcomes[s] : check.at <= pulse'
    BY <1>3, <1>4, <2>1 DEF StatusInvariant, ChecksStand
  <2> QED BY <1>1, <2>2 DEF StatusInvariant, ChecksStand
<1>9. SameList
  BY <1>1, <1>2 DEF SameList
<1> QED BY <1>1, <1>2, <1>7, <1>8, <1>9, NoCallFollows

LEMMA StatusStep == StatusInvariant /\ [StatusNext]_statusVars => StatusInvariant'
<1> SUFFICES ASSUME StatusInvariant, [StatusNext]_statusVars PROVE StatusInvariant'
  OBVIOUS
<1>1. ASSUME NEW c \in StatusCalls,
             \/ ListApplications(c) \/ AnswerFromCache(c) \/ BeginLoad(c) \/ EndCall(c) \/ UpsertAnswered(c)
             \/ \E s \in Services : RequireApplication(c, s)
      PROVE  StatusInvariant'
  BY <1>1, ReadersStand
<1>2. ASSUME NEW c \in StatusCalls, StoreStatuses(c) PROVE StatusInvariant'
  BY <1>2, StoreStands
<1>3. ASSUME NEW c \in StatusCalls, NEW s \in Services, ReadLast(c, s) \/ ProbeFails(c, s) PROVE StatusInvariant'
  BY <1>3, ReadLastStands, ProbeFailsStands
<1>4. ASSUME NEW c \in StatusCalls, NEW s \in Services, NEW flag \in BOOLEAN, ProbeAnswered(c, s, flag) \/ Upsert(c, s, flag)
      PROVE  StatusInvariant'
  BY <1>4, ProbeAnsweredStands, UpsertStands
<1>5. ASSUME NEW c \in StatusCalls, NEW s \in Services, NEW healthy \in BOOLEAN, NEW persisted \in BOOLEAN,
             PersistCheck(c, s, healthy, persisted)
      PROVE  StatusInvariant'
  <2>1. CASE persisted = TRUE
    BY <1>5, <2>1, CheckStoredStands
  <2>2. CASE persisted = FALSE
    BY <1>5, <2>2, CheckLostStands
  <2> QED BY <2>1, <2>2
<1>6. ASSUME NEW cutoff \in 2..MaxPulse, PruneChecks(cutoff) PROVE StatusInvariant'
  BY <1>6, PruneStands
<1>7. CASE StatusesExpire \/ Pulse
  BY <1>7, ClockStands
<1>8. CASE UNCHANGED statusVars
  <2>1. UNCHANGED <<registered, checks, statusEntry, statusCalls, pulse, edits, mishaps, outcomes>>
    BY <1>8 DEF statusVars
  <2>2. \A s \in Services, t \in Nat : Remembered(s, t) => Remembered(s, t)'
    BY <2>1 DEF Remembered, AllProbesAfter
  <2>3. StatusTypeOK'
    BY <2>1 DEF StatusInvariant, StatusTypeOK
  <2>4. pulse <= pulse' /\ mishaps <= mishaps' /\ edits <= edits'
    BY <2>1, PulseTyped DEF StatusInvariant
  <2>5. GoesOn
    BY <2>1, <2>2, <2>3, <2>4 DEF GoesOn
  <2>6. SameList /\ ChecksStand'
    BY <2>1 DEF SameList, StatusInvariant, ChecksStand
  <2> QED BY <2>1, <2>5, <2>6, NoCallFollows
<1> QED BY <1>1, <1>2, <1>3, <1>4, <1>5, <1>6, <1>7, <1>8 DEF StatusNext

-----------------------------------------------------------------------------
\* Only StoreStatuses changes the list, and a load that no list overlapped follows the one before.
LEMMA SuccessStays ==
  ASSUME StatusInvariant, NEW c \in StatusCalls, StoreStatuses(c), statusEntry.list # Missing, NEW s \in Services,
         mishaps = 0, ~statusCalls[c].overlapped, NEW t, t = statusEntry.list[s].health.lastSuccess,
         [at |-> t, healthy |-> TRUE] \in checks[s]
  PROVE  statusEntry'.list[s].health.lastSuccess >= t
<1>1. PICK call \in StatusCall : call = statusCalls[c]
  BY DEF StoreStatuses, Recorded, StatusInvariant, StatusTypeOK
<1>2. /\ CallStands(call) /\ Loads(call) /\ DOMAIN call.probes = Services
      /\ call.probes[s].step = "recorded"
  BY <1>1 DEF StoreStatuses, Recorded, StatusInvariant, CallStands, Loads
<1>3. Follows(s, call.probes[s])
  BY <1>1, <1>2 DEF CallStands
<1>4. t <= call.probes[s].health.lastSuccess
  BY <1>2, <1>3 DEF Follows
<1>5. statusEntry'.list[s].health.lastSuccess = call.probes[s].health.lastSuccess
  BY <1>1 DEF StoreStatuses
<1>6. call.probes[s].health \in Found
  BY <1>2, CallShape, ProbesShape
<1>7. PICK n \in Nat : n = call.probes[s].health.lastSuccess
  BY <1>6, HealthShape
<1>8. t \in Nat
  BY EntryShape, HealthShape DEF StatusInvariant
<1> QED BY <1>4, <1>5, <1>7, <1>8

LEMMA OnlyStoresChangeTheList ==
  ASSUME StatusInvariant, [StatusNext]_statusVars, statusEntry'.list # statusEntry.list
  PROVE  \E c \in StatusCalls : StoreStatuses(c)
<1>1. ASSUME statusEntry' = statusEntry \/ statusEntry' = [statusEntry EXCEPT !.fresh = FALSE] PROVE FALSE
  BY <1>1 DEF StatusInvariant, StatusTypeOK
<1>2. StatusNext
  BY <1>1 DEF statusVars
<1>3. ASSUME NEW c \in StatusCalls,
             ListApplications(c) \/ AnswerFromCache(c) \/ BeginLoad(c) \/ EndCall(c) \/ UpsertAnswered(c)
      PROVE  FALSE
  BY <1>1, <1>3 DEF ListApplications, AnswerFromCache, BeginLoad, EndCall, UpsertAnswered, InvalidateStatuses
<1>4. ASSUME NEW c \in StatusCalls, NEW s \in Services, RequireApplication(c, s) \/ ReadLast(c, s) \/ ProbeFails(c, s)
      PROVE  FALSE
  BY <1>1, <1>4 DEF RequireApplication, ReadLast, ProbeFails
<1>5. ASSUME NEW c \in StatusCalls, NEW s \in Services, NEW flag \in BOOLEAN, ProbeAnswered(c, s, flag) \/ Upsert(c, s, flag)
      PROVE  FALSE
  BY <1>1, <1>5 DEF ProbeAnswered, Upsert
<1>6. ASSUME NEW c \in StatusCalls, NEW s \in Services, NEW healthy \in BOOLEAN, NEW persisted \in BOOLEAN,
             PersistCheck(c, s, healthy, persisted)
      PROVE  FALSE
  BY <1>1, <1>6 DEF PersistCheck
<1>7. ASSUME NEW cutoff \in 2..MaxPulse, PruneChecks(cutoff) PROVE FALSE
  BY <1>1, <1>7 DEF PruneChecks
<1>8. CASE StatusesExpire \/ Pulse
  BY <1>1, <1>8 DEF StatusesExpire, Pulse
<1> QED BY <1>2, <1>3, <1>4, <1>5, <1>6, <1>7, <1>8 DEF StatusNext

Remembers ==
  statusEntry.list # Missing /\ statusEntry'.list # statusEntry.list =>
    \A s \in Services :
      LET before == statusEntry.list[s].health.lastSuccess IN
        \/ statusEntry'.list[s].health.lastSuccess >= before
        \/ mishaps > 0 \/ [at |-> before, healthy |-> TRUE] \notin checks[s]
        \/ \E c \in StatusCalls : statusCalls[c] # Missing /\ statusCalls'[c] = Missing /\ statusCalls[c].overlapped

LEMMA SuccessStep == StatusInvariant /\ [StatusNext]_statusVars => [Remembers]_statusVars
<1> SUFFICES ASSUME StatusInvariant, [StatusNext]_statusVars, statusEntry.list # Missing,
                    statusEntry'.list # statusEntry.list, NEW s \in Services, NEW before,
                    before = statusEntry.list[s].health.lastSuccess, ~(mishaps > 0),
                    [at |-> before, healthy |-> TRUE] \in checks[s],
                    ~(\E c \in StatusCalls : statusCalls[c] # Missing /\ statusCalls'[c] = Missing /\ statusCalls[c].overlapped)
             PROVE  statusEntry'.list[s].health.lastSuccess >= before
  BY DEF Remembers
<1>1. PICK c \in StatusCalls : StoreStatuses(c)
  BY OnlyStoresChangeTheList
<1>2. statusCalls[c] # Missing /\ statusCalls'[c] = Missing
  BY <1>1 DEF StoreStatuses, Recorded
<1>3. ~statusCalls[c].overlapped
  BY <1>2
<1>4. mishaps = 0
  BY PulseTyped DEF StatusInvariant
<1> QED BY <1>1, <1>3, <1>4, SuccessStays

LEMMA LastTimesStand == StatusInvariant => LastTimesHappened
<1> SUFFICES ASSUME StatusInvariant, NEW s \in Services, NEW health \in HealthsOf(s)
             PROVE  /\ health.lastSuccess # 0 => [at |-> health.lastSuccess, healthy |-> TRUE] \in outcomes[s]
                    /\ health.lastFailure # 0 => [at |-> health.lastFailure, healthy |-> FALSE] \in outcomes[s]
  BY DEF LastTimesHappened
<1>1. CASE statusEntry.list # Missing /\ health = statusEntry.list[s].health
  BY <1>1 DEF StatusInvariant, EntryStands, Happened
<1>2. ASSUME NEW c \in StatusCalls, statusCalls[c] # Missing, s \in DOMAIN statusCalls[c].probes,
             health = statusCalls[c].probes[s].health
      PROVE  Happened(s, health)
  BY <1>2 DEF StatusInvariant, CallStands, ProbeStands
<1> QED BY <1>1, <1>2 DEF HealthsOf, Happened

\* The state of services: what StatusInvariant says holds in every state.
THEOREM StatusStands == StatusSpec => []StatusInvariant
BY StatusStarts, StatusStep, PTL DEF StatusSpec

\* StatusPromise, for every number of services, requests, moments and mishaps.
THEOREM StatusPromiseHolds == StatusSpec => StatusPromise
<1>1. StatusSpec => [][Remembers]_statusVars
  BY StatusStarts, StatusStep, SuccessStep, PTL DEF StatusSpec
<1>2. StatusInvariant => StatusTypeOK /\ ServedListsFollowTheRegistry /\ LastTimesHappened
  BY LastTimesStand DEF StatusInvariant
<1>3. SuccessesAreRemembered <=> [][Remembers]_statusVars
  BY DEF SuccessesAreRemembered, Remembers
<1> QED BY <1>1, <1>2, <1>3, StatusStands, PTL DEF StatusPromise


-----------------------------------------------------------------------------
(*****************************************************************************)
(* The table of the console: search, sort and pages                          *)
(* (components/shared/data-table.tsx).                                       *)
(*****************************************************************************)
\* An unknown value is none.
LEMMA PrecedesIsAnOrder ==
  ASSUME NEW a \in Nat, NEW b \in Nat, NEW c \in Nat
  PROVE  /\ ~(Precedes(a, b) /\ Precedes(b, a))
         /\ Precedes(a, b) /\ Precedes(b, c) => Precedes(a, c)
         /\ ~Precedes(a, b) /\ ~Precedes(b, c) => ~Precedes(a, c)
BY DEF Precedes

\* The rows of a search and their values.
LEMMA FilteredIsFinite ==
  ASSUME TableTypeOK
  PROVE  /\ listed \in Seq(DOMAIN Rows) /\ Filtered \subseteq 1..Len(listed)
         /\ IsFiniteSet(Filtered) /\ Cardinality(Filtered) \in Nat
         /\ Cardinality(Filtered) <= Cardinality(DOMAIN Rows) /\ Cardinality(DOMAIN Rows) \in Nat
         /\ sortKey # Unset => \A i \in Filtered : Rows[listed[i]].values[sortKey] \in Nat
<1>1. listed \in Seq(DOMAIN Rows) /\ IsInjective(listed) /\ Len(listed) \in Nat
  BY DEF TableTypeOK
<1>2. Filtered \subseteq 1..Len(listed) /\ DOMAIN listed = 1..Len(listed)
  BY <1>1 DEF Filtered
<1>3. IsFiniteSet(1..Len(listed)) /\ Cardinality(1..Len(listed)) = Len(listed)
  <2>1. PICK m \in Int : m = Len(listed) /\ m >= 0
    BY <1>1
  <2>2. IsFiniteSet(1..m) /\ Cardinality(1..m) = IF 1 > m THEN 0 ELSE m - 1 + 1
    BY FS_Interval
  <2> QED BY <2>1, <2>2
<1>4. IsFiniteSet(Filtered) /\ Cardinality(Filtered) <= Len(listed) /\ Cardinality(Filtered) \in Nat
  <2>1. IsFiniteSet(Filtered) /\ Cardinality(Filtered) <= Cardinality(1..Len(listed))
    BY <1>2, <1>3, FS_Subset
  <2> QED BY <2>1, <1>3, FS_CardinalityType
<1>5. IsFiniteSet(DOMAIN Rows) /\ Cardinality(DOMAIN Rows) \in Nat
  BY TableAssumption, FS_CardinalityType
<1>6. Len(listed) <= Cardinality(DOMAIN Rows)
  <2>1. listed \in [1..Len(listed) -> DOMAIN Rows]
    BY <1>1, <1>2
  <2>2. listed \in Injection(1..Len(listed), DOMAIN Rows)
    BY <2>1, <1>1, <1>2 DEF Injection, IsInjective
  <2>3. Cardinality(1..Len(listed)) <= Cardinality(DOMAIN Rows)
    BY <2>2, <1>5, FS_Injection
  <2> QED BY <2>3, <1>3
<1>7. sortKey # Unset => \A i \in Filtered : Rows[listed[i]].values[sortKey] \in Nat
  <2>1. \A i \in Filtered : listed[i] \in DOMAIN Rows
    BY <1>1, <1>2
  <2>2. sortKey # Unset => sortKey \in Columns
    BY DEF TableTypeOK
  <2> QED BY <2>1, <2>2, TableAssumption
<1>8. Cardinality(Filtered) <= Cardinality(DOMAIN Rows)
  BY <1>1, <1>4, <1>5, <1>6
<1> QED BY <1>1, <1>2, <1>4, <1>5, <1>7, <1>8, Zenon

\* What comes before what is a strict order of the places.
LEMMA BeforeIsAnOrder ==
  ASSUME TableTypeOK, NEW i \in Filtered, NEW j \in Filtered, NEW k \in Filtered
  PROVE  /\ ~Before(i, i) /\ (i # j => Before(i, j) \/ Before(j, i))
         /\ Before(i, j) /\ Before(j, k) => Before(i, k)
<1>1. i \in Int /\ j \in Int /\ k \in Int
  BY FilteredIsFinite
<1>2. CASE sortKey = Unset
  BY <1>1, <1>2 DEF Before, Earlier
<1>3. CASE sortKey # Unset
  <2> DEFINE v(n) == Rows[listed[n]].values[sortKey]
  <2>1. v(i) \in Nat /\ v(j) \in Nat /\ v(k) \in Nat
    BY FilteredIsFinite, <1>3
  <2>2. \A m, n \in Filtered : Before(m, n) <=> Precedes(v(m), v(n)) \/ (~Precedes(v(n), v(m)) /\ m < n)
    BY <1>3 DEF Before, Earlier
  <2>3. PICK a \in Nat, b \in Nat, c \in Nat : a = v(i) /\ b = v(j) /\ c = v(k)
    BY <2>1
  <2> HIDE DEF v
  <2>4. /\ ~Precedes(a, a) /\ ~(Precedes(a, b) /\ Precedes(b, a))
        /\ Precedes(a, b) /\ Precedes(b, c) => Precedes(a, c)
        /\ ~Precedes(c, b) /\ ~Precedes(b, a) => ~Precedes(c, a)
        /\ ~Precedes(b, a) /\ ~Precedes(a, c) => ~Precedes(b, c)
        /\ ~Precedes(a, c) /\ ~Precedes(c, b) => ~Precedes(a, b)
        /\ ~(Precedes(b, c) /\ Precedes(c, b)) /\ ~(Precedes(a, c) /\ Precedes(c, a))
    BY PrecedesIsAnOrder
  <2>5. ~Before(i, i) /\ (i # j => Before(i, j) \/ Before(j, i))
    BY <1>1, <2>2, <2>3, <2>4
  <2>6. ASSUME Before(i, j), Before(j, k) PROVE Before(i, k)
    <3>1. Precedes(a, b) \/ (~Precedes(b, a) /\ i < j)
      BY <2>2, <2>3, <2>6
    <3>2. Precedes(b, c) \/ (~Precedes(c, b) /\ j < k)
      BY <2>2, <2>3, <2>6
    <3>3. Precedes(a, c) \/ (~Precedes(c, a) /\ i < k)
      BY <3>1, <3>2, <2>4, <1>1
    <3> QED BY <3>3, <2>2, <2>3
  <2> QED BY <2>5, <2>6
<1> QED BY <1>2, <1>3

Beneath(i) == {j \in Filtered : Before(j, i)}

\* A row's place is the number of those before it, and the order of places is the order.
LEMMA PlacesFollowTheOrder ==
  ASSUME TableTypeOK, NEW i \in Filtered
  PROVE  /\ PlaceOf(i) \in 1..Cardinality(Filtered)
         /\ \A j \in Filtered : Before(i, j) => PlaceOf(i) < PlaceOf(j)
<1>1. IsFiniteSet(Filtered) /\ Cardinality(Filtered) \in Nat
  BY FilteredIsFinite
<1>2. ASSUME NEW j \in Filtered, NEW S \in SUBSET Filtered, j \in S, Beneath(j) \subseteq S
      PROVE  Cardinality(Beneath(j)) \in Nat /\ Cardinality(S) \in Nat /\ Cardinality(Beneath(j)) < Cardinality(S)
  <2>1. IsFiniteSet(S) /\ Cardinality(S) \in Nat
    BY <1>1, FS_Subset, FS_CardinalityType
  <2>2. j \notin Beneath(j)
    BY BeforeIsAnOrder DEF Beneath
  <2>3. Beneath(j) \in SUBSET (S \ {j})
    BY <1>2, <2>2
  <2>4. IsFiniteSet(S \ {j}) /\ Cardinality(S \ {j}) = IF j \in S THEN Cardinality(S) - 1 ELSE Cardinality(S)
    BY <2>1, FS_RemoveElement
  <2>5. IsFiniteSet(Beneath(j)) /\ Cardinality(Beneath(j)) <= Cardinality(S \ {j})
    BY <2>3, <2>4, FS_Subset
  <2>6. Cardinality(Beneath(j)) \in Nat
    BY <2>5, FS_CardinalityType
  <2> QED BY <2>1, <2>4, <2>5, <2>6, <1>2
<1>3. \A j \in Filtered : PlaceOf(j) = Cardinality(Beneath(j)) + 1
  BY DEF PlaceOf, Beneath
<1>4. Filtered \in SUBSET Filtered /\ Beneath(i) \subseteq Filtered
  BY DEF Beneath
<1>5. PlaceOf(i) \in 1..Cardinality(Filtered)
  BY <1>1, <1>2, <1>3, <1>4
<1>6. ASSUME NEW j \in Filtered, Before(i, j) PROVE PlaceOf(i) < PlaceOf(j)
  <2>1. i \in Beneath(j) /\ Beneath(j) \in SUBSET Filtered
    BY <1>6 DEF Beneath
  <2>2. Beneath(i) \subseteq Beneath(j)
    BY <1>6, BeforeIsAnOrder DEF Beneath
  <2> QED BY <1>2, <1>3, <2>1, <2>2
<1> QED BY <1>5, <1>6

\* Every place is taken, by one row.
LEMMA PlacesAreTaken ==
  ASSUME TableTypeOK
  PROVE  \A k \in 1..Cardinality(Filtered) : \E i \in Filtered : PlaceOf(i) = k
<1> DEFINE n == Cardinality(Filtered)
           place == [i \in Filtered |-> PlaceOf(i)]
<1>1. \A i \in Filtered : PlaceOf(i) \in 1..n
  BY PlacesFollowTheOrder
<1>2. ASSUME NEW i \in Filtered, NEW j \in Filtered, PlaceOf(i) = PlaceOf(j) PROVE i = j
  <2>1. PICK p \in Int, q \in Int : p = PlaceOf(i) /\ q = PlaceOf(j)
    BY <1>1
  <2>2. (Before(i, j) => p < q) /\ (Before(j, i) => q < p)
    BY <2>1, PlacesFollowTheOrder
  <2>3. i # j => Before(i, j) \/ Before(j, i)
    BY BeforeIsAnOrder
  <2> QED BY <1>2, <2>1, <2>2, <2>3
<1>3. place \in Injection(Filtered, 1..n)
  <2>1. \A i \in Filtered : place[i] = PlaceOf(i)
    OBVIOUS
  <2>2. place = [i \in Filtered |-> place[i]]
    OBVIOUS
  <2> HIDE DEF place
  <2>3. place \in [Filtered -> 1..n]
    BY <1>1, <2>1, <2>2
  <2> QED BY <2>1, <2>3, <1>2 DEF Injection, IsInjective
<1>4. n \in Nat /\ IsFiniteSet(1..n) /\ Cardinality(1..n) = n
  <2>1. n \in Nat
    BY FilteredIsFinite
  <2>2. PICK m \in Int : m = n /\ m >= 0
    BY <2>1
  <2>3. IsFiniteSet(1..m) /\ Cardinality(1..m) = IF 1 > m THEN 0 ELSE m - 1 + 1
    BY FS_Interval
  <2> QED BY <2>1, <2>2, <2>3
<1>5. place \in Surjection(Filtered, 1..n)
  BY <1>3, <1>4, FS_Injection DEF n
<1> QED BY <1>5 DEF Surjection

\* What the table shows, in the order of its places: the k-th is the row of place k.
LEMMA SortedByPlace ==
  ASSUME TableTypeOK
  PROVE  /\ Sorted \in Seq(DOMAIN Rows) /\ Len(Sorted) = Cardinality(Filtered)
         /\ \A k \in 1..Len(Sorted) : \E i \in Filtered : PlaceOf(i) = k /\ Sorted[k] = listed[i]
<1> DEFINE n == Cardinality(Filtered)
           at(k) == CHOOSE i \in Filtered : PlaceOf(i) = k
<1>1. n \in Nat /\ Filtered \subseteq 1..Len(listed) /\ listed \in Seq(DOMAIN Rows)
  BY FilteredIsFinite
<1>2. ASSUME NEW k \in 1..n PROVE at(k) \in Filtered /\ PlaceOf(at(k)) = k
  BY PlacesAreTaken
<1>3. Sorted = [k \in 1..n |-> listed[at(k)]]
  BY DEF Sorted
<1> HIDE DEF at
<1>4. ASSUME NEW k \in 1..n PROVE listed[at(k)] \in DOMAIN Rows
  <2>1. at(k) \in 1..Len(listed)
    BY <1>1, <1>2
  <2>2. \A i \in 1..Len(listed) : listed[i] \in DOMAIN Rows
    BY <1>1
  <2> QED BY <2>1, <2>2, Zenon
<1>5. Sorted \in Seq(DOMAIN Rows) /\ Len(Sorted) = n
  <2> HIDE DEF n
  <2> QED BY <1>1, <1>3, <1>4
<1> QED BY <1>2, <1>3, <1>5

\* Unknown values at the end, whichever way the rows are sorted.
LEMMA UnknownsAreLast == TableTypeOK => UnknownsComeLast
<1> SUFFICES ASSUME TableTypeOK, sortKey # Unset,
                    NEW i \in DOMAIN Sorted, NEW j \in DOMAIN Sorted,
                    i < j, Rows[Sorted[i]].values[sortKey] = 0
             PROVE  Rows[Sorted[j]].values[sortKey] = 0
  BY DEF UnknownsComeLast
<1>1. i \in 1..Len(Sorted) /\ j \in 1..Len(Sorted) /\ Len(Sorted) \in Nat
  BY SortedByPlace
<1>2. PICK a \in Filtered : PlaceOf(a) = i /\ Sorted[i] = listed[a]
  BY <1>1, SortedByPlace
<1>3. PICK b \in Filtered : PlaceOf(b) = j /\ Sorted[j] = listed[b]
  BY <1>1, SortedByPlace
<1>4. Rows[Sorted[i]].values[sortKey] \in Nat /\ Rows[Sorted[j]].values[sortKey] \in Nat
  BY <1>2, <1>3, FilteredIsFinite
<1>5. ASSUME Rows[Sorted[j]].values[sortKey] # 0 PROVE FALSE
  <2>1. Before(b, a)
    BY <1>2, <1>3, <1>5 DEF Before, Earlier, Precedes
  <2>2. j < i
    BY <2>1, <1>2, <1>3, PlacesFollowTheOrder
  <2> QED BY <2>2, <1>1
<1> QED BY <1>5

LEMMA MinIsLeast == \A a, b \in Int : Min({a, b}) = IF a <= b THEN a ELSE b
BY DEF Min

LEMMA MaxIsGreatest == \A a, b \in Int : Max({a, b}) = IF a >= b THEN a ELSE b
BY DEF Max

\* The page shown: one of those there are, and never beyond the rows.
LEMMA PagesThereAre ==
  ASSUME TableTypeOK
  PROVE  /\ TotalPages \in Nat /\ TotalPages >= 1 /\ (Len(Sorted) # 0 => TotalPages <= Len(Sorted))
         /\ (Len(Sorted) = 0 => TotalPages = 1)
         /\ SafePage \in 1..TotalPages /\ SafePage <= tablePage
         /\ (tablePage <= TotalPages => SafePage = tablePage)
         /\ Len(Sorted) # 0 => (SafePage - 1) * pageSize < Len(Sorted)
<1> DEFINE n == Len(Sorted)
           m == n + pageSize - 1
           q == m \div pageSize
<1>1. n \in Nat /\ pageSize \in Nat /\ pageSize > 0 /\ tablePage \in Nat /\ tablePage >= 1
  BY SortedByPlace, TableAssumption, FilteredIsFinite DEF TableTypeOK
<1>2. m \in Nat
  BY <1>1
<1>3. q \in Nat /\ q * pageSize <= m /\ m < (q + 1) * pageSize
  <2> HIDE DEF m
  <2> QED BY <1>1, <1>2
<1> HIDE DEF q
<1>4. n # 0 => q >= 1 /\ q <= n
  <2> SUFFICES ASSUME n # 0 PROVE q >= 1 /\ q <= n
    OBVIOUS
  <2>1. q # 0
    BY <1>1, <1>3
  <2>2. (q - 1) * pageSize < n
    BY <1>1, <1>3
  <2>3. (q - 1) * 1 <= (q - 1) * pageSize
    BY <2>1, <1>1, <1>3
  <2> QED BY <2>1, <2>2, <2>3, <1>1, <1>3
<1>5. n = 0 => q = 0
  BY <1>1, <1>3
<1>6. TotalPages = IF 1 >= q THEN 1 ELSE q
  BY <1>3, MaxIsGreatest DEF TotalPages, q, n, m
<1>7. SafePage = IF tablePage <= TotalPages THEN tablePage ELSE TotalPages
  BY <1>1, <1>3, <1>6, MinIsLeast DEF SafePage
<1>8. n # 0 => (SafePage - 1) * pageSize < n
  <2> SUFFICES ASSUME n # 0 PROVE (SafePage - 1) * pageSize < n
    OBVIOUS
  <2>1. PICK p \in Nat : p = SafePage /\ p >= 1 /\ p <= q
    BY <1>1, <1>3, <1>4, <1>6, <1>7
  <2>2. (p - 1) * pageSize <= (q - 1) * pageSize
    BY <2>1, <1>1, <1>3
  <2>3. (q - 1) * pageSize < n
    BY <1>1, <1>3
  <2> HIDE DEF n
  <2>4. (p - 1) * pageSize < n
    BY <2>1, <2>2, <2>3, <1>1, <1>3
  <2> QED BY <2>1, <2>4
<1> QED BY <1>1, <1>3, <1>4, <1>5, <1>6, <1>7, <1>8

\* A page begins with the row at its place.
LEMMA RowsOfThePage ==
  ASSUME TableTypeOK, Len(Sorted) # 0
  PROVE  VisibleRows # <<>> /\ Sorted[(SafePage - 1) * pageSize + 1] \in ToSet(VisibleRows)
<1> DEFINE f == (SafePage - 1) * pageSize + 1
           l == Min({SafePage * pageSize, Len(Sorted)})
<1>1. /\ pageSize \in Nat /\ pageSize > 0 /\ SafePage \in Nat /\ SafePage >= 1
      /\ Len(Sorted) \in Nat /\ (SafePage - 1) * pageSize < Len(Sorted)
  BY PagesThereAre, SortedByPlace, TableAssumption DEF TableTypeOK
<1>2. SafePage * pageSize \in Nat /\ (SafePage - 1) * pageSize = SafePage * pageSize - pageSize /\ (SafePage - 1) * pageSize \in Nat
  BY <1>1
<1>3. l = IF SafePage * pageSize <= Len(Sorted) THEN SafePage * pageSize ELSE Len(Sorted)
  BY <1>1, <1>2, MinIsLeast
<1>4. f \in Int /\ l \in Int /\ 1 <= f /\ f <= l /\ l <= Len(Sorted)
  <2> HIDE DEF l
  <2> QED BY <1>1, <1>2, <1>3
<1>5. VisibleRows = SubSeq(Sorted, f, l)
  BY DEF VisibleRows
<1> HIDE DEF f, l
<1>6. \A i \in f..l : Sorted[i] \in DOMAIN Rows
  BY <1>4, SortedByPlace
<1>7. /\ SubSeq(Sorted, f, l) \in Seq(DOMAIN Rows) /\ Len(SubSeq(Sorted, f, l)) = IF f <= l THEN l - f + 1 ELSE 0
      /\ \A i \in 1 .. l - f + 1 : SubSeq(Sorted, f, l)[i] = Sorted[f + i - 1]
  BY <1>4, <1>6, SubSeqProperties
<1>8. Len(VisibleRows) = l - f + 1 /\ 1 \in 1 .. l - f + 1 /\ VisibleRows \in Seq(DOMAIN Rows)
  BY <1>4, <1>5, <1>7
<1>9. VisibleRows[1] = Sorted[f] /\ 1 \in DOMAIN VisibleRows
  BY <1>4, <1>5, <1>7, <1>8
<1>10. VisibleRows[1] \in ToSet(VisibleRows)
  BY <1>9, Zenon DEF ToSet
<1>11. VisibleRows # <<>>
  BY <1>8, <1>4
<1> QED BY <1>9, <1>10, <1>11 DEF f

LEMMA NoPageIsEmpty == TableTypeOK => PagesAreNeverEmpty
<1> SUFFICES ASSUME TableTypeOK, Sorted # <<>> PROVE VisibleRows # <<>>
  BY DEF PagesAreNeverEmpty
<1>1. Len(Sorted) # 0
  BY SortedByPlace
<1> QED BY <1>1, RowsOfThePage

LEMMA TableStarts == TableInit => TableTypeOK
<1> SUFFICES ASSUME TableInit PROVE TableTypeOK
  OBVIOUS
<1>1. listed \in Seq(DOMAIN Rows) /\ IsInjective(listed)
  BY DEF TableInit, IsInjective
<1>2. tablePage \in 1..(Cardinality(DOMAIN Rows) + 1)
  <2>1. Cardinality(DOMAIN Rows) \in Nat
    BY TableAssumption, FS_CardinalityType
  <2> QED BY <2>1 DEF TableInit
<1> QED BY <1>1, <1>2 DEF TableInit, TableTypeOK

LEMMA TableTyped == TableTypeOK /\ [TableNext]_tableVars => TableTypeOK'
<1> SUFFICES ASSUME TableTypeOK, [TableNext]_tableVars PROVE TableTypeOK'
  OBVIOUS
<1>0. Cardinality(DOMAIN Rows) \in Nat /\ tablePage \in Nat /\ tablePage >= 1 /\ tablePage <= Cardinality(DOMAIN Rows) + 1
  BY FilteredIsFinite DEF TableTypeOK
<1>1. ASSUME NEW rows \in {s \in SeqOf(DOMAIN Rows, Cardinality(DOMAIN Rows)) : IsInjective(s)}, RowsArrive(rows) PROVE TableTypeOK'
  <2>1. rows \in SeqOf(DOMAIN Rows, Cardinality(DOMAIN Rows)) /\ IsInjective(rows)
    OBVIOUS
  <2>2. PICK m \in 0..Cardinality(DOMAIN Rows) : rows \in [1..m -> DOMAIN Rows]
    BY <2>1 DEF SeqOf
  <2>3. rows \in Seq(DOMAIN Rows)
    BY <2>2, <1>0
  <2> QED BY <1>1, <2>1, <2>3 DEF RowsArrive, TableTypeOK
<1>2. ASSUME NEW text \in Terms \union {Unset}, Search(text) PROVE TableTypeOK'
  BY <1>0, <1>2 DEF Search, FirstPage, TableTypeOK
<1>3. ASSUME NEW column \in Columns, ToggleSort(column) PROVE TableTypeOK'
  BY <1>0, <1>3 DEF ToggleSort, FirstPage, TableTypeOK
<1>4. ASSUME NEW size \in PageSizes, PickSize(size) PROVE TableTypeOK'
  BY <1>0, <1>4 DEF PickSize, FirstPage, TableTypeOK
<1>5. CASE PreviousPage
  <2>1. tablePage > 1
    BY <1>0, <1>5, PagesThereAre DEF PreviousPage
  <2> QED BY <1>0, <1>5, <2>1 DEF PreviousPage, TableTypeOK
<1>6. CASE NextPage
  <2>1. SafePage < TotalPages /\ SafePage \in Nat /\ TotalPages \in Nat /\ Len(Sorted) \in Nat
    BY <1>6, PagesThereAre, SortedByPlace DEF NextPage
  <2>2. tablePage <= TotalPages
    BY <2>1, <1>0, MinIsLeast DEF SafePage
  <2>3. SafePage = tablePage /\ Len(Sorted) # 0 /\ TotalPages <= Len(Sorted)
    BY <2>1, <2>2, PagesThereAre
  <2>4. Len(Sorted) <= Cardinality(DOMAIN Rows)
    BY SortedByPlace, FilteredIsFinite
  <2> QED BY <1>0, <1>6, <2>1, <2>3, <2>4 DEF NextPage, TableTypeOK
<1>7. CASE UNCHANGED tableVars
  BY <1>7 DEF tableVars, TableTypeOK
<1> QED BY <1>1, <1>2, <1>3, <1>4, <1>5, <1>6, <1>7 DEF TableNext

\* A table on its first page shows its first row.
LEMMA FirstPageShowsTheFirst ==
  ASSUME TableTypeOK, tablePage = 1, Sorted # <<>>
  PROVE  Head(Sorted) \in ToSet(VisibleRows)
<1>1. Sorted \in Seq(DOMAIN Rows) /\ Len(Sorted) \in Nat /\ Len(Sorted) # 0 /\ Head(Sorted) = Sorted[1]
  BY SortedByPlace
<1>2. SafePage = 1
  BY PagesThereAre
<1>3. (SafePage - 1) * pageSize + 1 = 1
  BY <1>2, TableAssumption DEF TableTypeOK
<1>4. Sorted[(SafePage - 1) * pageSize + 1] \in ToSet(VisibleRows)
  BY <1>1, RowsOfThePage
<1> QED BY <1>1, <1>3, <1>4

LEMMA NewOrdersShowTheirFirst ==
  ASSUME TableTypeOK', [TableNext]_tableVars
  PROVE  \/ <<term, sortKey, sortDirection>>' = <<term, sortKey, sortDirection>>
         \/ Sorted' # <<>> => Head(Sorted') \in ToSet(VisibleRows')
<1>1. (TableTypeOK /\ tablePage = 1 /\ Sorted # <<>> => Head(Sorted) \in ToSet(VisibleRows))'
  BY FirstPageShowsTheFirst, PTL
<1>2. tablePage' = 1 \/ UNCHANGED <<term, sortKey, sortDirection>>
  BY DEF TableNext, RowsArrive, Search, ToggleSort, PickSize, PreviousPage, NextPage, FirstPage, tableVars
<1> QED BY <1>1, <1>2

\* data-table.tsx:82, 93, 104, 121: for any rows and page sizes, no page is empty while there
\* are rows, unknown values come last, and a new search or sort shows its first row.
THEOREM TablePromiseHolds == TableSpec => TablePromise
<1>1. TableInit => TableTypeOK
  BY TableStarts
<1>2. TableTypeOK /\ [TableNext]_tableVars => TableTypeOK'
  BY TableTyped
<1>3. TableTypeOK => PagesAreNeverEmpty /\ UnknownsComeLast
  BY NoPageIsEmpty, UnknownsAreLast
<1>4. TableTypeOK' /\ [TableNext]_tableVars =>
        [<<term, sortKey, sortDirection>>' # <<term, sortKey, sortDirection>> /\ Sorted' # <<>> =>
           Head(Sorted') \in ToSet(VisibleRows')]_tableVars
  BY NewOrdersShowTheirFirst
<1>5. NewOrdersStartAtTheTop <=>
        [][<<term, sortKey, sortDirection>>' # <<term, sortKey, sortDirection>> /\ Sorted' # <<>> =>
             Head(Sorted') \in ToSet(VisibleRows')]_tableVars
  BY DEF NewOrdersStartAtTheTop
<1>6. TableSpec => TableInit /\ [][TableNext]_tableVars
  BY DEF TableSpec
<1>7. TablePromise <=> []TableTypeOK /\ []PagesAreNeverEmpty /\ []UnknownsComeLast /\ NewOrdersStartAtTheTop
  BY DEF TablePromise
<1> QED BY <1>1, <1>2, <1>3, <1>4, <1>5, <1>6, <1>7, PTL
=============================================================================
