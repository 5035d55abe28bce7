---------------------------- MODULE ConsoleProofs ---------------------------
(***************************************************************************)
(* Proofs about what the console shows while it happens: the alerts with   *)
(* the page that shows them, and the live tail of the logs.                *)
(***************************************************************************)
EXTENDS AlertBoard, LogTail, FiniteSetTheorems, WellFoundedInduction, SequenceTheorems, TLAPS

-----------------------------------------------------------------------------
(***************************************************************************)
(* The alerts. A list may be old when it is stored, and an answer may come *)
(* after its page has gone on: each is shown to be of the past, and to     *)
(* belong to what waits for it.                                            *)
(***************************************************************************)

Ended(a, episode) == ~firing[a].up \/ firing[a].episode # episode

\* The list that is served, and was not overtaken while it was loaded, lacks the alert.
Lacking(a) == served.fresh /\ ~served.overtaken /\ a \notin DOMAIN served.list

\* A list is of the past: its alerts did begin, whoever owned one still does, and what the
\* served list lacks had ended before.
IsPast(list) ==
  list # Nil => \A a \in DOMAIN list :
    /\ list[a].episode <= firing[a].episode
    /\ list[a].ack # Nil => acks[a] # Nil
    /\ Lacking(a) => Ended(a, list[a].episode)

DialogIsPast(o, dialog) ==
  dialog # Nil =>
    /\ dialog.episode <= firing[dialog.alert].episode
    /\ MayTouch(o, dialog.alert)
    /\ dialog.kind = "resolve" => acks[dialog.alert] # Nil
    /\ Lacking(dialog.alert) => Ended(dialog.alert, dialog.episode)

\* A list that is being loaded is of the world it was read in.
IsLoading(call) ==
  /\ call.list # Nil /\ call.since <= changes
  /\ \A a \in DOMAIN call.list : /\ call.list[a].episode <= firing[a].episode
                                 /\ call.list[a].ack # Nil => acks[a] # Nil
  /\ call.since = changes =>
       /\ DOMAIN call.list = Up
       /\ call.step = "joined" => \A a \in DOMAIN call.list : call.list[a].ack = acks[a]

CallStands(call) ==
  call # Nil =>
    /\ call.step \in {"joining", "joined"} => IsLoading(call)
    /\ call.step \notin {"joining", "joined"} => IsPast(call.list)
    /\ call.step = "loaded" => call.list # Nil

BoardStands(o, board) ==
  /\ IsPast(board.list) /\ DialogIsPast(o, board.dialog)
  /\ board.list # Nil => \A a \in DOMAIN board.list : MayTouch(o, a)
  /\ board.refused /\ board.dialog # Nil => Ended(board.dialog.alert, board.dialog.episode)

\* What a page waits for is its own call, and an answer to its dialog.
FetchIsOwn(o, board, call) ==
  board.fetch # Nil => call # Nil /\ call.kind = "list" /\ call.operator = o

SubmitIsOwn(o, board, call) ==
  board.submit # Nil =>
    /\ call # Nil /\ call.operator = o /\ board.busy /\ board.dialog # Nil
    /\ call.kind = board.dialog.kind /\ call.alert = board.dialog.alert
    /\ ~call.old /\ (call.step = "refused" \/ (call.step = "loaded" /\ call.alert \notin DOMAIN call.list)) =>
         Ended(board.dialog.alert, board.dialog.episode)

ServedStands ==
  /\ IsPast(served.list)
  /\ served.fresh => served.list # Nil

CallsStand == \A c \in AlertCalls : CallStands(calls[c])
BoardsStand == \A o \in Operators : BoardStands(o, boards[o])
AnswersAreOwn ==
  \A o \in Operators : /\ FetchIsOwn(o, boards[o], calls[boards[o].fetch])
                       /\ SubmitIsOwn(o, boards[o], calls[boards[o].submit])

AlertInvariant ==
  /\ AlertTypeOK
  /\ ServedStands /\ ServedOwnershipIsCurrent
  /\ CallsStand /\ BoardsStand /\ AnswersAreOwn

-----------------------------------------------------------------------------
LEMMA ListShape ==
  ASSUME NEW list \in Lists
  PROVE  /\ DOMAIN list \subseteq Alerts
         /\ \A a \in DOMAIN list : list[a] \in Entry
<1>1. PICK listed \in SUBSET Alerts : list \in [listed -> Entry]
  BY DEF Lists
<1> QED BY <1>1

LEMMA ListMade ==
  ASSUME NEW listed \in SUBSET Alerts, NEW list \in [listed -> Entry]
  PROVE  list \in Lists
BY DEF Lists

LEMMA EntryShape ==
  ASSUME NEW entry \in Entry
  PROVE  /\ entry.episode \in 1..MaxEpisodes /\ entry.episode \in Nat
         /\ entry.ack \in AckRow \union {Nil}
BY AlertAssumption DEF Entry

LEMMA CallShape ==
  ASSUME NEW call \in Call
  PROVE  /\ call.operator \in Operators /\ call.kind \in {"list", "ack", "resolve"}
         /\ call.alert \in Alerts \union {Nil} /\ (call.kind # "list" => call.alert \in Alerts) /\ call.since \in Nat /\ call.old \in BOOLEAN
         /\ call.list \in Lists \union {Nil}
         /\ call.step \in {"fetching", "joining", "joined", "loaded", "written", "done", "refused", "failed"}
BY DEF Call, CallFor

LEMMA BoardShape ==
  ASSUME NEW board \in Board
  PROVE  /\ board.list \in Lists \union {Nil} /\ board.error \in BOOLEAN
         /\ board.fetch \in AlertCalls \union {Nil} /\ board.submit \in AlertCalls \union {Nil}
         /\ board.dialog \in Dialog \union {Nil} /\ board.busy \in BOOLEAN /\ board.refused \in BOOLEAN
BY DEF Board

LEMMA DialogShape ==
  ASSUME NEW dialog \in Dialog
  PROVE  /\ dialog.alert \in Alerts /\ dialog.kind \in {"ack", "resolve"}
         /\ dialog.episode \in 1..MaxEpisodes /\ dialog.episode \in Nat
BY AlertAssumption DEF Dialog

\* The world goes on: episodes only begin, rows stay, what has ended stays so, and the served
\* list comes to lack only what is not firing.
Onward ==
  /\ \A a \in Alerts : firing[a].episode <= firing'[a].episode
  /\ \A a \in Alerts : acks[a] # Nil => acks'[a] # Nil
  /\ \A a \in Alerts, e \in 1..MaxEpisodes : e <= firing[a].episode /\ Ended(a, e) => Ended(a, e)'
  /\ \A a \in Alerts : Lacking(a)' => Lacking(a) \/ ~firing'[a].up
  /\ changes' = changes => firing' = firing /\ acks' = acks
  /\ changes <= changes' /\ changes' \in Nat
  /\ firing' \in [Alerts -> [up : BOOLEAN, episode : 0..MaxEpisodes]]
  /\ acks' \in [Alerts -> AckRow \union {Nil}]

LEMMA Steady ==
  ASSUME AlertTypeOK, UNCHANGED <<firing, acks, changes>>, \A a \in Alerts : Lacking(a)' => Lacking(a)
  PROVE  Onward
<1>1. \A a \in Alerts : firing[a].episode \in Nat
  BY AlertAssumption DEF AlertTypeOK
<1> QED BY <1>1 DEF AlertTypeOK, Onward, Ended

LEMMA FiringTyped ==
  ASSUME AlertTypeOK
  PROVE  \A a \in Alerts : /\ firing[a].up \in BOOLEAN /\ firing[a].episode \in Nat /\ firing[a].episode \in 0..MaxEpisodes
                           /\ firing[a] = [up |-> firing[a].up, episode |-> firing[a].episode]
<1>1. \A a \in Alerts : firing[a] \in [up : BOOLEAN, episode : 0..MaxEpisodes]
  BY DEF AlertTypeOK
<1> QED BY <1>1, AlertAssumption

LEMMA FiresOnward ==
  ASSUME AlertTypeOK, NEW a \in Alerts, Fires(a) \/ Ends(a)
  PROVE  Onward
<1>1. PICK up \in BOOLEAN, episode \in 0..MaxEpisodes :
        /\ firing' = [firing EXCEPT ![a] = [up |-> up, episode |-> episode]]
        /\ (up /\ ~firing[a].up /\ episode = firing[a].episode + 1) \/ (~up /\ episode = firing[a].episode)
  <2>1. CASE Fires(a)
    <3>1. firing' = [firing EXCEPT ![a] = [up |-> TRUE, episode |-> firing[a].episode + 1]]
      BY <2>1, FiringTyped DEF Fires
    <3>2. firing[a].episode < MaxEpisodes /\ ~firing[a].up
      BY <2>1 DEF Fires
    <3>3. PICK n \in Nat : n = firing[a].episode
      BY FiringTyped
    <3>4. MaxEpisodes \in Nat
      BY AlertAssumption
    <3>5. n + 1 \in 0..MaxEpisodes
      BY <3>2, <3>3, <3>4
    <3> QED BY <3>1, <3>2, <3>3, <3>5
  <2>2. CASE Ends(a)
    <3>1. firing' = [firing EXCEPT ![a] = [up |-> FALSE, episode |-> firing[a].episode]]
      BY <2>2 DEF Ends, AlertTypeOK
    <3> QED BY <3>1, FiringTyped
  <2> QED BY <2>1, <2>2
<1>2. changes' = changes + 1 /\ acks' = acks /\ served' = served
  BY DEF Fires, Ends
<1>3. firing'[a].up = up /\ firing'[a].episode = episode
  BY <1>1 DEF AlertTypeOK
<1>4. \A b \in Alerts : b # a => firing'[b] = firing[b]
  BY <1>1 DEF AlertTypeOK
<1>5. firing' \in [Alerts -> [up : BOOLEAN, episode : 0..MaxEpisodes]]
  <2>1. [up |-> up, episode |-> episode] \in [up : BOOLEAN, episode : 0..MaxEpisodes]
    OBVIOUS
  <2> QED BY <1>1, <2>1 DEF AlertTypeOK
<1>6. \A b \in Alerts : firing[b].episode <= firing'[b].episode
  <2>1. PICK n \in Nat : n = firing[a].episode
    BY FiringTyped
  <2>2. episode = n \/ episode = n + 1
    BY <1>1, <2>1
  <2>3. firing[a].episode <= firing'[a].episode
    BY <2>1, <2>2, <1>3
  <2>4. \A m \in Nat : m <= m
    OBVIOUS
  <2> QED BY <2>3, <2>4, <1>4, FiringTyped
<1>7. \A b \in Alerts, e \in 1..MaxEpisodes : e <= firing[b].episode /\ Ended(b, e) => Ended(b, e)'
  <2>1. ASSUME NEW b \in Alerts, NEW e \in 1..MaxEpisodes, e <= firing[b].episode, Ended(b, e)
        PROVE  Ended(b, e)'
    <3>1. CASE b # a
      BY <3>1, <2>1, <1>4 DEF Ended
    <3>2. CASE b = a
      <4>1. PICK n \in Nat : n = firing[a].episode
        BY FiringTyped
      <4>2. e <= n /\ e \in Nat /\ (~firing[a].up \/ n # e)
        BY <3>2, <4>1, <2>1, AlertAssumption DEF Ended
      <4>3. CASE ~up
        BY <4>3, <3>2, <1>3 DEF Ended
      <4>4. CASE up
        <5>1. episode = n + 1
          BY <4>4, <4>1, <1>1
        <5> QED BY <5>1, <4>2, <3>2, <1>3 DEF Ended
      <4> QED BY <4>3, <4>4
    <3> QED BY <3>1, <3>2
  <2> QED BY <2>1
<1>8. changes \in Nat /\ acks \in [Alerts -> AckRow \union {Nil}]
  BY DEF AlertTypeOK
<1> QED BY <1>2, <1>5, <1>6, <1>7, <1>8 DEF Onward, Lacking

LEMMA WrittenIsRow ==
  ASSUME AlertTypeOK, NEW call \in Call, call.alert \in Alerts, ~Refused(call), call.kind # "list"
  PROVE  Written(call, acks[call.alert]) \in AckRow
<1>1. CASE call.kind = "ack"
  BY <1>1, CallShape, AlertAssumption DEF Written, AckRow
<1>2. CASE call.kind = "resolve"
  <2>1. acks[call.alert] \in AckRow
    BY <1>2 DEF Refused, AlertTypeOK
  <2>2. Written(call, acks[call.alert]) = [acks[call.alert] EXCEPT !.resolved = TRUE, !.noted = firing[call.alert].episode]
    BY <1>2 DEF Written
  <2> QED BY <2>1, <2>2, FiringTyped DEF AckRow
<1> QED BY <1>1, <1>2, CallShape

-----------------------------------------------------------------------------
\* What is of the past stays so.
LEMMA PastStays ==
  ASSUME AlertTypeOK, Onward, NEW list \in Lists \union {Nil}, IsPast(list)
  PROVE  IsPast(list)'
<1> SUFFICES ASSUME list # Nil, NEW a \in DOMAIN list
             PROVE  /\ list[a].episode <= firing'[a].episode
                    /\ list[a].ack # Nil => acks'[a] # Nil
                    /\ Lacking(a)' => Ended(a, list[a].episode)'
  BY DEF IsPast
<1>1. a \in Alerts /\ list[a].episode \in Nat /\ list[a].episode \in 1..MaxEpisodes
  BY ListShape, EntryShape
<1>2. /\ list[a].episode <= firing[a].episode
      /\ list[a].ack # Nil => acks[a] # Nil
      /\ Lacking(a) => Ended(a, list[a].episode)
  BY DEF IsPast
<1>3. firing[a].episode <= firing'[a].episode /\ firing[a].episode \in Nat
  BY <1>1, FiringTyped DEF Onward
<1>4. firing'[a].episode \in Nat
  BY <1>1, AlertAssumption DEF Onward
<1>5. list[a].episode <= firing'[a].episode
  BY <1>1, <1>2, <1>3, <1>4
<1>6. Lacking(a)' => Ended(a, list[a].episode)'
  <2>1. CASE Lacking(a)
    BY <2>1, <1>1, <1>2 DEF Onward
  <2>2. CASE ~Lacking(a)
    BY <2>2, <1>1 DEF Onward, Ended
  <2> QED BY <2>1, <2>2
<1> QED BY <1>1, <1>2, <1>5, <1>6 DEF Onward

LEMMA DialogStays ==
  ASSUME AlertTypeOK, Onward, NEW o \in Operators, NEW dialog \in Dialog \union {Nil}, DialogIsPast(o, dialog)
  PROVE  DialogIsPast(o, dialog)'
<1> SUFFICES ASSUME dialog # Nil
             PROVE  /\ dialog.episode <= firing'[dialog.alert].episode
                    /\ MayTouch(o, dialog.alert)'
                    /\ dialog.kind = "resolve" => acks'[dialog.alert] # Nil
                    /\ Lacking(dialog.alert)' => Ended(dialog.alert, dialog.episode)'
  BY DEF DialogIsPast
<1>1. dialog.alert \in Alerts /\ dialog.episode \in Nat /\ dialog.episode \in 1..MaxEpisodes
  BY DialogShape
<1>2. PICK a \in Alerts : a = dialog.alert
  BY <1>1
<1>3. /\ dialog.episode <= firing[a].episode
      /\ MayTouch(o, a)
      /\ dialog.kind = "resolve" => acks[a] # Nil
      /\ Lacking(a) => Ended(a, dialog.episode)
  BY <1>2 DEF DialogIsPast
<1>4. firing[a].episode <= firing'[a].episode /\ firing[a].episode \in Nat
  BY FiringTyped DEF Onward
<1>5. firing'[a].episode \in Nat
  BY AlertAssumption DEF Onward
<1>6. dialog.episode <= firing'[a].episode
  BY <1>1, <1>3, <1>4, <1>5
<1>7. Lacking(a)' => Ended(a, dialog.episode)'
  <2>1. CASE Lacking(a)
    BY <2>1, <1>1, <1>3 DEF Onward
  <2>2. CASE ~Lacking(a)
    BY <2>2 DEF Onward, Ended
  <2> QED BY <2>1, <2>2
<1>8. MayTouch(o, a)'
  BY <1>3 DEF MayTouch, EnvironmentOf, Candidate
<1> QED BY <1>2, <1>3, <1>6, <1>7, <1>8 DEF Onward

LEMMA EndStays ==
  ASSUME AlertTypeOK, Onward, NEW o \in Operators, NEW dialog \in Dialog, DialogIsPast(o, dialog),
         Ended(dialog.alert, dialog.episode)
  PROVE  Ended(dialog.alert, dialog.episode)'
BY DialogShape, AlertAssumption DEF DialogIsPast, Onward

LEMMA LoadingStays ==
  ASSUME AlertTypeOK, Onward, NEW call \in Call, IsLoading(call)
  PROVE  IsLoading(call)'
<1>1. call.list \in Lists /\ call.since \in Nat
  BY CallShape DEF IsLoading
<1>2. \A a \in DOMAIN call.list : a \in Alerts /\ call.list[a].episode \in Nat
  BY <1>1, ListShape, EntryShape
<1>3. \A a \in DOMAIN call.list : call.list[a].episode <= firing'[a].episode
  <2> SUFFICES ASSUME NEW a \in DOMAIN call.list
               PROVE  call.list[a].episode <= firing'[a].episode
    OBVIOUS
  <2>1. PICK n \in Nat : n = call.list[a].episode
    BY <1>2
  <2>2. PICK m \in Nat : m = firing[a].episode
    BY <1>2, FiringTyped
  <2>3. PICK k \in Nat : k = firing'[a].episode
    BY <1>2, AlertAssumption DEF Onward
  <2>4. n <= m /\ m <= k
    BY <1>2, <2>1, <2>2, <2>3 DEF IsLoading, Onward
  <2>5. n <= k
    BY <2>4
  <2> QED BY <2>1, <2>3, <2>5
<1>4. \A a \in DOMAIN call.list : call.list[a].ack # Nil => acks'[a] # Nil
  BY <1>2 DEF IsLoading, Onward
<1>5. call.since <= changes /\ changes \in Nat /\ changes' \in Nat /\ changes <= changes'
  BY DEF IsLoading, Onward, AlertTypeOK
<1>6. call.since <= changes'
  BY <1>1, <1>5
<1>7. call.since = changes' => changes' = changes
  BY <1>1, <1>5
<1>8. call.since = changes' =>
       /\ DOMAIN call.list = Up'
       /\ call.step = "joined" => \A a \in DOMAIN call.list : call.list[a].ack = acks'[a]
  BY <1>7 DEF Onward, IsLoading, Up
<1>9. call.list # Nil
  BY DEF IsLoading
<1> QED BY <1>3, <1>4, <1>6, <1>8, <1>9 DEF IsLoading

LEMMA CallStays ==
  ASSUME AlertTypeOK, Onward, NEW call \in Call \union {Nil}, CallStands(call)
  PROVE  CallStands(call)'
<1> SUFFICES ASSUME call # Nil
             PROVE  /\ call.step \in {"joining", "joined"} => IsLoading(call)'
                    /\ call.step \notin {"joining", "joined"} => IsPast(call.list)'
                    /\ call.step = "loaded" => call.list # Nil
  BY DEF CallStands
<1>1. call \in Call /\ call.list \in Lists \union {Nil}
  BY CallShape
<1>2. call.step \in {"joining", "joined"} => IsLoading(call)'
  BY <1>1, LoadingStays DEF CallStands
<1>3. call.step \notin {"joining", "joined"} => IsPast(call.list)'
  <2>1. PICK list \in Lists \union {Nil} : list = call.list
    BY <1>1
  <2>2. call.step \notin {"joining", "joined"} => IsPast(list)'
    BY <2>1, PastStays DEF CallStands
  <2> QED BY <2>1, <2>2
<1> QED BY <1>2, <1>3 DEF CallStands

LEMMA BoardStays ==
  ASSUME AlertTypeOK, Onward, NEW o \in Operators, NEW board \in Board, BoardStands(o, board)
  PROVE  BoardStands(o, board)'
<1>1. PICK list \in Lists \union {Nil} : list = board.list
  BY BoardShape
<1>2. PICK dialog \in Dialog \union {Nil} : dialog = board.dialog
  BY BoardShape
<1>3. IsPast(list)' /\ DialogIsPast(o, dialog)'
  BY <1>1, <1>2, PastStays, DialogStays DEF BoardStands
<1>4. board.refused /\ dialog # Nil => Ended(dialog.alert, dialog.episode)'
  BY <1>2, EndStays DEF BoardStands
<1>5. board.list # Nil => \A a \in DOMAIN board.list : MayTouch(o, a)'
  BY DEF BoardStands, MayTouch, EnvironmentOf, Candidate
<1> QED BY <1>1, <1>2, <1>3, <1>4, <1>5 DEF BoardStands

LEMMA SubmitStays ==
  ASSUME AlertTypeOK, Onward, NEW o \in Operators, NEW board \in Board, NEW call, BoardStands(o, board),
         SubmitIsOwn(o, board, call)
  PROVE  SubmitIsOwn(o, board, call)'
<1>1. PICK dialog \in Dialog \union {Nil} : dialog = board.dialog
  BY BoardShape
<1>2. dialog # Nil /\ Ended(dialog.alert, dialog.episode) => Ended(dialog.alert, dialog.episode)'
  BY <1>1, EndStays DEF BoardStands
<1> QED BY <1>1, <1>2 DEF SubmitIsOwn

-----------------------------------------------------------------------------
\* One call or one page changes, and the others stay.
LEMMA CallsFollow ==
  ASSUME AlertInvariant, Onward, NEW c \in AlertCalls, NEW new \in Call \union {Nil},
         calls' = [calls EXCEPT ![c] = new], CallStands(new)'
  PROVE  /\ calls' \in [AlertCalls -> Call \union {Nil}] /\ CallsStand'
         /\ calls'[c] = new /\ \A d \in AlertCalls : d # c => calls'[d] = calls[d]
<1>1. calls \in [AlertCalls -> Call \union {Nil}]
  BY DEF AlertInvariant, AlertTypeOK
<1>2. /\ calls' \in [AlertCalls -> Call \union {Nil}]
      /\ calls'[c] = new /\ \A d \in AlertCalls : d # c => calls'[d] = calls[d]
  BY <1>1
<1>3. ASSUME NEW d \in AlertCalls
      PROVE  CallStands(calls[d])'
  <2>1. PICK call \in Call \union {Nil} : call = calls[d]
    BY <1>1
  <2>2. CallStands(call)'
    BY <2>1, CallStays DEF AlertInvariant, CallsStand
  <2> QED BY <1>2, <2>1, <2>2
<1> QED BY <1>2, <1>3 DEF CallsStand

LEMMA CallsKept ==
  ASSUME AlertInvariant, Onward, UNCHANGED calls
  PROVE  calls' \in [AlertCalls -> Call \union {Nil}] /\ CallsStand'
<1>1. calls \in [AlertCalls -> Call \union {Nil}]
  BY DEF AlertInvariant, AlertTypeOK
<1>2. ASSUME NEW d \in AlertCalls
      PROVE  CallStands(calls[d])'
  <2>1. PICK call \in Call \union {Nil} : call = calls[d]
    BY <1>1
  <2>2. CallStands(call)'
    BY <2>1, CallStays DEF AlertInvariant, CallsStand
  <2> QED BY <2>1, <2>2
<1> QED BY <1>1, <1>2 DEF CallsStand

LEMMA BoardsFollow ==
  ASSUME AlertInvariant, Onward, NEW o \in Operators, NEW new \in Board,
         boards' = [boards EXCEPT ![o] = new], BoardStands(o, new)'
  PROVE  /\ boards' \in [Operators -> Board] /\ BoardsStand'
         /\ boards'[o] = new /\ \A p \in Operators : p # o => boards'[p] = boards[p]
<1>1. boards \in [Operators -> Board]
  BY DEF AlertInvariant, AlertTypeOK
<1>2. /\ boards' \in [Operators -> Board]
      /\ boards'[o] = new /\ \A p \in Operators : p # o => boards'[p] = boards[p]
  BY <1>1
<1>3. ASSUME NEW p \in Operators
      PROVE  BoardStands(p, boards[p])'
  <2>1. PICK board \in Board : board = boards[p]
    BY <1>1
  <2>2. BoardStands(p, board)'
    BY <2>1, BoardStays DEF AlertInvariant, BoardsStand
  <2> QED BY <1>2, <2>1, <2>2
<1> QED BY <1>2, <1>3 DEF BoardsStand

LEMMA BoardsKept ==
  ASSUME AlertInvariant, Onward, UNCHANGED boards
  PROVE  boards' \in [Operators -> Board] /\ BoardsStand'
<1>1. boards \in [Operators -> Board]
  BY DEF AlertInvariant, AlertTypeOK
<1>2. ASSUME NEW p \in Operators
      PROVE  BoardStands(p, boards[p])'
  <2>1. PICK board \in Board : board = boards[p]
    BY <1>1
  <2>2. BoardStands(p, board)'
    BY <2>1, BoardStays DEF AlertInvariant, BoardsStand
  <2> QED BY <2>1, <2>2
<1> QED BY <1>1, <1>2 DEF BoardsStand

\* A page keeps its answers if neither it nor what it waits for changes.
LEMMA OwnStays ==
  ASSUME AlertInvariant, Onward, NEW o \in Operators, boards'[o] = boards[o],
         boards[o].fetch # Nil => calls'[boards[o].fetch] = calls[boards[o].fetch],
         boards[o].submit # Nil => calls'[boards[o].submit] = calls[boards[o].submit]
  PROVE  /\ FetchIsOwn(o, boards[o], calls[boards[o].fetch])'
         /\ SubmitIsOwn(o, boards[o], calls[boards[o].submit])'
<1>1. PICK board \in Board : board = boards[o]
  BY DEF AlertInvariant, AlertTypeOK
<1>2. FetchIsOwn(o, board, calls[board.fetch]) /\ SubmitIsOwn(o, board, calls[board.submit]) /\ BoardStands(o, board)
  BY <1>1 DEF AlertInvariant, AnswersAreOwn, BoardsStand
<1>3. FetchIsOwn(o, board, calls'[board.fetch])
  BY <1>1, <1>2 DEF FetchIsOwn
<1>4. PICK call : call = calls[board.submit]
  OBVIOUS
<1>5. SubmitIsOwn(o, board, call)'
  BY <1>2, <1>4, SubmitStays DEF AlertInvariant
<1>6. SubmitIsOwn(o, board, calls[board.submit])'
  BY <1>1, <1>4, <1>5 DEF SubmitIsOwn
<1> QED BY <1>1, <1>3, <1>6 DEF FetchIsOwn

\* A call goes on, and stays whose it was.
LEMMA CallMoves ==
  ASSUME AlertInvariant, Onward, UNCHANGED boards, NEW c \in AlertCalls, NEW new \in Call, calls[c] # Nil,
         calls' = [calls EXCEPT ![c] = new], CallStands(new)',
         new.operator = calls[c].operator, new.kind = calls[c].kind, new.alert = calls[c].alert,
         \A o \in Operators :
           boards[o].submit = c /\ ~new.old /\ (new.step = "refused" \/ (new.step = "loaded" /\ new.alert \notin DOMAIN new.list)) =>
             Ended(boards[o].dialog.alert, boards[o].dialog.episode)'
  PROVE  /\ calls' \in [AlertCalls -> Call \union {Nil}] /\ boards' \in [Operators -> Board]
         /\ CallsStand' /\ BoardsStand' /\ AnswersAreOwn'
<1>1. /\ calls' \in [AlertCalls -> Call \union {Nil}] /\ CallsStand'
      /\ calls'[c] = new /\ \A d \in AlertCalls : d # c => calls'[d] = calls[d]
  BY CallsFollow
<1>2. boards' \in [Operators -> Board] /\ BoardsStand'
  BY BoardsKept
<1>3. new # Nil
  BY AlertAssumption
<1>4. ASSUME NEW o \in Operators
      PROVE  /\ FetchIsOwn(o, boards[o], calls[boards[o].fetch])'
             /\ SubmitIsOwn(o, boards[o], calls[boards[o].submit])'
  <2>1. PICK board \in Board : board = boards[o]
    BY DEF AlertInvariant, AlertTypeOK
  <2>2. FetchIsOwn(o, board, calls[board.fetch]) /\ SubmitIsOwn(o, board, calls[board.submit])
    BY <2>1 DEF AlertInvariant, AnswersAreOwn
  <2>3. board.fetch \in AlertCalls \union {Nil} /\ board.submit \in AlertCalls \union {Nil}
    BY BoardShape
  <2>4. FetchIsOwn(o, board, calls'[board.fetch])
    BY <2>2, <2>3, <1>1, <1>3 DEF FetchIsOwn
  <2>5. CASE board.submit # c
    <3>1. PICK call : call = calls[board.submit]
      OBVIOUS
    <3>2. SubmitIsOwn(o, board, call)'
      BY <2>1, <2>2, <3>1, SubmitStays DEF AlertInvariant, BoardsStand
    <3>3. board.submit # Nil => calls'[board.submit] = call
      BY <2>3, <2>5, <3>1, <1>1
    <3>4. SubmitIsOwn(o, board, calls[board.submit])'
      BY <3>2, <3>3 DEF SubmitIsOwn
    <3> QED BY <2>1, <2>4, <3>4
  <2>6. CASE board.submit = c
    <3>1. c # Nil
      BY AlertAssumption
    <3>2. /\ calls[c].operator = o /\ board.busy /\ board.dialog # Nil
          /\ calls[c].kind = board.dialog.kind /\ calls[c].alert = board.dialog.alert
      BY <2>2, <2>6, <3>1 DEF SubmitIsOwn
    <3>3. SubmitIsOwn(o, board, calls[board.submit])'
      BY <3>2, <2>1, <2>6, <1>1, <1>3 DEF SubmitIsOwn
    <3> QED BY <2>1, <2>4, <3>3
  <2> QED BY <2>5, <2>6
<1> QED BY <1>1, <1>2, <1>4 DEF AnswersAreOwn

-----------------------------------------------------------------------------
\* What is left when the pages and calls stand.
LEMMA RestKept ==
  ASSUME AlertInvariant, UNCHANGED <<firing, acks, served, changes>>,
         submits' \in 0..MaxSubmits, outages' \in 0..MaxOutages,
         calls' \in [AlertCalls -> Call \union {Nil}], boards' \in [Operators -> Board],
         CallsStand', BoardsStand', AnswersAreOwn',
         \A c \in AlertCalls : calls[c] # Nil /\ calls[c].step = "written" => calls'[c] # Nil /\ calls'[c].step = "written"
  PROVE  AlertInvariant'
<1>1. AlertTypeOK'
  BY DEF AlertInvariant, AlertTypeOK
<1>2. ServedStands'
  <2>1. IsPast(served.list)'
    BY DEF AlertInvariant, ServedStands, IsPast, Lacking, Ended
  <2> QED BY <2>1 DEF AlertInvariant, ServedStands
<1>3. ServedOwnershipIsCurrent'
  BY DEF AlertInvariant, ServedOwnershipIsCurrent
<1> QED BY <1>1, <1>2, <1>3 DEF AlertInvariant

LEMMA FetchStands ==
  ASSUME AlertInvariant, NEW c \in AlertCalls, FetchAlerts(c)
  PROVE  Onward /\ AlertInvariant'
<1>1. AlertTypeOK /\ calls[c] # Nil /\ calls[c].step = "fetching"
  BY DEF AlertInvariant, FetchAlerts
<1>2. Onward
  BY Steady DEF FetchAlerts, AlertInvariant, Lacking
<1>3. PICK list : list = [a \in Up |-> [episode |-> firing[a].episode, ack |-> Nil]]
  OBVIOUS
<1>4. list \in Lists /\ list # Nil
  <2>1. Up \in SUBSET Alerts
    BY DEF Up
  <2>2. ASSUME NEW a \in Up
        PROVE  [episode |-> firing[a].episode, ack |-> Nil] \in Entry
    <3>1. firing[a].episode \in 0..MaxEpisodes /\ firing[a].episode # 0
      BY <1>1, FiringTyped DEF Up, AlertTypeOK
    <3>2. firing[a].episode \in 1..MaxEpisodes
      BY <3>1, AlertAssumption
    <3> QED BY <3>2 DEF Entry
  <2>3. list \in [Up -> Entry]
    BY <1>3, <2>2
  <2> QED BY <2>1, <2>3, ListMade, AlertAssumption
<1>5. \A a \in DOMAIN list : list[a].episode = firing[a].episode /\ list[a].ack = Nil
  BY <1>3
<1>6. PICK new : new = [calls[c] EXCEPT !.step = "joining", !.since = changes, !.list = list]
  OBVIOUS
<1>7. calls' = [calls EXCEPT ![c] = new]
  <2>1. calls' = [calls EXCEPT ![c].step = "joining", ![c].since = changes, ![c].list = list]
    BY <1>3, Zenon DEF FetchAlerts
  <2> QED BY <2>1, <1>1, <1>6 DEF AlertTypeOK
<1>8. /\ new \in Call
      /\ new.operator = calls[c].operator /\ new.kind = calls[c].kind /\ new.alert = calls[c].alert
      /\ new.step = "joining" /\ new.since = changes /\ new.list = list
  <2>1. PICK call \in Call : call = calls[c]
    BY <1>1 DEF AlertTypeOK
  <2> QED BY <2>1, <1>1, <1>4, <1>6 DEF Call, CallFor, AlertTypeOK
<1>9. CallStands(new)'
  <2>1. \A a \in DOMAIN list : a \in Alerts
    BY <1>4, ListShape
  <2>2. \A a \in DOMAIN list : list[a].episode <= firing'[a].episode
    BY <2>1, <1>1, <1>2, <1>5, FiringTyped DEF Onward
  <2>3. new.list # Nil /\ new.since <= changes'
    BY <1>1, <1>4, <1>8 DEF FetchAlerts, AlertTypeOK
  <2>4. DOMAIN list = Up'
    BY <1>3 DEF FetchAlerts, Up
  <2> QED BY <1>4, <1>5, <1>8, <2>2, <2>3, <2>4 DEF CallStands, IsLoading
<1>10. /\ calls' \in [AlertCalls -> Call \union {Nil}] /\ boards' \in [Operators -> Board]
       /\ CallsStand' /\ BoardsStand' /\ AnswersAreOwn'
  BY <1>1, <1>2, <1>7, <1>8, <1>9, CallMoves DEF FetchAlerts
<1>11. \A d \in AlertCalls : calls[d] # Nil /\ calls[d].step = "written" => calls'[d] # Nil /\ calls'[d].step = "written"
  BY <1>1, <1>7 DEF AlertTypeOK
<1>12. AlertInvariant'
  BY <1>10, <1>11, RestKept DEF FetchAlerts, AlertInvariant, AlertTypeOK
<1> QED BY <1>2, <1>12

LEMMA AttachStands ==
  ASSUME AlertInvariant, NEW c \in AlertCalls, AttachAcknowledgements(c)
  PROVE  Onward /\ AlertInvariant'
<1>1. AlertTypeOK /\ calls[c] # Nil /\ calls[c].step = "joining" /\ calls[c] \in Call
  BY DEF AlertInvariant, AttachAcknowledgements, AlertTypeOK
<1>2. Onward
  BY Steady DEF AttachAcknowledgements, AlertInvariant, Lacking
<1>3. PICK before : before = calls[c].list
  OBVIOUS
<1>4. before \in Lists /\ IsLoading(calls[c])
  BY <1>1, <1>3, CallShape DEF AlertInvariant, CallsStand, CallStands, IsLoading
<1>5. DOMAIN before \subseteq Alerts /\ \A a \in DOMAIN before : before[a] \in Entry
  BY <1>4, ListShape
<1>6. PICK list : list = [a \in DOMAIN before |-> [before[a] EXCEPT !.ack = acks[a]]]
  OBVIOUS
<1>7. /\ \A a \in DOMAIN before : list[a] \in Entry /\ list[a].episode = before[a].episode /\ list[a].ack = acks[a]
      /\ DOMAIN list = DOMAIN before
  BY <1>1, <1>5, <1>6 DEF Entry, AlertTypeOK
<1>8. list \in Lists /\ list # Nil
  <2>1. list \in [DOMAIN before -> Entry]
    BY <1>6, <1>7
  <2> QED BY <2>1, <1>5, ListMade, AlertAssumption
<1>9. PICK new : new = [calls[c] EXCEPT !.step = "joined", !.list = list]
  OBVIOUS
<1>10. calls' = [calls EXCEPT ![c] = new]
  <2>1. calls' = [calls EXCEPT ![c].step = "joined", ![c].list = list]
    BY <1>3, <1>6, Zenon DEF AttachAcknowledgements, Advance
  <2> QED BY <2>1, <1>1, <1>9 DEF AlertTypeOK
<1>11. /\ new \in Call
       /\ new.operator = calls[c].operator /\ new.kind = calls[c].kind /\ new.alert = calls[c].alert
       /\ new.step = "joined" /\ new.since = calls[c].since /\ new.list = list
  BY <1>1, <1>8, <1>9 DEF Call, CallFor
<1>12. CallStands(new)'
  <2>1. \A a \in DOMAIN list : list[a].episode <= firing'[a].episode /\ list[a].ack = acks'[a]
    BY <1>3, <1>4, <1>7 DEF AttachAcknowledgements, IsLoading
  <2>2. new.list # Nil /\ new.since <= changes'
    BY <1>4, <1>8, <1>11 DEF AttachAcknowledgements, IsLoading
  <2>3. new.since = changes' => DOMAIN list = Up'
    BY <1>3, <1>4, <1>7, <1>11 DEF AttachAcknowledgements, IsLoading, Up
  <2> QED BY <1>11, <2>1, <2>2, <2>3 DEF CallStands, IsLoading
<1>13. /\ calls' \in [AlertCalls -> Call \union {Nil}] /\ boards' \in [Operators -> Board]
       /\ CallsStand' /\ BoardsStand' /\ AnswersAreOwn'
  BY <1>1, <1>2, <1>10, <1>11, <1>12, CallMoves DEF AttachAcknowledgements
<1>14. \A d \in AlertCalls : calls[d] # Nil /\ calls[d].step = "written" => calls'[d] # Nil /\ calls'[d].step = "written"
  BY <1>1, <1>10 DEF AlertTypeOK
<1>15. AlertInvariant'
  BY <1>13, <1>14, RestKept DEF AttachAcknowledgements, AlertInvariant, AlertTypeOK
<1> QED BY <1>2, <1>15

LEMMA StoreStands ==
  ASSUME AlertInvariant, NEW c \in AlertCalls, StoreList(c)
  PROVE  Onward /\ AlertInvariant'
<1>1. AlertTypeOK /\ calls[c] # Nil /\ calls[c].step = "joined" /\ calls[c] \in Call
  BY DEF AlertInvariant, StoreList, AlertTypeOK
<1>2. PICK list : list = calls[c].list
  OBVIOUS
<1>3. list \in Lists /\ IsLoading(calls[c])
  BY <1>1, <1>2, CallShape DEF AlertInvariant, CallsStand, CallStands, IsLoading
<1>4. DOMAIN list \subseteq Alerts
  BY <1>3, ListShape
<1>5. PICK age \in BOOLEAN : age = (calls[c].since # changes)
  OBVIOUS
<1>6. served' = [list |-> list, fresh |-> TRUE, overtaken |-> age] /\ UNCHANGED <<firing, acks, boards, submits, outages, changes>>
  BY <1>2, <1>5 DEF StoreList
<1>7. ~age => /\ DOMAIN list = Up
              /\ \A a \in DOMAIN list : list[a].ack = acks[a]
  BY <1>1, <1>2, <1>3, <1>5 DEF IsLoading
<1>8. \A a \in Alerts : Lacking(a)' => ~firing'[a].up
  BY <1>6, <1>7 DEF Lacking, Up
<1>9. Onward
  <2>1. \A a \in Alerts : firing[a].episode <= firing'[a].episode
    <3>1. \A n \in Nat : n <= n
      OBVIOUS
    <3> QED BY <1>1, <1>6, <3>1, FiringTyped
  <2> QED BY <1>1, <1>6, <1>8, <2>1 DEF Onward, Ended, AlertTypeOK
<1>10. IsPast(list)'
  <2>1. \A a \in DOMAIN list : list[a].episode <= firing[a].episode /\ (list[a].ack # Nil => acks[a] # Nil)
    BY <1>2, <1>3 DEF IsLoading
  <2> QED BY <1>4, <1>6, <1>8, <2>1 DEF IsPast, Ended
<1>11. PICK new : new = [calls[c] EXCEPT !.step = "loaded", !.since = 0, !.old = age]
  OBVIOUS
<1>12. calls' = [calls EXCEPT ![c] = new]
  <2>1. calls' = [calls EXCEPT ![c].step = "loaded", ![c].since = 0, ![c].old = age]
    BY <1>5, Zenon DEF StoreList
  <2> QED BY <2>1, <1>1, <1>11 DEF AlertTypeOK
<1>13. /\ new \in Call
       /\ new.operator = calls[c].operator /\ new.kind = calls[c].kind /\ new.alert = calls[c].alert
       /\ new.step = "loaded" /\ new.old = age /\ new.list = list
  BY <1>1, <1>2, <1>11 DEF Call, CallFor
<1>14. CallStands(new)' /\ list # Nil
  BY <1>3, <1>10, <1>13, AlertAssumption DEF CallStands
<1>15. ASSUME NEW o \in Operators, boards[o].submit = c, ~new.old, new.alert \notin DOMAIN new.list
       PROVE  Ended(boards[o].dialog.alert, boards[o].dialog.episode)'
  <2>1. SubmitIsOwn(o, boards[o], calls[boards[o].submit]) /\ boards[o] \in Board /\ c # Nil
    BY AlertAssumption DEF AlertInvariant, AnswersAreOwn, AlertTypeOK
  <2>2. boards[o].dialog # Nil /\ calls[c].alert = boards[o].dialog.alert
    BY <1>15, <2>1 DEF SubmitIsOwn
  <2>3. boards[o].dialog.alert \in Alerts
    BY <2>1, <2>2, BoardShape, DialogShape
  <2>4. boards[o].dialog.alert \notin DOMAIN list /\ ~age
    BY <1>13, <1>15, <2>2
  <2>5. ~firing[boards[o].dialog.alert].up
    BY <1>7, <2>3, <2>4 DEF Up
  <2> QED BY <1>6, <2>5 DEF Ended
<1>16. /\ calls' \in [AlertCalls -> Call \union {Nil}] /\ boards' \in [Operators -> Board]
       /\ CallsStand' /\ BoardsStand' /\ AnswersAreOwn'
  <2>1. \A o \in Operators :
          boards[o].submit = c /\ ~new.old /\ (new.step = "refused" \/ (new.step = "loaded" /\ new.alert \notin DOMAIN new.list)) =>
            Ended(boards[o].dialog.alert, boards[o].dialog.episode)'
    BY <1>13, <1>15
  <2> QED BY <1>1, <1>6, <1>9, <1>12, <1>13, <1>14, <2>1, CallMoves
<1>17. AlertTypeOK'
  <2>1. served' \in [list : Lists \union {Nil}, fresh : BOOLEAN, overtaken : BOOLEAN]
    BY <1>3, <1>6
  <2> QED BY <2>1, <1>1, <1>6, <1>16 DEF AlertTypeOK
<1>18. ServedStands'
  <2>1. served'.list = list
    BY <1>6
  <2> QED BY <2>1, <1>10, <1>14 DEF ServedStands
<1>19. ServedOwnershipIsCurrent'
  BY <1>6, <1>7 DEF ServedOwnershipIsCurrent
<1> QED BY <1>9, <1>16, <1>17, <1>18, <1>19 DEF AlertInvariant

LEMMA LoadFailsStands ==
  ASSUME AlertInvariant, NEW c \in AlertCalls, LoadFails(c)
  PROVE  Onward /\ AlertInvariant'
<1>1. AlertTypeOK /\ calls[c] # Nil /\ calls[c].step \in {"fetching", "joining"} /\ calls[c] \in Call
  BY DEF AlertInvariant, LoadFails, AlertTypeOK
<1>2. Onward
  BY Steady DEF LoadFails, AlertInvariant, Lacking
<1>3. PICK step \in {"failed", "loaded"} : step = IF served.list = Nil THEN "failed" ELSE "loaded"
  OBVIOUS
<1>4. PICK new : new = [calls[c] EXCEPT !.step = step, !.list = served.list, !.since = 0, !.old = TRUE]
  OBVIOUS
<1>5. calls' = [calls EXCEPT ![c] = new]
  <2>1. calls' = [calls EXCEPT ![c].step = step, ![c].list = served.list, ![c].since = 0, ![c].old = TRUE]
    BY <1>3, Zenon DEF LoadFails
  <2> QED BY <2>1, <1>1, <1>4 DEF AlertTypeOK
<1>6. /\ new \in Call
      /\ new.operator = calls[c].operator /\ new.kind = calls[c].kind /\ new.alert = calls[c].alert
      /\ new.step = step /\ new.old = TRUE /\ new.list = served.list
  <2>1. served.list \in Lists \union {Nil}
    BY <1>1 DEF AlertTypeOK
  <2> QED BY <1>1, <1>4, <2>1 DEF Call, CallFor
<1>7. CallStands(new)'
  <2>1. IsPast(served.list)'
    BY DEF LoadFails, AlertInvariant, ServedStands, IsPast, Lacking, Ended
  <2>2. IsPast(new.list)'
    BY <1>6, <2>1 DEF LoadFails, IsPast, Lacking, Ended
  <2> QED BY <1>3, <1>6, <2>2 DEF CallStands
<1>8. /\ calls' \in [AlertCalls -> Call \union {Nil}] /\ boards' \in [Operators -> Board]
      /\ CallsStand' /\ BoardsStand' /\ AnswersAreOwn'
  BY <1>1, <1>2, <1>5, <1>6, <1>7, CallMoves DEF LoadFails
<1>9. \A d \in AlertCalls : calls[d] # Nil /\ calls[d].step = "written" => calls'[d] # Nil /\ calls'[d].step = "written"
  BY <1>1, <1>5 DEF AlertTypeOK
<1>10. submits' \in 0..MaxSubmits /\ outages' \in 0..MaxOutages
  BY AlertAssumption DEF LoadFails, AlertInvariant, AlertTypeOK
<1>11. AlertInvariant'
  BY <1>8, <1>9, <1>10, RestKept DEF LoadFails
<1> QED BY <1>2, <1>11

LEMMA RefuseStands ==
  ASSUME AlertInvariant, NEW c \in AlertCalls, Refuse(c)
  PROVE  Onward /\ AlertInvariant'
<1>1. /\ AlertTypeOK /\ calls[c] # Nil /\ calls[c].step = "loaded" /\ calls[c].kind # "list" /\ calls[c] \in Call
      /\ Refused(calls[c])
  BY DEF AlertInvariant, Refuse, AlertTypeOK
<1>2. Onward
  BY Steady DEF Refuse, AlertInvariant, Lacking
<1>3. PICK new : new = [calls[c] EXCEPT !.step = "refused", !.list = Nil]
  OBVIOUS
<1>4. calls' = [calls EXCEPT ![c] = new]
  <2>1. calls' = [calls EXCEPT ![c].step = "refused", ![c].list = Nil]
    BY Zenon DEF Refuse, Advance
  <2> QED BY <2>1, <1>1, <1>3 DEF AlertTypeOK
<1>5. /\ new \in Call
      /\ new.operator = calls[c].operator /\ new.kind = calls[c].kind /\ new.alert = calls[c].alert
      /\ new.step = "refused" /\ new.old = calls[c].old /\ new.list = Nil
  BY <1>1, <1>3 DEF Call, CallFor
<1>6. CallStands(new)'
  BY <1>5 DEF CallStands, IsPast
<1>7. ASSUME NEW o \in Operators, boards[o].submit = c, ~new.old
      PROVE  Ended(boards[o].dialog.alert, boards[o].dialog.episode)'
  <2>1. SubmitIsOwn(o, boards[o], calls[boards[o].submit]) /\ boards[o] \in Board /\ c # Nil /\ BoardStands(o, boards[o])
    BY AlertAssumption DEF AlertInvariant, AnswersAreOwn, AlertTypeOK, BoardsStand
  <2>2. PICK dialog \in Dialog : dialog = boards[o].dialog /\ dialog # Nil
    BY <1>7, <2>1, BoardShape DEF SubmitIsOwn
  <2>3. calls[c].kind = dialog.kind /\ calls[c].alert = dialog.alert /\ calls[c].operator = o
    BY <1>7, <2>1, <2>2 DEF SubmitIsOwn
  <2>4. MayTouch(o, dialog.alert) /\ (dialog.kind = "resolve" => acks[dialog.alert] # Nil)
    BY <2>1, <2>2 DEF BoardStands, DialogIsPast
  <2>5. calls[c].alert \notin DOMAIN calls[c].list
    BY <1>1, <2>3, <2>4 DEF Refused, Listed
  <2>6. Ended(dialog.alert, dialog.episode)
    BY <1>1, <1>5, <1>7, <2>1, <2>2, <2>5 DEF SubmitIsOwn
  <2> QED BY <2>2, <2>6 DEF Refuse, Ended
<1>8. /\ calls' \in [AlertCalls -> Call \union {Nil}] /\ boards' \in [Operators -> Board]
      /\ CallsStand' /\ BoardsStand' /\ AnswersAreOwn'
  BY <1>1, <1>2, <1>4, <1>5, <1>6, <1>7, CallMoves DEF Refuse
<1>9. \A d \in AlertCalls : calls[d] # Nil /\ calls[d].step = "written" => calls'[d] # Nil /\ calls'[d].step = "written"
  BY <1>1, <1>4 DEF AlertTypeOK
<1>10. AlertInvariant'
  BY <1>8, <1>9, RestKept DEF Refuse, AlertInvariant, AlertTypeOK
<1> QED BY <1>2, <1>10

\* Whoever writes has a row of an alert.
LEMMA WritesOfAlerts ==
  ASSUME AlertInvariant, NEW c \in AlertCalls, WriteRow(c)
  PROVE  calls[c].alert \in Alerts
<1>1. calls[c] \in Call /\ calls[c].step = "loaded" /\ calls[c].kind # "list" /\ ~Refused(calls[c])
  BY DEF AlertInvariant, WriteRow, AlertTypeOK
<1> QED BY <1>1, CallShape

LEMMA WriteStands ==
  ASSUME AlertInvariant, NEW c \in AlertCalls, WriteRow(c)
  PROVE  Onward /\ AlertInvariant'
<1>1. /\ AlertTypeOK /\ calls[c] # Nil /\ calls[c].step = "loaded" /\ calls[c].kind # "list" /\ calls[c] \in Call
      /\ ~Refused(calls[c]) /\ UNCHANGED <<firing, served, boards, submits, outages>> /\ changes' = changes + 1
  BY DEF AlertInvariant, WriteRow, AlertTypeOK
<1>2. PICK alert \in Alerts : alert = calls[c].alert
  BY WritesOfAlerts
<1>3. PICK row \in AckRow : row = Written(calls[c], acks[alert])
  BY <1>1, <1>2, WrittenIsRow
<1>4. acks' = [acks EXCEPT ![alert] = row] /\ row # Nil
  <2>1. acks' = [acks EXCEPT ![calls[c].alert] = Written(calls[c], acks[calls[c].alert])]
    BY Zenon DEF WriteRow
  <2> QED BY <2>1, <1>2, <1>3, AlertAssumption
<1>5. acks' \in [Alerts -> AckRow \union {Nil}] /\ changes \in Nat /\ changes' \in Nat /\ changes <= changes' /\ changes' # changes
  <2>1. acks' \in [Alerts -> AckRow \union {Nil}]
    BY <1>1, <1>4 DEF AlertTypeOK
  <2>2. PICK n \in Nat : n = changes
    BY <1>1 DEF AlertTypeOK
  <2>3. changes' = n + 1
    BY <1>1, <2>2
  <2> QED BY <2>1, <2>2, <2>3
<1>6. Onward
  <2>1. \A a \in Alerts : firing[a].episode <= firing'[a].episode
    <3>1. \A n \in Nat : n <= n
      OBVIOUS
    <3> QED BY <1>1, <3>1, FiringTyped
  <2>2. \A a \in Alerts : acks[a] # Nil => acks'[a] # Nil
    BY <1>1, <1>4 DEF AlertTypeOK
  <2> QED BY <1>1, <1>5, <2>1, <2>2 DEF Onward, Ended, AlertTypeOK, Lacking
<1>7. PICK new : new = [calls[c] EXCEPT !.step = "written", !.list = Nil]
  OBVIOUS
<1>8. calls' = [calls EXCEPT ![c] = new]
  <2>1. calls' = [calls EXCEPT ![c].step = "written", ![c].list = Nil]
    BY Zenon DEF WriteRow, Advance
  <2> QED BY <2>1, <1>1, <1>7 DEF AlertTypeOK
<1>9. /\ new \in Call
      /\ new.operator = calls[c].operator /\ new.kind = calls[c].kind /\ new.alert = calls[c].alert
      /\ new.step = "written" /\ new.list = Nil
  BY <1>1, <1>7 DEF Call, CallFor
<1>10. CallStands(new)'
  BY <1>9 DEF CallStands, IsPast
<1>11. /\ calls' \in [AlertCalls -> Call \union {Nil}] /\ boards' \in [Operators -> Board]
       /\ CallsStand' /\ BoardsStand' /\ AnswersAreOwn'
  BY <1>1, <1>6, <1>8, <1>9, <1>10, CallMoves
<1>12. AlertTypeOK'
  BY <1>1, <1>5, <1>11 DEF AlertTypeOK
<1>13. ServedStands'
  <2>1. PICK list \in Lists \union {Nil} : list = served.list
    BY <1>1 DEF AlertTypeOK
  <2>2. IsPast(list)'
    BY <1>1, <1>6, <2>1, PastStays DEF AlertInvariant, ServedStands
  <2> QED BY <1>1, <2>1, <2>2 DEF AlertInvariant, ServedStands
<1>14. ServedOwnershipIsCurrent'
  <2>1. calls'[c] # Nil /\ calls'[c].step = "written"
    BY <1>1, <1>8, <1>9, AlertAssumption DEF AlertTypeOK
  <2> QED BY <2>1 DEF ServedOwnershipIsCurrent
<1> QED BY <1>6, <1>11, <1>12, <1>13, <1>14 DEF AlertInvariant

\* Served lists that expire or are dropped.
LEMMA StaleStands ==
  ASSUME AlertInvariant, served' = [served EXCEPT !.fresh = FALSE], UNCHANGED <<firing, acks, changes, submits, outages>>,
         calls' \in [AlertCalls -> Call \union {Nil}], boards' \in [Operators -> Board],
         CallsStand', BoardsStand', AnswersAreOwn'
  PROVE  AlertInvariant'
<1>1. AlertTypeOK /\ served'.list = served.list /\ served'.fresh = FALSE
  BY DEF AlertInvariant, AlertTypeOK
<1>2. AlertTypeOK'
  BY <1>1 DEF AlertTypeOK
<1>3. ServedStands'
  BY <1>1 DEF AlertInvariant, ServedStands, IsPast, Lacking, Ended
<1>4. ServedOwnershipIsCurrent'
  BY <1>1 DEF ServedOwnershipIsCurrent
<1> QED BY <1>2, <1>3, <1>4 DEF AlertInvariant

LEMMA AnswerStands ==
  ASSUME AlertInvariant, NEW c \in AlertCalls, AnswerWrite(c)
  PROVE  Onward /\ AlertInvariant'
<1>1. /\ AlertTypeOK /\ calls[c] # Nil /\ calls[c].step = "written" /\ calls[c] \in Call
      /\ UNCHANGED <<firing, acks, boards, submits, outages, changes>> /\ served' = [served EXCEPT !.fresh = FALSE]
  BY DEF AlertInvariant, AnswerWrite, InvalidateList, AlertTypeOK
<1>2. Onward
  BY <1>1, Steady DEF Lacking, AlertTypeOK
<1>3. PICK new : new = [calls[c] EXCEPT !.step = "done", !.list = Nil]
  OBVIOUS
<1>4. calls' = [calls EXCEPT ![c] = new]
  <2>1. calls' = [calls EXCEPT ![c].step = "done", ![c].list = Nil]
    BY Zenon DEF AnswerWrite, Advance
  <2> QED BY <2>1, <1>1, <1>3 DEF AlertTypeOK
<1>5. /\ new \in Call
      /\ new.operator = calls[c].operator /\ new.kind = calls[c].kind /\ new.alert = calls[c].alert
      /\ new.step = "done" /\ new.list = Nil
  BY <1>1, <1>3 DEF Call, CallFor
<1>6. CallStands(new)'
  BY <1>5 DEF CallStands, IsPast
<1>7. /\ calls' \in [AlertCalls -> Call \union {Nil}] /\ boards' \in [Operators -> Board]
      /\ CallsStand' /\ BoardsStand' /\ AnswersAreOwn'
  BY <1>1, <1>2, <1>4, <1>5, <1>6, CallMoves
<1> QED BY <1>1, <1>2, <1>7, StaleStands

LEMMA ExpiryStands ==
  ASSUME AlertInvariant, ListExpires
  PROVE  Onward /\ AlertInvariant'
<1>1. /\ AlertTypeOK /\ UNCHANGED <<firing, acks, calls, boards, submits, outages, changes>>
      /\ served' = [served EXCEPT !.fresh = FALSE]
  BY DEF AlertInvariant, ListExpires
<1>2. Onward
  BY <1>1, Steady DEF Lacking, AlertTypeOK
<1>3. /\ calls' \in [AlertCalls -> Call \union {Nil}] /\ CallsStand'
      /\ boards' \in [Operators -> Board] /\ BoardsStand'
  BY <1>1, <1>2, CallsKept, BoardsKept
<1>4. AnswersAreOwn'
  BY <1>1, <1>2, OwnStays DEF AnswersAreOwn
<1> QED BY <1>1, <1>2, <1>3, <1>4, StaleStands

LEMMA WorldStands ==
  ASSUME AlertInvariant, NEW a \in Alerts, Fires(a) \/ Ends(a)
  PROVE  Onward /\ AlertInvariant'
<1>1. /\ AlertTypeOK /\ UNCHANGED <<acks, served, calls, boards, submits, outages>> /\ changes' = changes + 1
  BY DEF AlertInvariant, Fires, Ends
<1>2. Onward
  BY <1>1, FiresOnward
<1>3. /\ calls' \in [AlertCalls -> Call \union {Nil}] /\ CallsStand'
      /\ boards' \in [Operators -> Board] /\ BoardsStand'
  BY <1>1, <1>2, CallsKept, BoardsKept
<1>4. AnswersAreOwn'
  BY <1>1, <1>2, OwnStays DEF AnswersAreOwn
<1>5. \A b \in Alerts : firing'[b].up => firing'[b].episode # 0
  <2>1. PICK n \in Nat : n = firing[a].episode
    BY <1>1, FiringTyped
  <2>2. n + 1 # 0
    OBVIOUS
  <2>3. \A b \in Alerts : firing[b].up => firing[b].episode # 0
    BY <1>1 DEF AlertTypeOK
  <2> QED BY <1>1, <2>1, <2>2, <2>3 DEF Fires, Ends, AlertTypeOK
<1>6. AlertTypeOK'
  BY <1>1, <1>2, <1>3, <1>5 DEF AlertTypeOK, Onward
<1>7. ServedStands'
  <2>1. PICK list \in Lists \union {Nil} : list = served.list
    BY <1>1 DEF AlertTypeOK
  <2>2. IsPast(list)'
    BY <1>1, <1>2, <2>1, PastStays DEF AlertInvariant, ServedStands
  <2> QED BY <1>1, <2>1, <2>2 DEF AlertInvariant, ServedStands
<1>8. ServedOwnershipIsCurrent'
  BY <1>1 DEF AlertInvariant, ServedOwnershipIsCurrent
<1> QED BY <1>2, <1>3, <1>4, <1>6, <1>7, <1>8 DEF AlertInvariant

-----------------------------------------------------------------------------
\* The pages.
LEMMA Waiters ==
  ASSUME AlertInvariant, NEW p \in Operators, NEW c \in AlertCalls
  PROVE  /\ boards[p].fetch = c => calls[c] # Nil /\ calls[c].kind = "list" /\ calls[c].operator = p
         /\ boards[p].submit = c => /\ calls[c] # Nil /\ calls[c].kind # "list" /\ calls[c].operator = p
                                    /\ boards[p].busy /\ boards[p].dialog # Nil
                                    /\ calls[c].kind = boards[p].dialog.kind /\ calls[c].alert = boards[p].dialog.alert
<1>1. boards[p] \in Board /\ c # Nil
  BY AlertAssumption DEF AlertInvariant, AlertTypeOK
<1>2. FetchIsOwn(p, boards[p], calls[boards[p].fetch]) /\ SubmitIsOwn(p, boards[p], calls[boards[p].submit])
  BY DEF AlertInvariant, AnswersAreOwn
<1>3. boards[p].fetch = c => calls[c] # Nil /\ calls[c].kind = "list" /\ calls[c].operator = p
  BY <1>1, <1>2 DEF FetchIsOwn
<1>4. boards[p].submit = c => /\ calls[c] # Nil /\ calls[c].operator = p /\ boards[p].busy /\ boards[p].dialog # Nil
                              /\ calls[c].kind = boards[p].dialog.kind /\ calls[c].alert = boards[p].dialog.alert
  BY <1>1, <1>2 DEF SubmitIsOwn
<1>5. boards[p].dialog # Nil => boards[p].dialog.kind # "list"
  BY <1>1, BoardShape, DialogShape
<1> QED BY <1>3, <1>4, <1>5

LEMMA PageMoves ==
  ASSUME AlertInvariant, UNCHANGED <<firing, acks, served, changes, outages>>, submits' \in 0..MaxSubmits,
         NEW c \in AlertCalls, NEW call \in Call \union {Nil}, calls' = [calls EXCEPT ![c] = call], CallStands(call),
         calls[c] # Nil => calls[c].step # "written",
         NEW o \in Operators, NEW board \in Board, boards' = [boards EXCEPT ![o] = board], BoardStands(o, board),
         \A p \in Operators \ {o} : boards[p].fetch # c /\ boards[p].submit # c,
         FetchIsOwn(o, board, calls'[board.fetch]), SubmitIsOwn(o, board, calls'[board.submit])
  PROVE  Onward /\ AlertInvariant'
<1>1. AlertTypeOK
  BY DEF AlertInvariant
<1>2. Onward
  BY <1>1, Steady DEF Lacking
<1>3. CallStands(call)' /\ BoardStands(o, board)'
  BY <1>1, <1>2, CallStays, BoardStays
<1>4. /\ calls' \in [AlertCalls -> Call \union {Nil}] /\ CallsStand'
      /\ calls'[c] = call /\ \A d \in AlertCalls : d # c => calls'[d] = calls[d]
  BY <1>2, <1>3, CallsFollow
<1>5. /\ boards' \in [Operators -> Board] /\ BoardsStand'
      /\ boards'[o] = board /\ \A p \in Operators : p # o => boards'[p] = boards[p]
  BY <1>2, <1>3, BoardsFollow
<1>6. ASSUME NEW p \in Operators
      PROVE  /\ FetchIsOwn(p, boards[p], calls[boards[p].fetch])'
             /\ SubmitIsOwn(p, boards[p], calls[boards[p].submit])'
  <2>1. CASE p = o
    BY <2>1, <1>5 DEF FetchIsOwn, SubmitIsOwn, Ended
  <2>2. CASE p # o
    <3>1. boards[p].fetch \in AlertCalls \union {Nil} /\ boards[p].submit \in AlertCalls \union {Nil}
      BY <1>1, BoardShape DEF AlertTypeOK
    <3>2. /\ boards[p].fetch # Nil => calls'[boards[p].fetch] = calls[boards[p].fetch]
          /\ boards[p].submit # Nil => calls'[boards[p].submit] = calls[boards[p].submit]
      BY <1>4, <2>2, <3>1
    <3> QED BY <1>2, <1>5, <2>2, <3>2, OwnStays
  <2> QED BY <2>1, <2>2
<1>7. AnswersAreOwn'
  BY <1>6 DEF AnswersAreOwn
<1>8. \A d \in AlertCalls : calls[d] # Nil /\ calls[d].step = "written" => calls'[d] # Nil /\ calls'[d].step = "written"
  BY <1>4
<1>9. AlertInvariant'
  BY <1>1, <1>4, <1>5, <1>7, <1>8, RestKept DEF AlertTypeOK
<1> QED BY <1>2, <1>9

LEMMA LookupStands ==
  ASSUME AlertInvariant, NEW o \in Operators, NEW kind \in {"list", "ack", "resolve"}, NEW alert \in Alerts \union {Nil},
         kind = "list" => alert = Nil, kind # "list" => alert \in Alerts,
         NEW call, call = Lookup(o, kind, alert)
  PROVE  /\ call \in Call /\ CallStands(call) /\ call # Nil
         /\ call.operator = o /\ call.kind = kind /\ call.alert = alert
         /\ call.step \in {"fetching", "loaded"}
         /\ call.step = "loaded" => served.fresh /\ call.list = served.list /\ (call.old <=> served.overtaken)
<1>1. served.list \in Lists \union {Nil} /\ served.fresh \in BOOLEAN /\ served.overtaken \in BOOLEAN
  BY DEF AlertInvariant, AlertTypeOK
<1>2. PICK age \in BOOLEAN : age = (served.fresh /\ served.overtaken)
  BY <1>1
<1>3. PICK list \in Lists \union {Nil} : list = IF served.fresh THEN served.list ELSE Nil
  BY <1>1
<1>4. PICK step \in {"fetching", "loaded"} : step = IF served.fresh THEN "loaded" ELSE "fetching"
  OBVIOUS
<1>5. call = [operator |-> o, kind |-> kind, alert |-> alert, step |-> step, since |-> 0, old |-> age, list |-> list]
  BY <1>2, <1>3, <1>4 DEF Lookup
<1>6. call \in Call
  <2>1. CASE kind = "list"
    BY <1>5, <2>1 DEF Call, CallFor
  <2>2. CASE kind # "list"
    BY <1>5, <2>2 DEF Call, CallFor
  <2> QED BY <2>1, <2>2
<1>7. IsPast(list) /\ (step = "loaded" => list # Nil)
  BY <1>3, <1>4 DEF AlertInvariant, ServedStands, IsPast
<1>8. call.list = list /\ call.step = step /\ call.old = age
  BY <1>5
<1>9. CallStands(call)
  BY <1>7, <1>8 DEF CallStands
<1> QED BY <1>1, <1>2, <1>3, <1>4, <1>5, <1>6, <1>8, <1>9, AlertAssumption

LEMMA DropStands ==
  ASSUME AlertInvariant, NEW c \in AlertCalls, DropAnswer(c)
  PROVE  Onward /\ AlertInvariant'
<1>1. /\ AlertTypeOK /\ calls[c] # Nil /\ calls[c] \in Call /\ calls[c].step # "written"
      /\ UNCHANGED <<firing, acks, served, boards, submits, outages, changes>>
      /\ calls' = [calls EXCEPT ![c] = Nil]
  BY DEF AlertInvariant, DropAnswer, AlertTypeOK
<1>2. Onward
  BY <1>1, Steady DEF Lacking
<1>3. CallStands(Nil)'
  BY DEF CallStands
<1>4. /\ calls' \in [AlertCalls -> Call \union {Nil}] /\ CallsStand'
      /\ calls'[c] = Nil /\ \A d \in AlertCalls : d # c => calls'[d] = calls[d]
  BY <1>1, <1>2, <1>3, CallsFollow
<1>5. boards' \in [Operators -> Board] /\ BoardsStand'
  BY <1>1, <1>2, BoardsKept
<1>6. ASSUME NEW p \in Operators
      PROVE  boards[p].fetch # c /\ boards[p].submit # c
  BY <1>6, Waiters DEF DropAnswer
<1>7. ASSUME NEW p \in Operators
      PROVE  /\ FetchIsOwn(p, boards[p], calls[boards[p].fetch])'
             /\ SubmitIsOwn(p, boards[p], calls[boards[p].submit])'
  <2>1. boards[p].fetch \in AlertCalls \union {Nil} /\ boards[p].submit \in AlertCalls \union {Nil}
    BY <1>1, BoardShape DEF AlertTypeOK
  <2>2. /\ boards[p].fetch # Nil => calls'[boards[p].fetch] = calls[boards[p].fetch]
        /\ boards[p].submit # Nil => calls'[boards[p].submit] = calls[boards[p].submit]
    BY <1>4, <1>6, <2>1
  <2> QED BY <1>1, <1>2, <2>2, OwnStays
<1>8. AnswersAreOwn'
  BY <1>7 DEF AnswersAreOwn
<1>9. \A d \in AlertCalls : calls[d] # Nil /\ calls[d].step = "written" => calls'[d] # Nil /\ calls'[d].step = "written"
  BY <1>1, <1>4
<1> QED BY <1>1, <1>2, <1>4, <1>5, <1>8, <1>9, RestKept DEF AlertTypeOK

LEMMA PollStands ==
  ASSUME AlertInvariant, NEW o \in Operators, NEW c \in AlertCalls, PollBoard(o, c)
  PROVE  Onward /\ AlertInvariant'
<1>1. /\ AlertTypeOK /\ calls[c] = Nil /\ boards[o] \in Board /\ boards[o].fetch = Nil /\ c # Nil
      /\ UNCHANGED <<firing, acks, served, submits, outages, changes>>
  BY AlertAssumption DEF AlertInvariant, PollBoard, Free, AlertTypeOK
<1>2. PICK call : call = Lookup(o, "list", Nil)
  OBVIOUS
<1>3. call \in Call /\ CallStands(call) /\ call # Nil /\ call.operator = o /\ call.kind = "list"
  BY <1>2, LookupStands
<1>4. calls' = [calls EXCEPT ![c] = call]
  BY <1>2 DEF PollBoard
<1>5. PICK board : board = [boards[o] EXCEPT !.fetch = c]
  OBVIOUS
<1>6. boards' = [boards EXCEPT ![o] = board]
  BY <1>1, <1>5 DEF PollBoard, AlertTypeOK
<1>7. /\ board \in Board /\ board.fetch = c /\ board.list = boards[o].list /\ board.dialog = boards[o].dialog
      /\ board.submit = boards[o].submit /\ board.busy = boards[o].busy /\ board.refused = boards[o].refused
  BY <1>1, <1>5 DEF Board
<1>8. BoardStands(o, board)
  BY <1>7 DEF AlertInvariant, BoardsStand, BoardStands
<1>9. calls'[c] = call /\ \A d \in AlertCalls : d # c => calls'[d] = calls[d]
  BY <1>1, <1>4 DEF AlertTypeOK
<1>10. FetchIsOwn(o, board, calls'[board.fetch])
  BY <1>3, <1>7, <1>9 DEF FetchIsOwn
<1>11. SubmitIsOwn(o, board, calls'[board.submit])
  <2>1. board.submit \in AlertCalls \union {Nil} /\ board.submit # c
    BY <1>1, <1>7, BoardShape, Waiters
  <2>2. SubmitIsOwn(o, boards[o], calls[boards[o].submit])
    BY DEF AlertInvariant, AnswersAreOwn
  <2> QED BY <1>7, <1>9, <2>1, <2>2 DEF SubmitIsOwn
<1>12. \A p \in Operators \ {o} : boards[p].fetch # c /\ boards[p].submit # c
  BY <1>1, Waiters
<1>13. submits' \in 0..MaxSubmits
  BY <1>1 DEF AlertTypeOK
<1> QED BY <1>1, <1>3, <1>4, <1>6, <1>7, <1>8, <1>10, <1>11, <1>12, <1>13, PageMoves

LEMMA VisiblePast ==
  ASSUME AlertInvariant, NEW o \in Operators, NEW list \in Lists, IsPast(list)
  PROVE  /\ Visible(o, list) \in Lists /\ Visible(o, list) # Nil /\ IsPast(Visible(o, list))
         /\ \A a \in DOMAIN Visible(o, list) : MayTouch(o, a)
<1>1. DOMAIN list \subseteq Alerts /\ \A a \in DOMAIN list : list[a] \in Entry
  BY ListShape
<1>2. PICK seen \in SUBSET Alerts : seen = {b \in DOMAIN list : MayTouch(o, b)}
  BY <1>1
<1>3. PICK shown : shown = [a \in seen |-> list[a]]
  OBVIOUS
<1>4. Visible(o, list) = shown
  BY <1>2, <1>3 DEF Visible
<1>5. shown \in [seen -> Entry]
  BY <1>1, <1>2, <1>3
<1>6. shown \in Lists
  BY <1>5, ListMade
<1>7. list # Nil
  BY AlertAssumption
<1>8. IsPast(shown)
  BY <1>2, <1>3, <1>7 DEF IsPast
<1> QED BY <1>2, <1>3, <1>4, <1>6, <1>8, AlertAssumption

LEMMA ArrivalStands ==
  ASSUME AlertInvariant, NEW o \in Operators, ListArrives(o)
  PROVE  Onward /\ AlertInvariant'
<1>1. PICK c \in AlertCalls : c = boards[o].fetch
  BY BoardShape DEF AlertInvariant, AlertTypeOK, ListArrives
<1>2. /\ AlertTypeOK /\ boards[o] \in Board /\ c # Nil
      /\ UNCHANGED <<firing, acks, served, submits, outages, changes>>
  BY AlertAssumption DEF AlertInvariant, ListArrives, AlertTypeOK
<1>3. calls[c] \in Call /\ calls[c] # Nil /\ calls[c].kind = "list" /\ calls[c].operator = o /\ CallStands(calls[c])
  BY <1>1, <1>2, Waiters DEF AlertInvariant, AlertTypeOK, CallsStand
<1>4. calls[c].step \in {"loaded", "failed"} /\ calls' = [calls EXCEPT ![c] = Nil]
  BY <1>1 DEF ListArrives
<1>5. PICK list \in Lists \union {Nil} :
        /\ list = IF calls[c].step = "failed" THEN boards[o].list ELSE Visible(o, calls[c].list)
        /\ IsPast(list) /\ (list # Nil => \A a \in DOMAIN list : MayTouch(o, a))
  <2>1. CASE calls[c].step = "failed"
    <3>1. boards[o].list \in Lists \union {Nil} /\ BoardStands(o, boards[o])
      BY <1>2, BoardShape DEF AlertInvariant, BoardsStand
    <3> QED BY <2>1, <3>1 DEF BoardStands
  <2>2. CASE calls[c].step = "loaded"
    <3>1. PICK given \in Lists : given = calls[c].list
      BY <1>3, <2>2, CallShape DEF CallStands
    <3>2. IsPast(given)
      BY <1>3, <2>2, <3>1 DEF CallStands
    <3> QED BY <2>2, <3>1, <3>2, VisiblePast
  <2> QED BY <1>4, <2>1, <2>2
<1>6. PICK wrong \in BOOLEAN : wrong = (calls[c].step = "failed")
  OBVIOUS
<1>7. PICK busy \in BOOLEAN : busy = (boards[o].busy /\ boards[o].submit # Nil)
  BY <1>2, BoardShape
<1>8. PICK board : board = [boards[o] EXCEPT !.fetch = Nil, !.error = wrong, !.list = list, !.busy = busy]
  OBVIOUS
<1>9. boards' = [boards EXCEPT ![o] = board]
  <2>1. boards' = [boards EXCEPT ![o].fetch = Nil, ![o].error = calls[boards[o].fetch].step = "failed",
                                 ![o].list = IF calls[boards[o].fetch].step = "failed" THEN @ ELSE Visible(o, calls[boards[o].fetch].list),
                                 ![o].busy = @ /\ boards[o].submit # Nil]
    BY Zenon DEF ListArrives
  <2>2. boards' = [boards EXCEPT ![o].fetch = Nil, ![o].error = wrong, ![o].list = list, ![o].busy = busy]
    BY <2>1, <1>1, <1>5, <1>6, <1>7
  <2> QED BY <2>2, <1>2, <1>8 DEF AlertTypeOK
<1>10. /\ board \in Board /\ board.fetch = Nil /\ board.list = list /\ board.dialog = boards[o].dialog
       /\ board.submit = boards[o].submit /\ board.busy = busy /\ board.refused = boards[o].refused
  BY <1>2, <1>8 DEF Board
<1>11. BoardStands(o, board)
  BY <1>5, <1>10 DEF AlertInvariant, BoardsStand, BoardStands
<1>12. calls'[c] = Nil /\ \A d \in AlertCalls : d # c => calls'[d] = calls[d]
  BY <1>2, <1>4 DEF AlertTypeOK
<1>13. FetchIsOwn(o, board, calls'[board.fetch])
  BY <1>10 DEF FetchIsOwn
<1>14. SubmitIsOwn(o, board, calls'[board.submit])
  <2>1. board.submit \in AlertCalls \union {Nil} /\ board.submit # c
    BY <1>2, <1>3, <1>10, BoardShape, Waiters
  <2>2. SubmitIsOwn(o, boards[o], calls[boards[o].submit])
    BY DEF AlertInvariant, AnswersAreOwn
  <2> QED BY <1>7, <1>10, <1>12, <2>1, <2>2 DEF SubmitIsOwn
<1>15. \A p \in Operators \ {o} : boards[p].fetch # c /\ boards[p].submit # c
  BY <1>3, Waiters
<1>16. submits' \in 0..MaxSubmits /\ CallStands(Nil) /\ (calls[c].step # "written")
  BY <1>2, <1>4 DEF AlertTypeOK, CallStands
<1> QED BY <1>2, <1>4, <1>9, <1>10, <1>11, <1>13, <1>14, <1>15, <1>16, PageMoves

LEMMA BoardMoves ==
  ASSUME AlertInvariant, UNCHANGED <<firing, acks, served, calls, changes, submits, outages>>,
         NEW o \in Operators, NEW board \in Board, boards' = [boards EXCEPT ![o] = board], BoardStands(o, board),
         FetchIsOwn(o, board, calls[board.fetch]), SubmitIsOwn(o, board, calls[board.submit])
  PROVE  Onward /\ AlertInvariant'
<1>1. AlertTypeOK
  BY DEF AlertInvariant
<1>2. Onward
  BY <1>1, Steady DEF Lacking
<1>3. BoardStands(o, board)'
  BY <1>1, <1>2, BoardStays
<1>4. calls' \in [AlertCalls -> Call \union {Nil}] /\ CallsStand'
  BY <1>2, CallsKept
<1>5. /\ boards' \in [Operators -> Board] /\ BoardsStand'
      /\ boards'[o] = board /\ \A p \in Operators : p # o => boards'[p] = boards[p]
  BY <1>2, <1>3, BoardsFollow
<1>6. ASSUME NEW p \in Operators
      PROVE  /\ FetchIsOwn(p, boards[p], calls[boards[p].fetch])'
             /\ SubmitIsOwn(p, boards[p], calls[boards[p].submit])'
  <2>1. CASE p = o
    BY <2>1, <1>5 DEF FetchIsOwn, SubmitIsOwn, Ended
  <2>2. CASE p # o
    BY <1>2, <1>5, <2>2, OwnStays
  <2> QED BY <2>1, <2>2
<1>7. AnswersAreOwn'
  BY <1>6 DEF AnswersAreOwn
<1>8. AlertInvariant'
  BY <1>1, <1>4, <1>5, <1>7, RestKept DEF AlertTypeOK
<1> QED BY <1>2, <1>8

LEMMA OpenStands ==
  ASSUME AlertInvariant, NEW o \in Operators, NEW a \in Alerts, NEW kind \in {"ack", "resolve"}, OpenDialog(o, a, kind)
  PROVE  Onward /\ AlertInvariant'
<1>1. /\ AlertTypeOK /\ boards[o] \in Board /\ boards[o].dialog = Nil /\ BoardStands(o, boards[o])
      /\ UNCHANGED <<firing, acks, served, calls, submits, outages, changes>>
  BY DEF AlertInvariant, OpenDialog, AlertTypeOK, BoardsStand
<1>2. PICK list \in Lists : list = boards[o].list /\ list # Nil /\ a \in DOMAIN list /\ kind \in Offered(list[a].ack)
  BY <1>1, BoardShape DEF OpenDialog
<1>3. list[a] \in Entry /\ IsPast(list) /\ MayTouch(o, a)
  BY <1>1, <1>2, ListShape DEF BoardStands
<1>4. PICK dialog : dialog = [alert |-> a, kind |-> kind, episode |-> list[a].episode]
  OBVIOUS
<1>5. dialog \in Dialog /\ dialog.alert = a /\ dialog.kind = kind /\ dialog.episode = list[a].episode
  BY <1>3, <1>4, EntryShape DEF Dialog
<1>6. DialogIsPast(o, dialog)
  <2>1. kind = "resolve" => acks[a] # Nil
    BY <1>2, <1>3 DEF Offered, IsPast
  <2> QED BY <1>2, <1>3, <1>5, <2>1 DEF DialogIsPast, IsPast
<1>7. PICK board : board = [boards[o] EXCEPT !.dialog = dialog, !.refused = FALSE]
  OBVIOUS
<1>8. boards' = [boards EXCEPT ![o] = board]
  <2>1. boards' = [boards EXCEPT ![o].dialog = dialog, ![o].refused = FALSE]
    BY <1>2, <1>4, Zenon DEF OpenDialog
  <2> QED BY <2>1, <1>1, <1>7 DEF AlertTypeOK
<1>9. /\ board \in Board /\ board.fetch = boards[o].fetch /\ board.list = boards[o].list /\ board.dialog = dialog
      /\ board.submit = boards[o].submit /\ board.busy = boards[o].busy /\ board.refused = FALSE
  BY <1>1, <1>5, <1>7 DEF Board
<1>10. BoardStands(o, board)
  BY <1>1, <1>6, <1>9 DEF BoardStands
<1>11. FetchIsOwn(o, board, calls[board.fetch])
  BY <1>9 DEF AlertInvariant, AnswersAreOwn, FetchIsOwn
<1>12. SubmitIsOwn(o, board, calls[board.submit])
  BY <1>1, <1>9 DEF AlertInvariant, AnswersAreOwn, SubmitIsOwn
<1> QED BY <1>1, <1>8, <1>9, <1>10, <1>11, <1>12, BoardMoves

LEMMA CloseStands ==
  ASSUME AlertInvariant, NEW o \in Operators, CloseDialog(o)
  PROVE  Onward /\ AlertInvariant'
<1>1. /\ AlertTypeOK /\ boards[o] \in Board /\ ~boards[o].busy /\ BoardStands(o, boards[o])
      /\ UNCHANGED <<firing, acks, served, calls, submits, outages, changes>>
  BY DEF AlertInvariant, CloseDialog, AlertTypeOK, BoardsStand
<1>2. PICK board : board = [boards[o] EXCEPT !.dialog = Nil, !.refused = FALSE]
  OBVIOUS
<1>3. boards' = [boards EXCEPT ![o] = board]
  BY <1>1, <1>2 DEF CloseDialog, AlertTypeOK
<1>4. /\ board \in Board /\ board.fetch = boards[o].fetch /\ board.list = boards[o].list /\ board.dialog = Nil
      /\ board.submit = boards[o].submit /\ board.busy = boards[o].busy /\ board.refused = FALSE
  BY <1>1, <1>2 DEF Board
<1>5. BoardStands(o, board)
  BY <1>1, <1>4 DEF BoardStands, DialogIsPast
<1>6. FetchIsOwn(o, board, calls[board.fetch])
  BY <1>4 DEF AlertInvariant, AnswersAreOwn, FetchIsOwn
<1>7. SubmitIsOwn(o, board, calls[board.submit])
  BY <1>1, <1>4 DEF AlertInvariant, AnswersAreOwn, SubmitIsOwn
<1> QED BY <1>1, <1>3, <1>4, <1>5, <1>6, <1>7, BoardMoves

LEMMA SubmitStands ==
  ASSUME AlertInvariant, NEW o \in Operators, NEW c \in AlertCalls, Submit(o, c)
  PROVE  Onward /\ AlertInvariant'
<1>1. /\ AlertTypeOK /\ calls[c] = Nil /\ boards[o] \in Board /\ c # Nil /\ BoardStands(o, boards[o])
      /\ UNCHANGED <<firing, acks, served, outages, changes>> /\ submits < MaxSubmits /\ submits' = submits + 1
  BY AlertAssumption DEF AlertInvariant, Submit, Free, AlertTypeOK, BoardsStand
<1>2. PICK dialog \in Dialog : dialog = boards[o].dialog /\ dialog # Nil
  BY <1>1, BoardShape DEF Submit
<1>3. dialog.kind \in {"ack", "resolve"} /\ dialog.alert \in Alerts
  BY DialogShape
<1>4. PICK call : call = Lookup(o, dialog.kind, dialog.alert)
  OBVIOUS
<1>5. /\ call \in Call /\ CallStands(call) /\ call # Nil /\ call.operator = o
      /\ call.kind = dialog.kind /\ call.alert = dialog.alert /\ call.step \in {"fetching", "loaded"}
      /\ call.step = "loaded" => served.fresh /\ call.list = served.list /\ (call.old <=> served.overtaken)
  BY <1>3, <1>4, LookupStands
<1>6. calls' = [calls EXCEPT ![c] = call]
  BY <1>2, <1>4 DEF Submit
<1>7. PICK board : board = [boards[o] EXCEPT !.busy = TRUE, !.refused = FALSE, !.submit = c]
  OBVIOUS
<1>8. boards' = [boards EXCEPT ![o] = board]
  BY <1>1, <1>7 DEF Submit, AlertTypeOK
<1>9. /\ board \in Board /\ board.fetch = boards[o].fetch /\ board.list = boards[o].list /\ board.dialog = dialog
      /\ board.submit = c /\ board.busy = TRUE /\ board.refused = FALSE
  BY <1>1, <1>2, <1>7 DEF Board
<1>10. BoardStands(o, board)
  BY <1>1, <1>2, <1>9 DEF BoardStands
<1>11. calls'[c] = call /\ \A d \in AlertCalls : d # c => calls'[d] = calls[d]
  BY <1>1, <1>6 DEF AlertTypeOK
<1>12. FetchIsOwn(o, board, calls'[board.fetch])
  <2>1. board.fetch \in AlertCalls \union {Nil} /\ board.fetch # c
    BY <1>1, <1>9, BoardShape, Waiters
  <2>2. FetchIsOwn(o, boards[o], calls[boards[o].fetch])
    BY DEF AlertInvariant, AnswersAreOwn
  <2> QED BY <1>9, <1>11, <2>1, <2>2 DEF FetchIsOwn
<1>13. SubmitIsOwn(o, board, calls'[board.submit])
  <2>1. ~call.old /\ call.step = "loaded" /\ call.alert \notin DOMAIN call.list => Ended(dialog.alert, dialog.episode)
    BY <1>1, <1>2, <1>5 DEF BoardStands, DialogIsPast, Lacking
  <2> QED BY <1>2, <1>5, <1>9, <1>11, <2>1 DEF SubmitIsOwn
<1>14. \A p \in Operators \ {o} : boards[p].fetch # c /\ boards[p].submit # c
  BY <1>1, Waiters
<1>15. submits' \in 0..MaxSubmits
  BY <1>1, AlertAssumption DEF AlertTypeOK
<1> QED BY <1>1, <1>5, <1>6, <1>8, <1>9, <1>10, <1>12, <1>13, <1>14, <1>15, PageMoves

LEMMA SuccessStands ==
  ASSUME AlertInvariant, NEW o \in Operators, NEW c \in AlertCalls, SubmitSucceeds(o, c)
  PROVE  Onward /\ AlertInvariant'
<1>1. /\ AlertTypeOK /\ boards[o] \in Board /\ c = boards[o].submit /\ c # Nil /\ calls[c].step = "done"
      /\ BoardStands(o, boards[o]) /\ UNCHANGED <<firing, acks, served, submits, outages, changes>>
  BY AlertAssumption DEF AlertInvariant, SubmitSucceeds, AlertTypeOK, BoardsStand
<1>2. PICK call : call = Lookup(o, "list", Nil)
  OBVIOUS
<1>3. call \in Call /\ CallStands(call) /\ call # Nil /\ call.operator = o /\ call.kind = "list"
  BY <1>2, LookupStands
<1>4. calls' = [calls EXCEPT ![c] = call]
  BY <1>2 DEF SubmitSucceeds
<1>5. PICK board : board = [boards[o] EXCEPT !.dialog = Nil, !.submit = Nil, !.fetch = c]
  OBVIOUS
<1>6. boards' = [boards EXCEPT ![o] = board]
  BY <1>1, <1>5 DEF SubmitSucceeds, AlertTypeOK
<1>7. /\ board \in Board /\ board.fetch = c /\ board.list = boards[o].list /\ board.dialog = Nil
      /\ board.submit = Nil /\ board.busy = boards[o].busy /\ board.refused = boards[o].refused
  BY <1>1, <1>5 DEF Board
<1>8. BoardStands(o, board)
  BY <1>1, <1>7 DEF BoardStands, DialogIsPast
<1>9. calls'[c] = call
  BY <1>1, <1>4 DEF AlertTypeOK
<1>10. FetchIsOwn(o, board, calls'[board.fetch]) /\ SubmitIsOwn(o, board, calls'[board.submit])
  BY <1>3, <1>7, <1>9 DEF FetchIsOwn, SubmitIsOwn
<1>11. calls[c] # Nil /\ calls[c].operator = o
  BY <1>1, Waiters
<1>12. \A p \in Operators \ {o} : boards[p].fetch # c /\ boards[p].submit # c
  BY <1>11, Waiters
<1>13. submits' \in 0..MaxSubmits
  BY <1>1 DEF AlertTypeOK
<1> QED BY <1>1, <1>3, <1>4, <1>6, <1>7, <1>8, <1>10, <1>12, <1>13, PageMoves

LEMMA FailureStands ==
  ASSUME AlertInvariant, NEW o \in Operators, SubmitFails(o)
  PROVE  Onward /\ AlertInvariant'
<1>1. PICK c \in AlertCalls : c = boards[o].submit
  BY BoardShape DEF AlertInvariant, AlertTypeOK, SubmitFails
<1>2. /\ AlertTypeOK /\ boards[o] \in Board /\ c # Nil /\ BoardStands(o, boards[o])
      /\ UNCHANGED <<firing, acks, served, submits, outages, changes>>
  BY AlertAssumption DEF AlertInvariant, SubmitFails, AlertTypeOK, BoardsStand
<1>3. calls[c] \in Call /\ calls[c] # Nil /\ calls[c].operator = o /\ calls[c].kind # "list"
  BY <1>1, Waiters DEF AlertInvariant, AlertTypeOK
<1>4. calls[c].step \in {"refused", "failed"} /\ calls' = [calls EXCEPT ![c] = Nil]
  BY <1>1 DEF SubmitFails
<1>5. PICK refused \in BOOLEAN : refused = (calls[c].step = "refused" /\ ~calls[c].old)
  OBVIOUS
<1>6. PICK board : board = [boards[o] EXCEPT !.busy = FALSE, !.submit = Nil, !.refused = refused]
  OBVIOUS
<1>7. boards' = [boards EXCEPT ![o] = board]
  BY <1>1, <1>2, <1>5, <1>6 DEF SubmitFails, AlertTypeOK
<1>8. /\ board \in Board /\ board.fetch = boards[o].fetch /\ board.list = boards[o].list /\ board.dialog = boards[o].dialog
      /\ board.submit = Nil /\ board.busy = FALSE /\ board.refused = refused
  BY <1>2, <1>6 DEF Board
<1>9. BoardStands(o, board)
  <2>1. SubmitIsOwn(o, boards[o], calls[c])
    BY <1>1 DEF AlertInvariant, AnswersAreOwn
  <2>2. refused => Ended(boards[o].dialog.alert, boards[o].dialog.episode)
    BY <1>1, <1>2, <1>5, <2>1 DEF SubmitIsOwn
  <2> QED BY <1>2, <1>8, <2>2 DEF BoardStands
<1>10. calls'[c] = Nil /\ \A d \in AlertCalls : d # c => calls'[d] = calls[d]
  BY <1>2, <1>4 DEF AlertTypeOK
<1>11. FetchIsOwn(o, board, calls'[board.fetch])
  <2>1. board.fetch \in AlertCalls \union {Nil} /\ board.fetch # c
    BY <1>2, <1>3, <1>8, BoardShape, Waiters
  <2>2. FetchIsOwn(o, boards[o], calls[boards[o].fetch])
    BY DEF AlertInvariant, AnswersAreOwn
  <2> QED BY <1>8, <1>10, <2>1, <2>2 DEF FetchIsOwn
<1>12. SubmitIsOwn(o, board, calls'[board.submit])
  BY <1>8 DEF SubmitIsOwn
<1>13. \A p \in Operators \ {o} : boards[p].fetch # c /\ boards[p].submit # c
  BY <1>3, Waiters
<1>14. submits' \in 0..MaxSubmits /\ CallStands(Nil) /\ calls[c].step # "written"
  BY <1>2, <1>4 DEF AlertTypeOK, CallStands
<1> QED BY <1>2, <1>4, <1>7, <1>8, <1>9, <1>11, <1>12, <1>13, <1>14, PageMoves

LEMMA AlertStarts == AlertInit => AlertInvariant
<1> SUFFICES ASSUME AlertInit PROVE AlertInvariant
  OBVIOUS
<1>1. AlertTypeOK
  <2>1. firing \in [Alerts -> [up : BOOLEAN, episode : 0..MaxEpisodes]] /\ \A a \in Alerts : ~firing[a].up
    BY AlertAssumption DEF AlertInit
  <2>2. acks \in [Alerts -> AckRow \union {Nil}]
    BY AlertAssumption DEF AlertInit, AckRow
  <2>3. calls \in [AlertCalls -> Call \union {Nil}] /\ served \in [list : Lists \union {Nil}, fresh : BOOLEAN, overtaken : BOOLEAN]
    BY DEF AlertInit
  <2>4. boards \in [Operators -> Board]
    BY DEF AlertInit, Board
  <2>5. submits \in 0..MaxSubmits /\ outages \in 0..MaxOutages /\ changes \in Nat
    BY AlertAssumption DEF AlertInit
  <2> QED BY <2>1, <2>2, <2>3, <2>4, <2>5 DEF AlertTypeOK
<1>2. ServedStands /\ ServedOwnershipIsCurrent
  BY DEF AlertInit, ServedStands, ServedOwnershipIsCurrent, IsPast
<1>3. CallsStand
  BY DEF AlertInit, CallsStand, CallStands
<1>4. BoardsStand /\ AnswersAreOwn
  BY DEF AlertInit, BoardsStand, BoardStands, AnswersAreOwn, FetchIsOwn, SubmitIsOwn, IsPast, DialogIsPast
<1> QED BY <1>1, <1>2, <1>3, <1>4 DEF AlertInvariant

LEMMA AlertStep == AlertInvariant /\ [AlertNext]_alertVars => AlertInvariant'
<1> SUFFICES ASSUME AlertInvariant, [AlertNext]_alertVars PROVE AlertInvariant'
  OBVIOUS
<1>1. ASSUME NEW c \in AlertCalls, CallSteps(c) \/ LoadFails(c)
      PROVE  AlertInvariant'
  BY <1>1, FetchStands, AttachStands, StoreStands, LoadFailsStands, RefuseStands, WriteStands, AnswerStands, DropStands
     DEF CallSteps
<1>2. CASE ListExpires
  BY <1>2, ExpiryStands
<1>3. ASSUME NEW o \in Operators, Answers(o) \/ CloseDialog(o)
      PROVE  AlertInvariant'
  BY <1>3, ArrivalStands, FailureStands, SuccessStands, CloseStands DEF Answers
<1>4. ASSUME NEW o \in Operators, NEW c \in AlertCalls, PollBoard(o, c) \/ Submit(o, c)
      PROVE  AlertInvariant'
  BY <1>4, PollStands, SubmitStands
<1>5. ASSUME NEW o \in Operators, NEW a \in Alerts, NEW kind \in {"ack", "resolve"}, OpenDialog(o, a, kind)
      PROVE  AlertInvariant'
  BY <1>5, OpenStands
<1>6. ASSUME NEW a \in Alerts, Fires(a) \/ Ends(a)
      PROVE  AlertInvariant'
  BY <1>6, WorldStands
<1>7. CASE UNCHANGED alertVars
  <2>1. /\ AlertTypeOK' /\ ServedStands' /\ ServedOwnershipIsCurrent'
        /\ UNCHANGED <<firing, acks, served, calls, boards, submits, outages, changes>>
    BY <1>7 DEF alertVars, AlertInvariant, AlertTypeOK, ServedStands, ServedOwnershipIsCurrent, IsPast, Lacking, Ended
  <2>2. Onward
    BY <2>1, Steady DEF Lacking, AlertInvariant
  <2>3. CallsStand' /\ BoardsStand'
    BY <2>1, <2>2, CallsKept, BoardsKept
  <2>4. AnswersAreOwn'
    BY <2>1, <2>2, OwnStays DEF AnswersAreOwn
  <2> QED BY <2>1, <2>3, <2>4 DEF AlertInvariant
<1> QED BY <1>1, <1>2, <1>3, <1>4, <1>5, <1>6, <1>7 DEF AlertNext

\* The invariant of the alerts: lists are of the past, what is loaded of its moment, and
\* answers belong to the page and the dialog that wait for them.
THEOREM AlertsStand == AlertSpec => []AlertInvariant
<1> QED BY AlertStarts, AlertStep, PTL DEF AlertSpec

\* Whoever is shown as the owner of an alert is its owner, but for lists overtaken while they
\* were loaded and writes that are still to be answered.
THEOREM OwnershipIsCurrent == AlertSpec => []ServedOwnershipIsCurrent
<1>1. AlertInvariant => ServedOwnershipIsCurrent
  BY DEF AlertInvariant
<1> QED BY <1>1, AlertsStand, PTL

\* An operator is refused, by an answer that is not old, only what has ended.
THEOREM RefusalsHold == AlertSpec => []RefusalsAreOfEndedAlerts
<1>1. AlertInvariant => RefusalsAreOfEndedAlerts
  BY DEF AlertInvariant, BoardsStand, BoardStands, Ended, RefusalsAreOfEndedAlerts
<1> QED BY <1>1, AlertsStand, PTL

\* The three together: what the alerts promise those who own and watch them.
THEOREM AlertPromiseHolds == AlertSpec => []AlertPromise
<1>1. AlertInvariant => AlertTypeOK
  BY DEF AlertInvariant
<1>2. AlertTypeOK /\ ServedOwnershipIsCurrent /\ RefusalsAreOfEndedAlerts => AlertPromise
  BY DEF AlertPromise
<1> QED BY <1>1, <1>2, AlertsStand, OwnershipIsCurrent, RefusalsHold, PTL


-----------------------------------------------------------------------------
(***************************************************************************)
(* The live tail. Ids are compared as strings, which is how numbers        *)
(* compare as long as they have one width.                                 *)
(***************************************************************************)

\* Of natural numbers there is a least one: what induction is made of here.
LEMMA LeastOf ==
  ASSUME NEW T \in SUBSET Nat, T # {}
  PROVE  \E x \in T : \A y \in T : x <= y
<1>1. PICK x \in T : \A y \in T : ~(<<y, x>> \in OpToRel(<, Nat))
  BY NatLessThanWellFounded, WFMin
<1>2. \A y \in T : ~(y < x)
  BY <1>1 DEF OpToRel
<1> QED BY <1>2

LEMMA IdsAreNumbers ==
  /\ FirstId \in Nat /\ FirstId >= 1 /\ LastId \in Nat
  /\ \A i \in Ids : i \in Nat /\ i >= 1 /\ FirstId <= i /\ i <= LastId
BY IdAssumption DEF Ids

LEMMA HighestOf ==
  ASSUME NEW S \in SUBSET Ids, S # {}
  PROVE  Highest(S) \in S /\ \A j \in S : j <= Highest(S)
<1>1. LastId \in Nat /\ \A i \in S : i \in Nat /\ i <= LastId /\ LastId - i \in Nat
  BY IdsAreNumbers
<1>2. PICK T \in SUBSET Nat : T = {LastId - i : i \in S}
  BY <1>1
<1>3. T # {}
  BY <1>2
<1>4. PICK x \in T : \A y \in T : x <= y
  BY <1>3, LeastOf
<1>5. PICK i \in S : x = LastId - i
  BY <1>2, <1>4
<1>6. \A j \in S : j <= i
  <2> SUFFICES ASSUME NEW j \in S PROVE j <= i
    OBVIOUS
  <2>1. LastId - i <= LastId - j
    BY <1>2, <1>4, <1>5
  <2> QED BY <2>1, <1>1
<1> QED BY <1>6 DEF Highest

LEMMA IdsAreFinite ==
  ASSUME NEW S \in SUBSET Ids
  PROVE  IsFiniteSet(S) /\ Cardinality(S) \in Nat
<1>1. IsFiniteSet(Ids)
  BY IdAssumption, FS_Interval DEF Ids
<1> QED BY <1>1, FS_Subset, FS_CardinalityType

Sorts(seq, S) ==
  /\ seq \in [1..Cardinality(S) -> S]
  /\ \A j, k \in DOMAIN seq : j < k => seq[j] < seq[k]
  /\ \A i \in S : \E k \in DOMAIN seq : seq[k] = i

LEMMA SortedAfter ==
  ASSUME NEW S \in SUBSET Ids, S # {}, NEW seq, Sorts(seq, S \ {Highest(S)})
  PROVE  \E long : Sorts(long, S)
<1>1. PICK top \in S : top = Highest(S) /\ \A j \in S : j <= top
  BY HighestOf
<1>2. PICK n \in Nat : n = Cardinality(S \ {top})
  BY IdsAreFinite
<1>3. Cardinality(S) = n + 1
  <2>1. IsFiniteSet(S \ {top}) /\ top \notin S \ {top} /\ (S \ {top}) \union {top} = S
    BY IdsAreFinite
  <2> QED BY <2>1, <1>2, FS_AddElement
<1>4. seq \in [1..n -> S \ {top}]
  BY <1>1, <1>2 DEF Sorts
<1>5. PICK long : long = [k \in 1..(n + 1) |-> IF k = n + 1 THEN top ELSE seq[k]]
  OBVIOUS
<1>6. /\ \A k \in 1..n : k \in 1..(n + 1) /\ k # n + 1 /\ long[k] = seq[k] /\ long[k] \in S \ {top}
      /\ long[n + 1] = top /\ n + 1 \in 1..(n + 1)
      /\ \A k \in 1..(n + 1) : k \in 1..n \/ k = n + 1
  BY <1>4, <1>5
<1>7. long \in [1..(n + 1) -> S]
  BY <1>5, <1>6
<1>8. \A j, k \in 1..(n + 1) : j < k => long[j] < long[k]
  <2> SUFFICES ASSUME NEW j \in 1..(n + 1), NEW k \in 1..(n + 1), j < k PROVE long[j] < long[k]
    OBVIOUS
  <2>1. j \in 1..n
    BY <1>6
  <2>2. CASE k \in 1..n
    BY <1>4, <1>6, <2>1, <2>2, <1>1, <1>2 DEF Sorts
  <2>3. CASE k = n + 1
    <3>1. long[j] \in S \ {top} /\ long[j] <= top
      BY <1>1, <1>6, <2>1
    <3>2. long[j] \in Nat /\ top \in Nat
      BY <3>1, IdsAreNumbers
    <3> QED BY <1>6, <2>3, <3>1, <3>2
  <2> QED BY <1>6, <2>2, <2>3
<1>9. \A i \in S : \E k \in 1..(n + 1) : long[k] = i
  <2> SUFFICES ASSUME NEW i \in S PROVE \E k \in 1..(n + 1) : long[k] = i
    OBVIOUS
  <2>1. CASE i = top
    BY <1>6, <2>1
  <2>2. CASE i # top
    <3>1. PICK k \in 1..n : seq[k] = i
      BY <1>1, <1>2, <1>4, <2>2 DEF Sorts
    <3> QED BY <1>6, <3>1
  <2> QED BY <2>1, <2>2
<1>10. DOMAIN long = 1..(n + 1)
  BY <1>5
<1> QED BY <1>3, <1>7, <1>8, <1>9, <1>10 DEF Sorts

LEMMA SortedExists ==
  ASSUME NEW S \in SUBSET Ids
  PROVE  \E seq : Sorts(seq, S)
<1> DEFINE Bad == {n \in Nat : \E U \in SUBSET Ids : Cardinality(U) = n /\ ~\E seq : Sorts(seq, U)}
<1>1. Bad = {}
  <2> SUFFICES ASSUME Bad # {} PROVE FALSE
    OBVIOUS
  <2>1. PICK n \in Bad : \A m \in Bad : n <= m
    BY LeastOf
  <2>2. PICK U \in SUBSET Ids : Cardinality(U) = n /\ ~\E seq : Sorts(seq, U)
    OBVIOUS
  <2>3. CASE U = {}
    <3>1. Cardinality(U) = 0
      BY <2>3, FS_EmptySet
    <3>2. Sorts(<<>>, U)
      BY <2>3, <3>1 DEF Sorts
    <3> QED BY <2>2, <3>2
  <2>4. CASE U # {}
    <3>1. Highest(U) \in U /\ U \ {Highest(U)} \in SUBSET Ids
      BY <2>4, HighestOf
    <3>2. IsFiniteSet(U) /\ Cardinality(U \ {Highest(U)}) = n - 1 /\ n \in Nat
      BY <2>2, <3>1, IdsAreFinite, FS_RemoveElement
    <3>3. Cardinality(U \ {Highest(U)}) \in Nat /\ Cardinality(U \ {Highest(U)}) \notin Bad
      BY <2>1, <3>1, <3>2, IdsAreFinite
    <3>4. \E seq : Sorts(seq, U \ {Highest(U)})
      BY <3>1, <3>3
    <3> QED BY <2>2, <2>4, <3>4, SortedAfter
  <2> QED BY <2>3, <2>4
<1> QED BY <1>1, IdsAreFinite

\* The lines of an answer, in order and all of them.
LEMMA AscendingSorts ==
  ASSUME NEW S \in SUBSET Ids
  PROVE  Sorts(Ascending(S), S)
<1>1. PICK seq : Sorts(seq, S)
  BY SortedExists
<1>2. Ascending(S) = CHOOSE lines \in [1..Cardinality(S) -> S] : Sorts(lines, S)
  BY Zenon DEF Sorts, Ascending
<1>3. seq \in [1..Cardinality(S) -> S]
  BY <1>1 DEF Sorts
<1> QED BY <1>1, <1>2, <1>3, Zenon

-----------------------------------------------------------------------------
\* The numbers of digits, and the comparison of strings.
Tens(n) == {d \in {1, 10, 100, 1000} : n >= d}

LEMMA DigitsOf ==
  ASSUME NEW a \in Nat, NEW b \in Nat, a <= b, a >= 1
  PROVE  Digits(a) \in 1..4 /\ Digits(b) \in 1..4 /\ Digits(a) <= Digits(b)
<1>1. Digits(a) = Cardinality(Tens(a)) /\ Digits(b) = Cardinality(Tens(b))
  BY DEF Digits, Tens
<1>2. IsFiniteSet({1, 10, 100, 1000}) /\ Cardinality({1, 10, 100, 1000}) = 4
  <2>1. IsFiniteSet({1}) /\ Cardinality({1}) = 1
    BY FS_Singleton
  <2>2. IsFiniteSet({1, 10}) /\ Cardinality({1, 10}) = 2
    <3>1. {1, 10} = {1} \union {10} /\ 10 \notin {1}
      OBVIOUS
    <3>2. 1 + 1 = 2
      OBVIOUS
    <3> QED BY <2>1, <3>1, <3>2, FS_AddElement
  <2>3. IsFiniteSet({1, 10, 100}) /\ Cardinality({1, 10, 100}) = 3
    <3>1. {1, 10, 100} = {1, 10} \union {100} /\ 100 \notin {1, 10}
      OBVIOUS
    <3>2. 2 + 1 = 3
      OBVIOUS
    <3> QED BY <2>2, <3>1, <3>2, FS_AddElement
  <2>4. {1, 10, 100, 1000} = {1, 10, 100} \union {1000} /\ 1000 \notin {1, 10, 100} /\ 3 + 1 = 4
    OBVIOUS
  <2> QED BY <2>3, <2>4, FS_AddElement
<1>3. Tens(a) \subseteq Tens(b) /\ Tens(b) \subseteq {1, 10, 100, 1000} /\ Tens(a) \subseteq {1, 10, 100, 1000}
  BY DEF Tens
<1>4. IsFiniteSet(Tens(a)) /\ IsFiniteSet(Tens(b)) /\ Cardinality(Tens(a)) <= Cardinality(Tens(b))
  BY <1>2, <1>3, FS_Subset
<1>5. Cardinality(Tens(a)) <= 4 /\ Cardinality(Tens(b)) <= 4
  BY <1>2, <1>3, FS_Subset
<1>6. Cardinality(Tens(a)) \in Nat /\ Cardinality(Tens(b)) \in Nat
  BY <1>4, FS_CardinalityType
<1>7. Cardinality(Tens(a)) # 0
  <2>1. 1 \in Tens(a)
    BY DEF Tens
  <2> QED BY <1>4, <2>1, FS_EmptySet
<1> QED BY <1>1, <1>4, <1>5, <1>6, <1>7

\* Of one width, strings compare as numbers do.
LEMMA AfterIsGreater ==
  ASSUME NEW a \in Ids, NEW b \in Ids, Digits(a) = Digits(b)
  PROVE  After(a, b) <=> a > b
<1>1. a \in Nat /\ b \in Nat /\ a >= 1 /\ b >= 1
  BY IdsAreNumbers
<1>2. PICK digits \in 1..4 : digits = Digits(a)
  <2>1. a <= a
    BY <1>1
  <2> QED BY <1>1, <2>1, DigitsOf
<1>3. After(a, b) <=> a * <<1000, 100, 10, 1>>[digits] > b * <<1000, 100, 10, 1>>[digits]
  BY <1>1, <1>2 DEF After, Filled
<1>4. PICK unit \in {1, 10, 100, 1000} : unit = <<1000, 100, 10, 1>>[digits]
  BY <1>2
<1>5. a * unit > b * unit <=> a > b
  BY <1>1
<1> QED BY <1>3, <1>4, <1>5

Begun == {i \in Ids : i < nextId}

LEMMA OneWidthCompares ==
  ASSUME nextId \in FirstId..LastId + 1, OneWidth, NEW a \in Begun, NEW b \in Begun
  PROVE  After(a, b) <=> a > b
<1>1. /\ a \in Nat /\ a >= FirstId /\ a < nextId /\ b \in Nat /\ b >= FirstId /\ b < nextId
      /\ FirstId \in Nat /\ FirstId >= 1 /\ nextId \in Nat
  BY IdsAreNumbers, IdAssumption DEF Begun
<1>2. nextId - 1 \in Nat /\ a <= nextId - 1 /\ b <= nextId - 1
  BY <1>1
<1>3. /\ Digits(FirstId) <= Digits(a) /\ Digits(a) <= Digits(nextId - 1)
      /\ Digits(FirstId) <= Digits(b) /\ Digits(b) <= Digits(nextId - 1)
  BY <1>1, <1>2, DigitsOf
<1>4. Digits(FirstId) \in 1..4 /\ Digits(a) \in 1..4 /\ Digits(b) \in 1..4 /\ Digits(nextId - 1) \in 1..4
  BY <1>1, <1>2, DigitsOf
<1>5. Digits(nextId - 1) <= Digits(FirstId)
  BY DEF OneWidth
<1>6. Digits(a) = Digits(b)
  BY <1>3, <1>4, <1>5
<1> QED BY <1>6, AfterIsGreater DEF Begun

LEMMA OneWidthLasts ==
  ASSUME nextId \in FirstId..LastId + 1, nextId' \in FirstId..LastId + 1, nextId <= nextId', OneWidth'
  PROVE  OneWidth
<1>1. FirstId \in Nat /\ FirstId >= 1 /\ nextId \in Nat /\ nextId' \in Nat /\ nextId >= 1
  BY IdsAreNumbers, IdAssumption
<1>2. CASE nextId - 1 >= 1
  <2>1. nextId - 1 \in Nat /\ nextId' - 1 \in Nat /\ nextId - 1 <= nextId' - 1
    <3>1. PICK m \in Nat : m = nextId
      BY <1>1
    <3>2. PICK n \in Nat : n = nextId'
      BY <1>1
    <3>3. m >= 1 /\ m <= n
      BY <1>1, <3>1, <3>2
    <3>4. m - 1 \in Nat /\ n - 1 \in Nat /\ m - 1 <= n - 1
      BY <3>3
    <3> QED BY <3>1, <3>2, <3>4
  <2>2. Digits(nextId - 1) <= Digits(nextId' - 1) /\ Digits(nextId - 1) \in 1..4 /\ Digits(nextId' - 1) \in 1..4
    BY <1>2, <2>1, DigitsOf
  <2>3. Digits(FirstId) \in 1..4 /\ Digits(nextId' - 1) <= Digits(FirstId)
    BY <1>1, DigitsOf DEF OneWidth
  <2> QED BY <2>2, <2>3 DEF OneWidth
<1>3. CASE nextId - 1 = 0
  <2>1. Tens(nextId - 1) = {}
    BY <1>3 DEF Tens
  <2>2. Digits(nextId - 1) = 0
    BY <2>1, FS_EmptySet DEF Digits, Tens
  <2>3. Digits(FirstId) \in 1..4
    <3>1. FirstId <= FirstId
      BY <1>1
    <3> QED BY <1>1, <3>1, DigitsOf
  <2>4. 0 <= Digits(FirstId)
    BY <2>3
  <2> QED BY <2>2, <2>4 DEF OneWidth
<1> QED BY <1>1, <1>2, <1>3

-----------------------------------------------------------------------------
(***************************************************************************)
(* What a stream, and what a search of its, keeps to: in all cases, and as *)
(* long as ids have one width.                                             *)
(***************************************************************************)
StreamStands(st, seen) ==
  /\ st.client = "none" => st.cursor = 0 /\ ~st.timers
  /\ st.cursor \in {0} \union seen
  /\ \A k \in DOMAIN st.sent : st.sent[k] \in seen
  /\ st.cursor = 0 => st.sent = <<>>

Accounted(st, lates) == {st.sent[k] : k \in DOMAIN st.sent} \union lates \union st.left

StreamInOrder(st, seen, lates) ==
  /\ \A k \in DOMAIN st.sent : st.sent[k] <= st.cursor
  /\ \A j, k \in DOMAIN st.sent : j < k => st.sent[j] < st.sent[k]
  /\ st.client = "here" => \A i \in seen : i <= st.cursor => i \in Accounted(st, lates)

PollIsSound(poll, seen) ==
  poll.step # "idle" =>
    /\ poll.stream \in Streams
    /\ streams[poll.stream].client # "none"
    /\ poll.items \subseteq seen

PollInOrder(poll, seen, lates) ==
  (poll.step = "answered" /\ streams[poll.stream].client = "here") =>
    \A j \in poll.items : \A i \in seen :
      i <= j => i \in poll.items \union Accounted(streams[poll.stream], lates)

TailInvariant ==
  /\ TailTypeOK
  /\ visible \subseteq Begun /\ \A batch \in writing : batch \subseteq Begun
  /\ \A s \in Streams : StreamStands(streams[s], visible)
  /\ \A q \in Polls : PollIsSound(polls[q], visible)
  /\ OneWidth => \A s \in Streams : StreamInOrder(streams[s], visible, late)
  /\ OneWidth => \A q \in Polls : PollInOrder(polls[q], visible, late)

LEMMA TailStarts == TailInit => TailInvariant
<1> SUFFICES ASSUME TailInit PROVE TailInvariant
  OBVIOUS
<1>1. FirstId \in Nat /\ LastId \in Nat /\ FirstId <= LastId + 1
  BY IdAssumption
<1>2. Closed \in Stream /\ Closed.client = "none" /\ Closed.cursor = 0 /\ Closed.sent = <<>> /\ ~Closed.timers
  BY DEF Closed, Stream
<1>3. NoPoll \in Poll /\ NoPoll.step = "idle"
  BY DEF NoPoll, Poll
<1>4. TailTypeOK
  <2>1. nextId \in FirstId..LastId + 1
    BY <1>1 DEF TailInit
  <2> QED BY <1>2, <1>3, <2>1 DEF TailInit, TailTypeOK
<1>5. \A s \in Streams : streams[s] = Closed /\ StreamStands(streams[s], visible)
  BY <1>2 DEF TailInit, StreamStands
<1>6. \A q \in Polls : polls[q] = NoPoll /\ PollIsSound(polls[q], visible) /\ PollInOrder(polls[q], visible, late)
  BY <1>3 DEF TailInit, PollIsSound, PollInOrder
<1>7. \A s \in Streams : StreamInOrder(streams[s], visible, late)
  BY <1>2, <1>5 DEF StreamInOrder
<1>8. visible \subseteq Begun /\ \A batch \in writing : batch \subseteq Begun
  BY DEF TailInit
<1> QED BY <1>4, <1>5, <1>6, <1>7, <1>8 DEF TailInvariant

-----------------------------------------------------------------------------
\* Steps that leave the streams and the searches alone: the log goes on.
LogOnward ==
  /\ nextId' \in FirstId..LastId + 1 /\ nextId <= nextId'
  /\ visible \subseteq visible' /\ late \subseteq late'
  /\ \A i \in visible' \ visible : (\E j \in visible : j > i) => i \in late'

LEMMA LogGoesOn ==
  ASSUME TailInvariant, LogOnward, TailTypeOK', visible' \subseteq Begun', (\A batch \in writing : batch \subseteq Begun)',
         UNCHANGED <<streams, polls>>
  PROVE  TailInvariant'
<1>1. \A s \in Streams : StreamStands(streams[s], visible')
  BY DEF TailInvariant, StreamStands, LogOnward
<1>2. \A q \in Polls : PollIsSound(polls[q], visible')
  BY DEF TailInvariant, PollIsSound, LogOnward
<1>3. OneWidth' => OneWidth
  BY OneWidthLasts DEF TailInvariant, TailTypeOK, LogOnward
<1>4. visible \subseteq Ids /\ visible' \subseteq Ids /\ \A i \in Ids : i \in Nat /\ i >= 1
  BY IdsAreNumbers DEF TailTypeOK, TailInvariant
<1>5. ASSUME NEW i \in visible', NEW j \in {0} \union visible, i <= j, i \notin visible
      PROVE  i \in late'
  <2>1. j \in visible /\ j > i
    BY <1>4, <1>5
  <2> QED BY <2>1, <1>5 DEF LogOnward
<1>6. ASSUME OneWidth', NEW s \in Streams PROVE StreamInOrder(streams[s], visible', late')
  <2>1. StreamInOrder(streams[s], visible, late) /\ StreamStands(streams[s], visible)
    BY <1>3, <1>6 DEF TailInvariant
  <2>2. \A i \in visible' : i <= streams[s].cursor /\ i \notin visible => i \in late'
    BY <2>1, <1>5 DEF StreamStands
  <2> QED BY <2>1, <2>2 DEF StreamInOrder, LogOnward, Accounted
<1>7. ASSUME OneWidth', NEW q \in Polls PROVE PollInOrder(polls[q], visible', late')
  <2>1. PollInOrder(polls[q], visible, late) /\ PollIsSound(polls[q], visible)
    BY <1>3, <1>7 DEF TailInvariant
  <2>2. ASSUME polls[q].step = "answered", NEW j \in polls[q].items, NEW i \in visible', i <= j, i \notin visible
        PROVE  i \in late'
    BY <2>1, <1>5, <2>2 DEF PollIsSound
  <2> QED BY <2>1, <2>2 DEF PollInOrder, LogOnward, Accounted
<1>8. (\A s \in Streams : StreamStands(streams[s], visible))'
  BY <1>1
<1>9. (\A q \in Polls : PollIsSound(polls[q], visible))'
  BY <1>2 DEF PollIsSound
<1>10. (OneWidth => \A s \in Streams : StreamInOrder(streams[s], visible, late))'
  BY <1>6
<1>11. (OneWidth => \A q \in Polls : PollInOrder(polls[q], visible, late))'
  BY <1>7 DEF PollInOrder
<1> QED BY <1>8, <1>9, <1>10, <1>11 DEF TailInvariant

LEMMA LogWrites ==
  ASSUME TailInvariant, LogNext \/ \E i \in Ids : GetsOld(i)
  PROVE  TailInvariant'
<1>1. FirstId \in Nat /\ LastId \in Nat /\ nextId \in Nat /\ nextId >= FirstId /\ nextId <= LastId + 1
  BY IdAssumption DEF TailInvariant, TailTypeOK
<1>2. CASE InsertBegins
  <2>1. PICK n \in 1..MaxBatch : /\ nextId + n - 1 <= LastId
                                 /\ writing' = writing \union {nextId..nextId + n - 1}
                                 /\ nextId' = nextId + n
    BY <1>2 DEF InsertBegins
  <2>2. n \in Nat /\ n >= 1
    BY <2>1, LimitAssumption
  <2>3. UNCHANGED <<visible, old, late, streams, polls>>
    BY <1>2 DEF InsertBegins
  <2>4. nextId' \in FirstId..LastId + 1 /\ nextId <= nextId'
    BY <1>1, <2>1, <2>2
  <2>5. nextId..nextId + n - 1 \subseteq Begun'
    <3> SUFFICES ASSUME NEW i \in nextId..nextId + n - 1 PROVE i \in Ids /\ i < nextId'
      BY DEF Begun
    <3> QED BY <1>1, <2>1, <2>2 DEF Ids
  <2>6. Begun \subseteq Begun'
    BY <1>1, <2>1, <2>2, IdsAreNumbers DEF Begun
  <2>7. visible' \subseteq Begun' /\ (\A batch \in writing : batch \subseteq Begun)'
    BY <2>1, <2>3, <2>5, <2>6 DEF TailInvariant
  <2>8. nextId..nextId + n - 1 \in SUBSET Ids
    BY <2>5 DEF Begun
  <2>9. TailTypeOK'
    BY <2>1, <2>3, <2>4, <2>8 DEF TailInvariant, TailTypeOK
  <2>10. LogOnward
    BY <2>3, <2>4 DEF LogOnward
  <2> QED BY <2>3, <2>7, <2>9, <2>10, LogGoesOn
<1>3. ASSUME NEW batch \in writing, InsertCommits(batch) PROVE TailInvariant'
  <2>1. /\ visible' = visible \union batch
        /\ late' = late \union {i \in batch : \E j \in visible : j > i}
        /\ writing' = writing \ {batch}
        /\ UNCHANGED <<nextId, old, streams, polls>>
    BY <1>3 DEF InsertCommits
  <2>2. batch \subseteq Begun /\ batch \subseteq Ids
    BY DEF TailInvariant, Begun
  <2>3. TailTypeOK'
    BY <2>1, <2>2 DEF TailInvariant, TailTypeOK
  <2>4. visible' \subseteq Begun' /\ (\A b \in writing : b \subseteq Begun)'
    BY <2>1, <2>2 DEF TailInvariant, Begun
  <2>5. LogOnward
    BY <1>1, <2>1 DEF LogOnward
  <2> QED BY <2>1, <2>3, <2>4, <2>5, LogGoesOn
<1>4. ASSUME NEW batch \in writing, InsertFails(batch) PROVE TailInvariant'
  <2>1. writing' = writing \ {batch} /\ UNCHANGED <<nextId, visible, old, late, streams, polls>>
    BY <1>4 DEF InsertFails
  <2>2. TailTypeOK' /\ visible' \subseteq Begun' /\ (\A b \in writing : b \subseteq Begun)'
    BY <2>1 DEF TailInvariant, TailTypeOK, Begun
  <2>3. LogOnward
    BY <1>1, <2>1 DEF LogOnward
  <2> QED BY <2>1, <2>2, <2>3, LogGoesOn
<1>5. ASSUME NEW i \in Ids, GetsOld(i) PROVE TailInvariant'
  <2>1. i \in visible /\ old' = old \union {i} /\ UNCHANGED <<nextId, writing, visible, late, streams, polls>>
    BY <1>5 DEF GetsOld
  <2>2. TailTypeOK' /\ visible' \subseteq Begun' /\ (\A b \in writing : b \subseteq Begun)'
    BY <2>1 DEF TailInvariant, TailTypeOK, Begun
  <2>3. LogOnward
    BY <1>1, <2>1 DEF LogOnward
  <2> QED BY <2>1, <2>2, <2>3, LogGoesOn
<1> QED BY <1>2, <1>3, <1>4, <1>5 DEF LogNext

-----------------------------------------------------------------------------
\* Steps that leave the log alone: what there is to show for the streams and searches.
SameLog == UNCHANGED <<nextId, writing, visible, old, late>>

LEMMA TailFollows ==
  ASSUME TailInvariant, SameLog,
         streams' \in [Streams -> Stream], polls' \in [Polls -> Poll],
         \A s \in Streams : StreamStands(streams'[s], visible),
         \A q \in Polls : polls'[q].step # "idle" =>
           /\ polls'[q].stream \in Streams
           /\ streams'[polls'[q].stream].client # "none"
           /\ polls'[q].items \subseteq visible,
         OneWidth => \A s \in Streams : StreamInOrder(streams'[s], visible, late),
         OneWidth => \A q \in Polls :
           (polls'[q].step = "answered" /\ streams'[polls'[q].stream].client = "here") =>
             \A j \in polls'[q].items : \A i \in visible :
               i <= j => i \in polls'[q].items \union Accounted(streams'[polls'[q].stream], late)
  PROVE  TailInvariant'
<1>1. nextId' = nextId /\ writing' = writing /\ visible' = visible /\ old' = old /\ late' = late
  BY DEF SameLog
<1>2. TailTypeOK'
  BY <1>1 DEF TailInvariant, TailTypeOK
<1>3. (visible \subseteq Begun /\ \A batch \in writing : batch \subseteq Begun)'
  BY <1>1 DEF TailInvariant, Begun
<1>4. (\A s \in Streams : StreamStands(streams[s], visible))'
  BY <1>1 DEF StreamStands
<1>5. (\A q \in Polls : PollIsSound(polls[q], visible))'
  BY <1>1 DEF PollIsSound
<1>6. OneWidth' => OneWidth
  BY <1>1 DEF OneWidth
<1>7. (OneWidth => \A s \in Streams : StreamInOrder(streams[s], visible, late))'
  BY <1>1, <1>6 DEF StreamInOrder, Accounted
<1>8. (OneWidth => \A q \in Polls : PollInOrder(polls[q], visible, late))'
  BY <1>1, <1>6 DEF PollInOrder, Accounted
<1> QED BY <1>2, <1>3, <1>4, <1>5, <1>7, <1>8 DEF TailInvariant

(***************************************************************************)
(* A stream that changes keeps what it has sent and left out, and its      *)
(* cursor, or moves on as its new value shows.                             *)
(***************************************************************************)
LEMMA StreamFollows ==
  ASSUME TailInvariant, SameLog, NEW s \in Streams, NEW st \in Stream,
         streams' = [streams EXCEPT ![s] = st],
         StreamStands(st, visible),
         st.client = "none" => streams[s].client = "none",
         st.client = "here" => streams[s].client = "here" \/ streams[s].client = "none",
         OneWidth => StreamInOrder(st, visible, late),
         Accounted(streams[s], late) \subseteq Accounted(st, late),
         polls' \in [Polls -> Poll],
         \A q \in Polls : polls'[q] = polls[q] \/ polls'[q] = NoPoll
                          \/ (/\ polls'[q].step = "asked" /\ polls'[q].stream \in Streams
                              /\ streams'[polls'[q].stream].client # "none" /\ polls'[q].items = {})
  PROVE  TailInvariant'
<1>1. /\ streams' \in [Streams -> Stream] /\ streams'[s] = st
      /\ \A r \in Streams : r # s => streams'[r] = streams[r]
  BY DEF TailInvariant, TailTypeOK
<1>2. \A r \in Streams : StreamStands(streams'[r], visible)
  BY <1>1 DEF TailInvariant
<1>3. OneWidth => \A r \in Streams : StreamInOrder(streams'[r], visible, late)
  BY <1>1 DEF TailInvariant
<1>4. NoPoll.step = "idle"
  BY DEF NoPoll
<1>5. ASSUME NEW q \in Polls, polls'[q].step # "idle"
      PROVE  /\ polls'[q].stream \in Streams
             /\ streams'[polls'[q].stream].client # "none"
             /\ polls'[q].items \subseteq visible
  <2>1. CASE polls'[q] = polls[q]
    <3>1. PollIsSound(polls[q], visible)
      BY DEF TailInvariant
    <3> QED BY <1>1, <1>5, <2>1, <3>1 DEF PollIsSound
  <2> QED BY <1>4, <1>5, <2>1
<1>6. ASSUME OneWidth, NEW q \in Polls, polls'[q].step = "answered", streams'[polls'[q].stream].client = "here",
             NEW j \in polls'[q].items, NEW i \in visible, i <= j
      PROVE  i \in polls'[q].items \union Accounted(streams'[polls'[q].stream], late)
  <2>1. polls'[q] = polls[q]
    BY <1>4, <1>6
  <2>2. PollIsSound(polls[q], visible) /\ PollInOrder(polls[q], visible, late)
    BY <1>6 DEF TailInvariant
  <2>3. polls[q].stream \in Streams /\ streams[polls[q].stream].client # "none"
    BY <1>6, <2>1, <2>2 DEF PollIsSound
  <2>4. streams[polls[q].stream].client = "here"
    BY <1>1, <1>6, <2>1, <2>3
  <2>5. i \in polls[q].items \union Accounted(streams[polls[q].stream], late)
    BY <1>6, <2>1, <2>2, <2>4 DEF PollInOrder
  <2> QED BY <1>1, <2>1, <2>3, <2>5
<1> QED BY <1>1, <1>2, <1>3, <1>5, <1>6, TailFollows

LEMMA SearchBegins ==
  ASSUME TailInvariant, NEW q \in Polls, NEW s \in Streams, BeginSearch(q, s)
  PROVE  /\ polls' \in [Polls -> Poll]
         /\ \A p \in Polls : polls'[p] = polls[p]
              \/ (polls'[p].step = "asked" /\ polls'[p].stream = s /\ polls'[p].items = {})
<1>1. PICK poll : poll = [step |-> "asked", stream |-> s, backlog |-> streams[s].cursor = 0, items |-> {}]
  OBVIOUS
<1>2. poll \in Poll /\ poll.step = "asked" /\ poll.stream = s /\ poll.items = {}
  BY <1>1 DEF Poll
<1>3. polls' = [polls EXCEPT ![q] = poll]
  BY <1>1 DEF BeginSearch
<1>4. polls \in [Polls -> Poll]
  BY DEF TailInvariant, TailTypeOK
<1> QED BY <1>2, <1>3, <1>4

\* What concerns order and account is kept by a stream that keeps these fields.
LEMMA StreamKeeps ==
  ASSUME TailInvariant, NEW s \in Streams, NEW st \in Stream,
         st.cursor = streams[s].cursor, st.sent = streams[s].sent, streams[s].left \subseteq st.left,
         st.client # "none",
         st.client = "here" => streams[s].client = "here" \/ streams[s].client = "none"
  PROVE  /\ StreamStands(st, visible)
         /\ OneWidth => StreamInOrder(st, visible, late)
         /\ Accounted(streams[s], late) \subseteq Accounted(st, late)
<1>1. StreamStands(streams[s], visible)
  BY DEF TailInvariant
<1>2. StreamStands(st, visible)
  BY <1>1 DEF StreamStands
<1>3. Accounted(streams[s], late) \subseteq Accounted(st, late)
  BY DEF Accounted
<1>4. ASSUME OneWidth PROVE StreamInOrder(st, visible, late)
  <2>1. StreamInOrder(streams[s], visible, late)
    BY <1>4 DEF TailInvariant
  <2>2. ASSUME st.client = "here", NEW i \in visible, i <= st.cursor PROVE i \in Accounted(st, late)
    <3>1. CASE streams[s].client = "here"
      BY <1>3, <2>1, <2>2, <3>1 DEF StreamInOrder
    <3>2. CASE streams[s].client = "none"
      <4>1. st.cursor = 0
        BY <1>1, <3>2 DEF StreamStands
      <4>2. i \in Nat /\ i >= 1
        BY IdsAreNumbers DEF TailInvariant, TailTypeOK
      <4> QED BY <2>2, <4>1, <4>2
    <3> QED BY <2>2, <3>1, <3>2
  <2> QED BY <2>1, <2>2 DEF StreamInOrder
<1> QED BY <1>2, <1>3, <1>4

LEMMA StreamFields ==
  ASSUME NEW st \in Stream
  PROVE  /\ st.client \in {"none", "here", "gone"} /\ st.watched \in BOOLEAN /\ st.timers \in BOOLEAN
         /\ st.cursor \in {0} \union Ids /\ st.sent \in Seq(Ids) /\ st.left \in SUBSET Ids
BY DEF Stream

LEMMA OpenKeeps ==
  ASSUME TailInvariant, NEW s \in Streams, NEW q \in Polls, Open(s, q)
  PROVE  TailInvariant'
<1>1. streams[s] \in Stream /\ streams[s].client = "none"
  BY DEF Open, TailInvariant, TailTypeOK
<1>2. PICK st : st = [streams[s] EXCEPT !.client = "here"]
  OBVIOUS
<1>3. /\ st \in Stream /\ st.client = "here" /\ st.cursor = streams[s].cursor
      /\ st.sent = streams[s].sent /\ st.left = streams[s].left
  BY <1>1, <1>2 DEF Stream
<1>4. streams' = [streams EXCEPT ![s] = st]
  BY <1>2 DEF Open
<1>5. SameLog
  BY DEF Open, SameLog
<1>6. /\ polls' \in [Polls -> Poll]
      /\ \A p \in Polls : polls'[p] = polls[p]
           \/ (polls'[p].step = "asked" /\ polls'[p].stream = s /\ polls'[p].items = {})
  BY SearchBegins DEF Open
<1>7. streams'[s].client # "none"
  BY <1>3, <1>4 DEF TailInvariant, TailTypeOK
<1>8. /\ StreamStands(st, visible)
      /\ OneWidth => StreamInOrder(st, visible, late)
      /\ Accounted(streams[s], late) \subseteq Accounted(st, late)
  BY <1>1, <1>3, StreamKeeps
<1>9. \A p \in Polls : polls'[p] = polls[p] \/ polls'[p] = NoPoll
        \/ (/\ polls'[p].step = "asked" /\ polls'[p].stream \in Streams
            /\ streams'[polls'[p].stream].client # "none" /\ polls'[p].items = {})
  BY <1>6, <1>7
<1> QED BY <1>1, <1>3, <1>4, <1>5, <1>6, <1>8, <1>9, StreamFollows

\* Timers run of streams that were opened.
LEMMA HangUpKeeps ==
  ASSUME TailInvariant, NEW s \in Streams, HangUp(s)
  PROVE  TailInvariant'
<1>1. streams[s] \in Stream /\ streams[s].client = "here"
  BY DEF HangUp, TailInvariant, TailTypeOK
<1>2. PICK st : st = [streams[s] EXCEPT !.client = "gone", !.timers = @ /\ ~streams[s].watched]
  OBVIOUS
<1>3. /\ st \in Stream /\ st.client = "gone" /\ st.cursor = streams[s].cursor
      /\ st.sent = streams[s].sent /\ st.left = streams[s].left
  <2>1. (streams[s].timers /\ ~streams[s].watched) \in BOOLEAN
    OBVIOUS
  <2>2. st = [client |-> "gone", watched |-> streams[s].watched, timers |-> streams[s].timers /\ ~streams[s].watched,
              cursor |-> streams[s].cursor, sent |-> streams[s].sent, left |-> streams[s].left]
    BY <1>1, <1>2 DEF Stream
  <2> QED BY <1>1, <2>1, <2>2, StreamFields DEF Stream
<1>4. streams' = [streams EXCEPT ![s] = st]
  BY <1>2 DEF HangUp
<1>5. SameLog /\ polls' = polls
  BY DEF HangUp, SameLog
<1>6. /\ StreamStands(st, visible)
      /\ OneWidth => StreamInOrder(st, visible, late)
      /\ Accounted(streams[s], late) \subseteq Accounted(st, late)
  BY <1>1, <1>3, StreamKeeps
<1>7. polls' \in [Polls -> Poll] /\ \A p \in Polls : polls'[p] = polls[p]
  BY <1>5 DEF TailInvariant, TailTypeOK
<1> QED BY <1>1, <1>3, <1>4, <1>5, <1>6, <1>7, StreamFollows

LEMMA TickKeeps ==
  ASSUME TailInvariant, NEW s \in Streams, NEW q \in Polls, Tick(s, q)
  PROVE  TailInvariant'
<1>1. streams[s] \in Stream /\ streams[s].timers /\ StreamStands(streams[s], visible)
  BY DEF Tick, TailInvariant, TailTypeOK
<1>2. streams[s].client # "none"
  BY <1>1 DEF StreamStands
<1>3. SameLog /\ streams' = streams /\ streams \in [Streams -> Stream]
  BY DEF Tick, SameLog, TailInvariant, TailTypeOK
<1>4. streams' = [streams EXCEPT ![s] = streams[s]]
  BY <1>3
<1>5. /\ polls' \in [Polls -> Poll]
      /\ \A p \in Polls : polls'[p] = polls[p]
           \/ (polls'[p].step = "asked" /\ polls'[p].stream = s /\ polls'[p].items = {})
  BY SearchBegins DEF Tick
<1>6. /\ StreamStands(streams[s], visible)
      /\ OneWidth => StreamInOrder(streams[s], visible, late)
  BY DEF TailInvariant
<1>7. \A p \in Polls : polls'[p] = polls[p] \/ polls'[p] = NoPoll
        \/ (/\ polls'[p].step = "asked" /\ polls'[p].stream \in Streams
            /\ streams'[polls'[p].stream].client # "none" /\ polls'[p].items = {})
  BY <1>2, <1>3, <1>5
<1> QED BY <1>1, <1>2, <1>3, <1>4, <1>5, <1>6, <1>7, StreamFollows

LEMMA SearchKeeps ==
  ASSUME TailInvariant, NEW q \in Polls, Search(q)
  PROVE  TailInvariant'
<1>1. PICK s : s = polls[q].stream
  OBVIOUS
<1>2. PICK found : found = Newest(IF polls[q].backlog THEN visible \ old ELSE visible)
  OBVIOUS
<1>3. /\ polls[q].step = "asked"
      /\ polls' = [polls EXCEPT ![q].step = "answered", ![q].items = found]
      /\ streams' = [streams EXCEPT ![s].left = @ \union {i \in visible \ found : i > streams[s].cursor}]
      /\ SameLog
  BY <1>1, <1>2 DEF Search, SameLog
<1>4. s \in Streams /\ streams[s].client # "none" /\ streams[s] \in Stream /\ polls[q] \in Poll
      /\ polls \in [Polls -> Poll] /\ streams \in [Streams -> Stream]
  BY <1>1, <1>3 DEF TailInvariant, TailTypeOK, PollIsSound
<1>5. found \subseteq visible /\ visible \subseteq Ids
  BY <1>2 DEF Newest, TailInvariant, TailTypeOK
<1>6. PICK missed : missed = {i \in visible \ found : i > streams[s].cursor}
  OBVIOUS
<1>7. PICK st : st = [streams[s] EXCEPT !.left = @ \union missed]
  OBVIOUS
<1>8. /\ st \in Stream /\ st.client = streams[s].client /\ st.cursor = streams[s].cursor
      /\ st.sent = streams[s].sent /\ st.left = streams[s].left \union missed
  <2>1. streams[s].left \union missed \in SUBSET Ids
    BY <1>4, <1>5, <1>6, StreamFields
  <2> QED BY <1>4, <1>7, <2>1 DEF Stream
<1>9. streams' = [streams EXCEPT ![s] = st]
  BY <1>3, <1>6, <1>7
<1>10. PICK poll : poll = [polls[q] EXCEPT !.step = "answered", !.items = found]
  OBVIOUS
<1>11. poll \in Poll /\ poll.step = "answered" /\ poll.stream = s /\ poll.items = found
  BY <1>1, <1>4, <1>5, <1>10 DEF Poll
<1>12. polls' = [polls EXCEPT ![q] = poll]
  BY <1>3, <1>10
<1>13. /\ polls' \in [Polls -> Poll] /\ polls'[q] = poll
       /\ \A p \in Polls : p # q => polls'[p] = polls[p]
       /\ streams' \in [Streams -> Stream] /\ streams'[s] = st
       /\ \A r \in Streams : r # s => streams'[r] = streams[r]
  BY <1>4, <1>8, <1>9, <1>11, <1>12
<1>14. /\ StreamStands(st, visible)
       /\ OneWidth => StreamInOrder(st, visible, late)
       /\ Accounted(streams[s], late) \subseteq Accounted(st, late)
  BY <1>4, <1>8, StreamKeeps, StreamFields
<1>15. \A r \in Streams : StreamStands(streams'[r], visible)
  BY <1>13, <1>14 DEF TailInvariant
<1>16. OneWidth => \A r \in Streams : StreamInOrder(streams'[r], visible, late)
  BY <1>13, <1>14 DEF TailInvariant
<1>17. \A r \in Streams : streams'[r].client = streams[r].client
                          /\ Accounted(streams[r], late) \subseteq Accounted(streams'[r], late)
  BY <1>8, <1>13, <1>14
<1>18. ASSUME NEW p \in Polls, polls'[p].step # "idle"
       PROVE  /\ polls'[p].stream \in Streams
              /\ streams'[polls'[p].stream].client # "none"
              /\ polls'[p].items \subseteq visible
  <2>1. CASE p = q
    BY <1>4, <1>5, <1>8, <1>11, <1>13, <2>1
  <2>2. CASE p # q
    <3>1. PollIsSound(polls[p], visible) /\ polls'[p] = polls[p]
      BY <1>13, <2>2 DEF TailInvariant
    <3> QED BY <1>17, <1>18, <3>1 DEF PollIsSound
  <2> QED BY <2>1, <2>2
<1>19. ASSUME OneWidth, NEW p \in Polls, polls'[p].step = "answered", streams'[polls'[p].stream].client = "here",
              NEW j \in polls'[p].items, NEW i \in visible, i <= j
       PROVE  i \in polls'[p].items \union Accounted(streams'[polls'[p].stream], late)
  <2>1. CASE p = q
    <3>1. st.client = "here" /\ polls'[p].items = found /\ polls'[p].stream = s
      BY <1>11, <1>13, <1>19, <2>1
    <3>2. CASE i \in found
      BY <3>1, <3>2
    <3>3. CASE i \in missed
      BY <1>8, <1>13, <3>1, <3>3 DEF Accounted
    <3>4. CASE i \notin found /\ i \notin missed
      <4>1. i \in Nat /\ streams[s].cursor \in Nat /\ ~(i > streams[s].cursor)
        BY <1>4, <1>5, <1>6, <3>4, IdsAreNumbers, StreamFields
      <4>2. i <= st.cursor
        BY <1>8, <4>1
      <4> QED BY <1>13, <1>14, <1>19, <3>1, <4>2 DEF StreamInOrder
    <3> QED BY <3>2, <3>3, <3>4
  <2>2. CASE p # q
    <3>1. polls'[p] = polls[p] /\ PollIsSound(polls[p], visible) /\ PollInOrder(polls[p], visible, late)
      BY <1>13, <1>19, <2>2 DEF TailInvariant
    <3>2. polls[p].stream \in Streams
      BY <1>19, <3>1 DEF PollIsSound
    <3>3. streams[polls[p].stream].client = "here"
      BY <1>17, <1>19, <3>1, <3>2
    <3>4. i \in polls[p].items \union Accounted(streams[polls[p].stream], late)
      BY <1>19, <3>1, <3>3 DEF PollInOrder
    <3> QED BY <1>17, <3>1, <3>2, <3>4
  <2> QED BY <2>1, <2>2
<1> QED BY <1>3, <1>13, <1>15, <1>16, <1>18, <1>19, TailFollows

\* The fields of a stream that has got an answer, or was told of a failure.
LEMMA ListeningKeeps ==
  ASSUME NEW st \in Stream
  PROVE  /\ Listening(st) \in Stream
         /\ Listening(st).client = st.client /\ Listening(st).cursor = st.cursor
         /\ Listening(st).sent = st.sent /\ Listening(st).left = st.left
         /\ Listening(st).watched
         /\ st.watched => Listening(st).timers = st.timers
BY DEF Listening, Stream

LEMMA PollFailsKeeps ==
  ASSUME TailInvariant, NEW q \in Polls, PollFails(q)
  PROVE  TailInvariant'
<1>1. PICK s : s = polls[q].stream
  OBVIOUS
<1>2. /\ polls[q].step = "asked"
      /\ streams' = [streams EXCEPT ![s] = Listening(@)]
      /\ polls' = [polls EXCEPT ![q] = NoPoll]
      /\ SameLog
  BY <1>1 DEF PollFails, SameLog
<1>3. s \in Streams /\ streams[s].client # "none" /\ streams[s] \in Stream /\ polls \in [Polls -> Poll]
  BY <1>1, <1>2 DEF TailInvariant, TailTypeOK, PollIsSound
<1>4. PICK st : st = Listening(streams[s])
  OBVIOUS
<1>5. /\ st \in Stream /\ st.client = streams[s].client /\ st.cursor = streams[s].cursor
      /\ st.sent = streams[s].sent /\ st.left = streams[s].left
  BY <1>3, <1>4, ListeningKeeps
<1>6. streams' = [streams EXCEPT ![s] = st]
  BY <1>2, <1>4
<1>7. NoPoll \in Poll
  BY DEF NoPoll, Poll
<1>8. polls' \in [Polls -> Poll] /\ \A p \in Polls : polls'[p] = polls[p] \/ polls'[p] = NoPoll
  BY <1>2, <1>3, <1>7
<1>9. /\ StreamStands(st, visible)
      /\ OneWidth => StreamInOrder(st, visible, late)
      /\ Accounted(streams[s], late) \subseteq Accounted(st, late)
  BY <1>3, <1>5, StreamKeeps, StreamFields
<1> QED BY <1>2, <1>3, <1>5, <1>6, <1>8, <1>9, StreamFollows

\* What is fresh is of the answer, and past the cursor.
LEMMA FreshLines ==
  ASSUME TailInvariant, NEW poll \in Poll, NEW cursor \in {0} \union visible, poll.items \subseteq visible
  PROVE  /\ Fresh(poll, cursor) \subseteq poll.items
         /\ Fresh(poll, cursor) \in SUBSET Ids
         /\ OneWidth => Fresh(poll, cursor) = {i \in poll.items : i > cursor}
<1>1. visible \subseteq Ids /\ visible \subseteq Begun /\ nextId \in FirstId..LastId + 1
  BY DEF TailInvariant, TailTypeOK
<1>2. Fresh(poll, cursor) \subseteq poll.items /\ Fresh(poll, cursor) \in SUBSET Ids
  BY <1>1 DEF Fresh
<1>3. ASSUME OneWidth, cursor = 0 PROVE Fresh(poll, cursor) = {i \in poll.items : i > cursor}
  <2>1. \A i \in poll.items : i > cursor
    BY <1>1, <1>3, IdsAreNumbers
  <2> QED BY <1>3, <2>1 DEF Fresh
<1>4. ASSUME OneWidth, cursor # 0 PROVE Fresh(poll, cursor) = {i \in poll.items : i > cursor}
  <2>1. cursor \in Begun /\ poll.items \subseteq Begun
    BY <1>1, <1>4
  <2>2. \A i \in poll.items : After(i, cursor) <=> i > cursor
    BY <1>1, <1>4, <2>1, OneWidthCompares
  <2> QED BY <1>4, <2>2 DEF Fresh
<1> QED BY <1>2, <1>3, <1>4

\* Lines joined to those sent before.
Joins(joined, sent, m, tail, S) ==
  /\ \A k \in DOMAIN joined : (k \in DOMAIN sent /\ joined[k] = sent[k])
       \/ (k - m \in DOMAIN tail /\ k > m /\ joined[k] = tail[k - m] /\ joined[k] \in S)
  /\ \A k \in DOMAIN sent : k \in DOMAIN joined /\ joined[k] = sent[k] /\ k <= m
  /\ \A i \in S : \E k \in DOMAIN joined : joined[k] = i

LEMMA JoinedLines ==
  ASSUME NEW sent \in Seq(Ids), NEW S \in SUBSET Ids
  PROVE  /\ sent \o Ascending(S) \in Seq(Ids)
         /\ Joins(sent \o Ascending(S), sent, Len(sent), Ascending(S), S)
<1> DEFINE joined == sent \o Ascending(S)
<1>1. PICK n \in Nat : n = Cardinality(S)
  BY IdsAreFinite
<1>2. PICK tail : tail = Ascending(S)
  OBVIOUS
<1>3. tail \in [1..n -> S] /\ \A i \in S : \E k \in DOMAIN tail : tail[k] = i
  BY <1>1, <1>2, AscendingSorts DEF Sorts
<1>4. tail \in Seq(S) /\ tail \in Seq(Ids) /\ Len(tail) = n /\ DOMAIN tail = 1..n
  <2>1. tail \in [1..n -> S] /\ tail \in [1..n -> Ids]
    BY <1>3
  <2>2. tail \in Seq(S) /\ tail \in Seq(Ids)
    BY <2>1, SeqDef
  <2>3. Len(tail) \in Nat /\ DOMAIN tail = 1..Len(tail) /\ DOMAIN tail = 1..n
    BY <2>1, <2>2, LenProperties
  <2>4. Len(tail) = n
    <3>1. PICK m \in Nat : m = Len(tail)
      BY <2>3
    <3>2. 1..m = 1..n
      BY <2>3, <3>1
    <3>3. n < m => m \in 1..m /\ m \notin 1..n
      OBVIOUS
    <3>4. m < n => n \in 1..n /\ n \notin 1..m
      OBVIOUS
    <3> QED BY <3>1, <3>2, <3>3, <3>4
  <2> QED BY <2>2, <2>3, <2>4
<1>5. PICK m \in Nat : m = Len(sent)
  OBVIOUS
<1>6. DOMAIN sent = 1..m
  BY <1>5, LenProperties
<1>7. joined \in Seq(Ids) /\ Len(joined) = m + n
      /\ \A k \in 1..(m + n) : joined[k] = IF k <= m THEN sent[k] ELSE tail[k - m]
  BY <1>2, <1>4, <1>5, ConcatProperties
<1>8. DOMAIN joined = 1..(m + n)
  BY <1>1, <1>5, <1>7, LenProperties
<1>9. \A k \in 1..(m + n) : k \in 1..m \/ (k - m \in 1..n /\ k > m)
  OBVIOUS
<1>10. \A k \in 1..m : k \in 1..(m + n) /\ k <= m
  OBVIOUS
<1>11. ASSUME NEW k \in DOMAIN joined
       PROVE  (k \in DOMAIN sent /\ joined[k] = sent[k])
              \/ (k - m \in DOMAIN tail /\ k > m /\ joined[k] = tail[k - m] /\ joined[k] \in S)
  <2>1. CASE k \in 1..m
    BY <1>6, <1>7, <1>10, <2>1
  <2>2. CASE k - m \in 1..n /\ k > m
    <3>1. ~(k <= m)
      BY <1>8, <2>2
    <3>2. joined[k] = tail[k - m]
      BY <1>7, <1>8, <3>1
    <3> QED BY <1>3, <1>4, <2>2, <3>2
  <2> QED BY <1>8, <1>9, <2>1, <2>2
<1>12. ASSUME NEW i \in S PROVE \E k \in DOMAIN joined : joined[k] = i
  <2>1. PICK k \in 1..n : tail[k] = i
    BY <1>3, <1>4
  <2>2. m + k \in 1..(m + n) /\ ~(m + k <= m) /\ (m + k) - m = k
    OBVIOUS
  <2>3. joined[m + k] = i
    BY <1>7, <2>1, <2>2
  <2> QED BY <1>8, <2>2, <2>3
<1>13. \A k \in DOMAIN sent : k \in DOMAIN joined /\ joined[k] = sent[k] /\ k <= m
  BY <1>6, <1>7, <1>8, <1>10
<1>14. Joins(joined, sent, m, tail, S)
  BY <1>11, <1>12, <1>13 DEF Joins
<1> QED BY <1>2, <1>5, <1>7, <1>14

\* A stream that takes an answer in.
LEMMA DeliveredStream ==
  ASSUME TailInvariant, NEW s \in Streams, NEW poll \in Poll, NEW st \in Stream,
         poll.step = "answered", poll.stream = s, poll.items \subseteq visible,
         streams[s].client # "none",
         OneWidth => PollInOrder(poll, visible, late),
         st.client = streams[s].client, st.left = streams[s].left,
         st.cursor = NextCursor(Fresh(poll, streams[s].cursor), streams[s].cursor),
         st.sent = IF streams[s].client = "here" THEN streams[s].sent \o Ascending(Fresh(poll, streams[s].cursor))
                                                 ELSE streams[s].sent
  PROVE  /\ StreamStands(st, visible)
         /\ OneWidth => StreamInOrder(st, visible, late)
         /\ Accounted(streams[s], late) \subseteq Accounted(st, late)
<1>1. PICK was \in Stream : was = streams[s]
  BY DEF TailInvariant, TailTypeOK
<1>2. PICK fresh \in SUBSET Ids : fresh = Fresh(poll, was.cursor)
  BY <1>1, FreshLines DEF TailInvariant, StreamStands
<1>3. StreamStands(was, visible) /\ was.cursor \in {0} \union visible /\ visible \subseteq Ids
  BY <1>1 DEF TailInvariant, TailTypeOK, StreamStands
<1>4. fresh \subseteq poll.items /\ fresh \subseteq visible /\ (OneWidth => fresh = {i \in poll.items : i > was.cursor})
  BY <1>2, <1>3, FreshLines
<1>5. was.cursor \in Nat /\ \A i \in Ids : i \in Nat /\ i >= 1
  BY <1>3, IdsAreNumbers
<1>6. was.sent \in Seq(Ids)
  BY StreamFields
<1>7. \/ fresh = {} /\ st.cursor = was.cursor
      \/ fresh # {} /\ st.cursor \in fresh /\ \A j \in fresh : j <= st.cursor
  BY <1>1, <1>2, HighestOf DEF NextCursor
<1>8. st.cursor \in {0} \union visible /\ st.cursor \in Nat
  BY <1>3, <1>4, <1>5, <1>7
<1>9. CASE st.client # "here"
  <2>1. st.sent = was.sent
    BY <1>1, <1>9
  <2>2. st.cursor = 0 => was.cursor = 0
    BY <1>5, <1>7
  <2>3. StreamStands(st, visible)
    BY <1>1, <1>3, <1>8, <2>1, <2>2 DEF StreamStands
  <2>4. ASSUME OneWidth PROVE StreamInOrder(st, visible, late)
    <3>1. StreamInOrder(was, visible, late)
      BY <1>1, <2>4 DEF TailInvariant
    <3>2. was.cursor <= st.cursor
      <4>1. CASE fresh = {}
        BY <1>5, <1>7, <4>1
      <4>2. CASE fresh # {}
        <5>1. st.cursor > was.cursor
          BY <1>4, <1>7, <2>4, <4>2
        <5> QED BY <1>5, <1>8, <5>1
      <4> QED BY <4>1, <4>2
    <3>3. \A k \in DOMAIN was.sent : was.sent[k] \in Nat /\ was.sent[k] <= st.cursor
      <4> SUFFICES ASSUME NEW k \in DOMAIN was.sent PROVE was.sent[k] \in Nat /\ was.sent[k] <= st.cursor
        OBVIOUS
      <4>1. was.sent[k] \in Nat
        BY <1>3, <1>5 DEF StreamStands
      <4>2. was.sent[k] <= was.cursor
        BY <3>1 DEF StreamInOrder
      <4> QED BY <1>5, <1>8, <3>2, <4>1, <4>2
    <3> QED BY <1>9, <2>1, <3>1, <3>3 DEF StreamInOrder
  <2>5. Accounted(streams[s], late) \subseteq Accounted(st, late)
    BY <1>1, <2>1 DEF Accounted
  <2> QED BY <2>3, <2>4, <2>5
<1>10. CASE st.client = "here"
  <2>1. st.sent = was.sent \o Ascending(fresh)
    BY <1>1, <1>2, <1>10
  <2>2. PICK n \in Nat : n = Len(was.sent)
    BY <1>6, LenProperties
  <2>3. PICK tail : tail = Ascending(fresh)
    OBVIOUS
  <2>4. /\ \A k \in DOMAIN st.sent : (k \in DOMAIN was.sent /\ st.sent[k] = was.sent[k])
             \/ (k - n \in DOMAIN tail /\ k > n /\ st.sent[k] = tail[k - n] /\ st.sent[k] \in fresh)
        /\ \A k \in DOMAIN was.sent : k \in DOMAIN st.sent /\ st.sent[k] = was.sent[k] /\ k <= n
        /\ \A i \in fresh : \E k \in DOMAIN st.sent : st.sent[k] = i
    <3>1. Joins(was.sent \o Ascending(fresh), was.sent, Len(was.sent), Ascending(fresh), fresh)
      BY <1>6, JoinedLines
    <3>2. Joins(st.sent, was.sent, n, tail, fresh)
      BY <2>1, <2>2, <2>3, <3>1
    <3> QED BY <3>2 DEF Joins
  <2>5. \A j, k \in DOMAIN tail : j < k => tail[j] < tail[k]
    BY <2>3, AscendingSorts DEF Sorts
  <2>6. DOMAIN st.sent \subseteq Nat
    <3>1. st.sent \in Seq(Ids)
      BY StreamFields
    <3>2. PICK m \in Nat : m = Len(st.sent)
      BY <3>1, LenProperties
    <3>3. DOMAIN st.sent = 1..m
      BY <3>1, <3>2, LenProperties
    <3>4. 1..m \subseteq Nat
      OBVIOUS
    <3> QED BY <3>3, <3>4
  <2>7. st.cursor = 0 => st.sent = <<>>
    <3> SUFFICES ASSUME st.cursor = 0 PROVE st.sent = <<>>
      OBVIOUS
    <3>1. fresh = {} /\ was.cursor = 0
      BY <1>5, <1>7
    <3>2. was.sent = <<>>
      BY <1>3, <3>1 DEF StreamStands
    <3>3. PICK tail0 : tail0 = Ascending({})
      OBVIOUS
    <3>4. tail0 \in [1..0 -> {}]
      <4>1. Cardinality({}) = 0
        BY FS_EmptySet
      <4> QED BY <3>3, <4>1, AscendingSorts DEF Sorts
    <3>5. tail0 = <<>>
      BY <3>4
    <3>6. st.sent = <<>> \o <<>>
      BY <2>1, <3>1, <3>2, <3>3, <3>5
    <3> QED BY <3>6, <1>6, <3>2, ConcatEmptySeq
  <2>8. \A k \in DOMAIN st.sent : st.sent[k] \in visible
    BY <1>3, <1>4, <2>4 DEF StreamStands
  <2>9. StreamStands(st, visible)
    BY <1>8, <1>10, <2>7, <2>8 DEF StreamStands
  <2>10. Accounted(was, late) \subseteq Accounted(st, late) /\ fresh \subseteq Accounted(st, late)
    <3>1. {was.sent[k] : k \in DOMAIN was.sent} \subseteq {st.sent[k] : k \in DOMAIN st.sent}
      <4> SUFFICES ASSUME NEW k \in DOMAIN was.sent PROVE \E j \in DOMAIN st.sent : st.sent[j] = was.sent[k]
        OBVIOUS
      <4>1. k \in DOMAIN st.sent /\ st.sent[k] = was.sent[k]
        BY <2>4
      <4> QED BY <4>1
    <3>2. fresh \subseteq {st.sent[k] : k \in DOMAIN st.sent}
      <4>1. \A i \in fresh : \E k \in DOMAIN st.sent : st.sent[k] = i
        BY <2>4
      <4> QED BY <4>1
    <3> QED BY <1>1, <3>1, <3>2 DEF Accounted
  <2>11. ASSUME OneWidth PROVE StreamInOrder(st, visible, late)
    <3>1. StreamInOrder(was, visible, late) /\ fresh = {i \in poll.items : i > was.cursor}
      BY <1>1, <1>4, <2>11 DEF TailInvariant
    <3>2. was.cursor <= st.cursor
      <4>1. CASE fresh = {}
        BY <1>5, <1>7, <4>1
      <4>2. CASE fresh # {}
        <5>1. st.cursor > was.cursor
          BY <1>7, <3>1, <4>2
        <5> QED BY <1>5, <1>8, <5>1
      <4> QED BY <4>1, <4>2
    <3>3. \A k \in DOMAIN was.sent : was.sent[k] \in Nat /\ was.sent[k] <= was.cursor /\ was.sent[k] <= st.cursor
      <4> SUFFICES ASSUME NEW k \in DOMAIN was.sent
                   PROVE  was.sent[k] \in Nat /\ was.sent[k] <= was.cursor /\ was.sent[k] <= st.cursor
        OBVIOUS
      <4>1. was.sent[k] \in Nat
        BY <1>3, <1>5 DEF StreamStands
      <4>2. was.sent[k] <= was.cursor
        BY <3>1 DEF StreamInOrder
      <4> QED BY <1>5, <1>8, <3>2, <4>1, <4>2
    <3>4. \A i \in fresh : i \in Nat /\ i > was.cursor /\ i <= st.cursor
      BY <1>5, <1>7, <3>1
    <3>5. \A k \in DOMAIN st.sent : st.sent[k] <= st.cursor
      BY <2>4, <3>3, <3>4
    <3>6. ASSUME NEW j \in DOMAIN st.sent, NEW k \in DOMAIN st.sent, j < k PROVE st.sent[j] < st.sent[k]
      <4>1. j \in Nat /\ k \in Nat
        BY <2>6
      <4>2. CASE k \in DOMAIN was.sent
        <5>1. k <= n
          BY <2>4, <4>2
        <5>3. ~(j > n)
          BY <2>2, <3>6, <4>1, <5>1
        <5>2. j \in DOMAIN was.sent /\ st.sent[j] = was.sent[j] /\ st.sent[k] = was.sent[k]
          BY <2>4, <4>2, <5>3
        <5> QED BY <3>1, <3>6, <4>2, <5>2 DEF StreamInOrder
      <4>3. CASE k \notin DOMAIN was.sent /\ j \in DOMAIN was.sent
        <5>1. st.sent[k] \in fresh /\ st.sent[j] = was.sent[j]
          BY <2>4, <4>3
        <5>2. st.sent[k] \in Nat /\ st.sent[k] > was.cursor /\ st.sent[j] \in Nat /\ st.sent[j] <= was.cursor
          <6>1. st.sent[k] \in Nat /\ st.sent[k] > was.cursor
            BY <3>4, <5>1
          <6>2. was.sent[j] \in Nat /\ was.sent[j] <= was.cursor
            BY <3>3, <4>3
          <6> QED BY <5>1, <6>1, <6>2
        <5>3. \A a, b, c \in Nat : a <= c /\ b > c => a < b
          OBVIOUS
        <5> QED BY <1>5, <5>2, <5>3
      <4>4. CASE k \notin DOMAIN was.sent /\ j \notin DOMAIN was.sent
        <5>1. /\ k - n \in DOMAIN tail /\ st.sent[k] = tail[k - n]
              /\ j - n \in DOMAIN tail /\ st.sent[j] = tail[j - n]
          BY <2>4, <4>4
        <5>2. j - n < k - n
          BY <3>6, <4>1
        <5> QED BY <2>5, <5>1, <5>2
      <4> QED BY <4>2, <4>3, <4>4
    <3>7. ASSUME NEW i \in visible, i <= st.cursor PROVE i \in Accounted(st, late)
      <4>1. i \in Nat
        BY <1>3, <1>5
      <4>2. CASE i <= was.cursor
        BY <1>1, <1>10, <2>10, <3>1, <4>2 DEF StreamInOrder
      <4>3. CASE ~(i <= was.cursor)
        <5>1. i > was.cursor
          BY <1>5, <4>1, <4>3
        <5>2. fresh # {} /\ st.cursor \in poll.items
          BY <1>4, <1>7, <3>7, <4>3
        <5>3. i \in poll.items \union Accounted(was, late)
          BY <1>1, <1>10, <2>11, <3>7, <5>2 DEF PollInOrder
        <5> QED BY <2>10, <3>1, <5>1, <5>3
      <4> QED BY <4>2, <4>3
    <3> QED BY <3>5, <3>6, <3>7 DEF StreamInOrder
  <2> QED BY <1>1, <2>9, <2>10, <2>11
<1> QED BY <1>9, <1>10

LEMMA DeliverKeeps ==
  ASSUME TailInvariant, NEW q \in Polls, Deliver(q)
  PROVE  TailInvariant'
<1>1. PICK poll : poll = polls[q]
  OBVIOUS
<1>2. PICK s : s = poll.stream
  OBVIOUS
<1>3. poll \in Poll /\ poll.step = "answered" /\ PollIsSound(poll, visible)
  BY <1>1 DEF Deliver, TailInvariant, TailTypeOK
<1>4. s \in Streams /\ streams[s].client # "none" /\ poll.items \subseteq visible
  BY <1>2, <1>3 DEF PollIsSound
<1>5. PICK was \in Stream : was = streams[s]
  BY <1>4 DEF TailInvariant, TailTypeOK
<1>6. PICK fresh : fresh = Fresh(poll, was.cursor)
  OBVIOUS
<1>7. fresh \in SUBSET Ids /\ was.cursor \in {0} \union Ids /\ was.sent \in Seq(Ids)
  <2>1. was.cursor \in {0} \union visible
    BY <1>4, <1>5 DEF TailInvariant, StreamStands
  <2> QED BY <1>3, <1>4, <1>6, <2>1, FreshLines, StreamFields
<1>8. PICK moved : moved = [streams[s] EXCEPT !.cursor = NextCursor(fresh, @),
                              !.sent = IF streams[s].client = "here" THEN @ \o Ascending(fresh) ELSE @]
  OBVIOUS
<1>9. /\ moved \in Stream /\ moved.client = was.client /\ moved.left = was.left
      /\ moved.cursor = NextCursor(fresh, was.cursor)
      /\ moved.sent = IF was.client = "here" THEN was.sent \o Ascending(fresh) ELSE was.sent
  <2>1. NextCursor(fresh, was.cursor) \in {0} \union Ids
    BY <1>7, HighestOf DEF NextCursor
  <2>2. was.sent \o Ascending(fresh) \in Seq(Ids)
    BY <1>7, JoinedLines
  <2>3. (IF was.client = "here" THEN was.sent \o Ascending(fresh) ELSE was.sent) \in Seq(Ids)
    BY <1>7, <2>2
  <2>4. moved = [client |-> was.client, watched |-> was.watched, timers |-> was.timers,
                 cursor |-> NextCursor(fresh, was.cursor),
                 sent |-> IF was.client = "here" THEN was.sent \o Ascending(fresh) ELSE was.sent,
                 left |-> was.left]
    BY <1>5, <1>8 DEF Stream
  <2> QED BY <2>1, <2>3, <2>4, StreamFields DEF Stream
<1>10. PICK st : st = Listening(moved)
  OBVIOUS
<1>11. /\ st \in Stream /\ st.client = was.client /\ st.left = was.left
       /\ st.cursor = NextCursor(fresh, was.cursor)
       /\ st.sent = IF was.client = "here" THEN was.sent \o Ascending(fresh) ELSE was.sent
  BY <1>9, <1>10, ListeningKeeps
<1>12. streams' = [streams EXCEPT ![s] = st] /\ polls' = [polls EXCEPT ![q] = NoPoll] /\ SameLog
  <2>1. streams' = [streams EXCEPT ![s] = Listening([streams[s] EXCEPT
          !.cursor = NextCursor(fresh, @),
          !.sent = IF streams[s].client = "here" THEN @ \o Ascending(fresh) ELSE @])]
    BY Zenon, <1>1, <1>2, <1>5, <1>6 DEF Deliver
  <2>2. streams' = [streams EXCEPT ![s] = st]
    BY Zenon, <1>8, <1>10, <2>1
  <2> QED BY <1>1, <2>2 DEF Deliver, SameLog
<1>13. OneWidth => PollInOrder(poll, visible, late)
  BY <1>1 DEF TailInvariant
<1>14. /\ StreamStands(st, visible)
       /\ OneWidth => StreamInOrder(st, visible, late)
       /\ Accounted(streams[s], late) \subseteq Accounted(st, late)
  BY <1>2, <1>3, <1>4, <1>5, <1>6, <1>11, <1>13, DeliveredStream
<1>15. NoPoll \in Poll
  BY DEF NoPoll, Poll
<1>16. polls' \in [Polls -> Poll] /\ \A p \in Polls : polls'[p] = polls[p] \/ polls'[p] = NoPoll
  BY <1>12, <1>15 DEF TailInvariant, TailTypeOK
<1>17. /\ st.client = "none" => streams[s].client = "none"
       /\ st.client = "here" => streams[s].client = "here" \/ streams[s].client = "none"
  BY <1>5, <1>11
<1> QED BY <1>4, <1>11, <1>12, <1>14, <1>16, <1>17, StreamFollows

LEMMA TailSteps == TailInvariant /\ [TailNext]_tailVars => TailInvariant'
<1> SUFFICES ASSUME TailInvariant, [TailNext]_tailVars PROVE TailInvariant'
  OBVIOUS
<1>1. CASE LogNext \/ \E i \in Ids : GetsOld(i)
  BY <1>1, LogWrites
<1>2. ASSUME NEW s \in Streams, HangUp(s) PROVE TailInvariant'
  BY <1>2, HangUpKeeps
<1>3. ASSUME NEW s \in Streams, NEW q \in Polls, Open(s, q) \/ Tick(s, q) PROVE TailInvariant'
  BY <1>3, OpenKeeps, TickKeeps
<1>4. ASSUME NEW q \in Polls, Search(q) \/ Deliver(q) \/ PollFails(q) PROVE TailInvariant'
  BY <1>4, SearchKeeps, DeliverKeeps, PollFailsKeeps
<1>5. CASE UNCHANGED tailVars
  <2>1. UNCHANGED <<streams, polls>> /\ UNCHANGED <<nextId, writing, visible, old, late>>
    BY <1>5 DEF tailVars
  <2>2. TailTypeOK' /\ visible' \subseteq Begun' /\ (\A b \in writing : b \subseteq Begun)'
    BY <2>1 DEF TailInvariant, TailTypeOK, Begun
  <2>3. nextId <= nextId'
    <3>1. nextId \in Nat
      BY IdAssumption DEF TailInvariant, TailTypeOK
    <3> QED BY <2>1, <3>1
  <2>4. LogOnward
    BY <2>1, <2>3 DEF LogOnward, TailInvariant, TailTypeOK
  <2> QED BY <2>1, <2>2, <2>4, LogGoesOn
<1> QED BY <1>1, <1>2, <1>3, <1>4, <1>5 DEF TailNext

LEMMA OrderFollows == TailInvariant => TailTypeOK /\ SentOnceInOrder /\ OnlyLateOrCrowdedLinesAreSkipped
<1> SUFFICES ASSUME TailInvariant PROVE TailTypeOK /\ SentOnceInOrder /\ OnlyLateOrCrowdedLinesAreSkipped
  OBVIOUS
<1>1. TailTypeOK
  BY DEF TailInvariant
<1>2. SentOnceInOrder
  BY DEF TailInvariant, StreamInOrder, SentOnceInOrder
<1>3. OnlyLateOrCrowdedLinesAreSkipped
  BY DEF TailInvariant, StreamInOrder, OnlyLateOrCrowdedLinesAreSkipped, Accounted, SentTo
<1> QED BY <1>1, <1>2, <1>3

\* The timers of a stream change when it is watched for the first time, or hung up.
LEMMA SilenceFollows ==
  ASSUME TailInvariant, [TailNext]_tailVars
  PROVE  NobodyAsksAgain /\ HangUpsStick
<1>1. streams \in [Streams -> Stream]
  BY DEF TailInvariant, TailTypeOK
<1>2. CASE streams' = streams
  BY <1>2 DEF NobodyAsksAgain, HangUpsStick
<1>3. ASSUME NEW s \in Streams, NEW st,
             streams' = [streams EXCEPT ![s] = st],
             streams[s].watched => \/ streams[s].client # "gone" /\ (st.client = "gone" => ~st.timers)
                                   \/ st.client = streams[s].client /\ st.timers = streams[s].timers
      PROVE  NobodyAsksAgain /\ HangUpsStick
  <2>1. streams'[s] = st /\ \A r \in Streams : r # s => streams'[r] = streams[r]
    BY <1>1, <1>3
  <2> QED BY <1>3, <2>1 DEF NobodyAsksAgain, HangUpsStick
<1>4. ASSUME NEW s \in Streams, HangUp(s) PROVE NobodyAsksAgain /\ HangUpsStick
  <2>1. PICK st : st = [streams[s] EXCEPT !.client = "gone", !.timers = @ /\ ~streams[s].watched]
    OBVIOUS
  <2>2. streams' = [streams EXCEPT ![s] = st] /\ streams[s].client = "here" /\ streams[s] \in Stream
    BY <1>1, <1>4, <2>1 DEF HangUp
  <2>3. st.client = "gone" /\ (streams[s].watched => ~st.timers)
    <3>1. st.client = "gone" /\ st.timers = (streams[s].timers /\ ~streams[s].watched)
      BY <2>1, <2>2 DEF Stream
    <3> QED BY <3>1
  <2> QED BY <1>3, <2>2, <2>3
<1>5. ASSUME NEW s \in Streams, NEW q \in Polls, Open(s, q) PROVE NobodyAsksAgain /\ HangUpsStick
  <2>1. PICK st : st = [streams[s] EXCEPT !.client = "here"]
    OBVIOUS
  <2>2. streams' = [streams EXCEPT ![s] = st] /\ streams[s].client = "none" /\ streams[s] \in Stream
    BY <1>1, <1>5, <2>1 DEF Open
  <2>3. st.client = "here"
    BY <2>1, <2>2 DEF Stream
  <2> QED BY <1>3, <2>2, <2>3
<1>6. ASSUME NEW q \in Polls, Search(q) \/ Deliver(q) \/ PollFails(q) PROVE NobodyAsksAgain /\ HangUpsStick
  <2>1. PICK s \in Streams : s = polls[q].stream
    <3>1. polls[q].step # "idle"
      BY <1>6 DEF Search, Deliver, PollFails
    <3> QED BY <3>1 DEF TailInvariant, PollIsSound
  <2>2. PICK was \in Stream : was = streams[s]
    BY <1>1
  <2>3. CASE Search(q)
    <3>1. PICK st : st = [was EXCEPT !.left = @ \union {i \in visible \
            Newest(IF polls[q].backlog THEN visible \ old ELSE visible) : i > was.cursor}]
      OBVIOUS
    <3>2. streams' = [streams EXCEPT ![s] = st]
      BY <2>1, <2>2, <2>3, <3>1 DEF Search
    <3>3. st.client = was.client /\ st.timers = was.timers
      BY <3>1 DEF Stream
    <3> QED BY <1>3, <2>2, <3>2, <3>3
  <2>4. CASE PollFails(q)
    <3>1. streams' = [streams EXCEPT ![s] = Listening(was)]
      BY <2>1, <2>2, <2>4 DEF PollFails
    <3>2. Listening(was).client = was.client /\ (was.watched => Listening(was).timers = was.timers)
      BY ListeningKeeps
    <3> QED BY <1>3, <2>2, <3>1, <3>2
  <2>5. CASE Deliver(q)
    <3>1. PICK fresh : fresh = Fresh(polls[q], was.cursor)
      OBVIOUS
    <3>2. PICK moved : moved = [streams[s] EXCEPT !.cursor = NextCursor(fresh, @),
                                  !.sent = IF streams[s].client = "here" THEN @ \o Ascending(fresh) ELSE @]
      OBVIOUS
    <3>3. streams' = [streams EXCEPT ![s] = Listening(moved)]
      <4>1. streams' = [streams EXCEPT ![s] = Listening([streams[s] EXCEPT
              !.cursor = NextCursor(fresh, @),
              !.sent = IF streams[s].client = "here" THEN @ \o Ascending(fresh) ELSE @])]
        BY Zenon, <2>1, <2>2, <2>5, <3>1 DEF Deliver
      <4> QED BY Zenon, <3>2, <4>1
    <3>4. moved.client = was.client /\ moved.watched = was.watched /\ moved.timers = was.timers
      BY <2>2, <3>2 DEF Stream
    <3>5. /\ moved.watched => Listening(moved) = moved
          /\ Listening(moved).watched = moved.watched \/ ~moved.watched
      BY DEF Listening
    <3>6. was.watched => Listening(moved).client = was.client /\ Listening(moved).timers = was.timers
      BY <3>4, <3>5
    <3> QED BY <1>3, <2>2, <3>3, <3>6
  <2> QED BY <1>6, <2>3, <2>4, <2>5
<1>7. CASE LogNext \/ \E i \in Ids : GetsOld(i)
  BY <1>2, <1>7 DEF LogNext, InsertBegins, InsertCommits, InsertFails, GetsOld
<1>8. ASSUME NEW s \in Streams, NEW q \in Polls, Tick(s, q) PROVE NobodyAsksAgain /\ HangUpsStick
  BY <1>2, <1>8 DEF Tick
<1>9. CASE UNCHANGED tailVars
  BY <1>2, <1>9 DEF tailVars
<1> QED BY <1>4, <1>5, <1>6, <1>7, <1>8, <1>9 DEF TailNext

\* The invariant of the tail: what is past a cursor was sent, late or left out, and an
\* answer leaves out no line below its own but such.
THEOREM TailStands == TailSpec => []TailInvariant
BY TailStarts, TailSteps, PTL DEF TailSpec

\* As long as ids have one width, a stream sends lines once and in order, and goes past
\* none but those that were late or left out by a search.
THEOREM LinesGoOnceInOrder == TailSpec => [](TailTypeOK /\ SentOnceInOrder /\ OnlyLateOrCrowdedLinesAreSkipped)
BY TailStands, OrderFollows, PTL

\* The timers of a stream whose client left it after its first search never run again.
THEOREM SilenceLasts == TailSpec => GoneStreamsFallSilent
<1>1. TailInvariant /\ [TailNext]_tailVars => [NobodyAsksAgain /\ HangUpsStick]_tailVars
  BY SilenceFollows
<1> QED BY <1>1, TailStands, PTL DEF TailSpec, GoneStreamsFallSilent

\* What a tail promises its client, and what it never does to it.
THEOREM TailPromiseHolds == TailSpec => TailPromise
BY LinesGoOnceInOrder, SilenceLasts, PTL DEF TailPromise
=============================================================================
