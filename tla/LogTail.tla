------------------------------ MODULE LogTail ------------------------------
(***************************************************************************)
(* The log buffer and the live tail that follows it: services/logs.ts and  *)
(* GET /logs/tail of routes/observability.ts. Writers insert lines whose   *)
(* ids a sequence gives out before the insert is committed. A stream asks  *)
(* for the newest lines every three seconds, without waiting for the       *)
(* answer to its last question, and sends those past its cursor.           *)
(*                                                                         *)
(* Ids are compared as strings (toEntry makes them strings), so the model  *)
(* starts its sequence just below a power of ten. A line that the stream's *)
(* filter does not select is an id that never becomes visible.             *)
(***************************************************************************)
EXTENDS Naturals, Sequences, FiniteSets

CONSTANTS
  Streams,         \* handlers of GET /logs/tail
  Polls,           \* searches of theirs in flight at once
  MaxInserts,      \* bound on the inserts into log_entries in flight at once
  FirstId, LastId, \* the ids the sequence gives out in a behaviour
  MaxBatch,        \* lines of one insert
  TailLimit,       \* lines of one search, 100 in the code
  NoStream

ASSUME IdAssumption == FirstId \in Nat \ {0} /\ LastId \in Nat /\ FirstId <= LastId
ASSUME LimitAssumption == TailLimit \in Nat \ {0} /\ MaxBatch \in Nat \ {0}
ASSUME NoStreamAssumption == NoStream \notin Streams

VARIABLES
  nextId,   \* of the sequence
  writing,  \* the inserts in flight, each the ids it has taken
  visible,  \* the ids of committed lines
  old,      \* those that occurred more than a minute ago
  late,     \* history: committed after a line with a higher id
  streams,
  polls
tailVars == <<nextId, writing, visible, old, late, streams, polls>>

Ids == FirstId..LastId

(***************************************************************************)
(* cursor is the id of the newest line sent, 0 before the first. watched:  *)
(* the listeners for the end of the connection are registered. left, a     *)
(* history: lines past the cursor that a search did not return.            *)
(***************************************************************************)
Stream == [client : {"none", "here", "gone"}, watched : BOOLEAN, timers : BOOLEAN,
           cursor : {0} \union Ids, sent : Seq(Ids), left : SUBSET Ids]
Closed == [client |-> "none", watched |-> FALSE, timers |-> FALSE,
           cursor |-> 0, sent |-> <<>>, left |-> {}]

\* items, which an answer has newest first; backlog: the search began without a cursor.
Poll == [step : {"idle", "asked", "answered"}, stream : Streams \union {NoStream},
         backlog : BOOLEAN, items : SUBSET Ids]
NoPoll == [step |-> "idle", stream |-> NoStream, backlog |-> FALSE, items |-> {}]

TailTypeOK ==
  /\ nextId \in FirstId..LastId + 1
  /\ writing \subseteq SUBSET Ids
  /\ visible \subseteq Ids /\ old \subseteq visible /\ late \subseteq visible
  /\ streams \in [Streams -> Stream]
  /\ polls \in [Polls -> Poll]

TailInit ==
  /\ nextId = FirstId
  /\ writing = {}
  /\ visible = {} /\ old = {} /\ late = {}
  /\ streams = [s \in Streams |-> Closed]
  /\ polls = [q \in Polls |-> NoPoll]

----------------------------------------------------------------------------
(***************************************************************************)
(* a > b of two strings of digits: both are filled up to four, and of two  *)
(* that are equal then the longer one is greater.                          *)
(***************************************************************************)
Digits(n) == Cardinality({d \in {1, 10, 100, 1000} : n >= d})
Filled(n) == n * <<1000, 100, 10, 1>>[Digits(n)]
After(a, b) == Filled(a) > Filled(b) \/ (Filled(a) = Filled(b) /\ Digits(a) > Digits(b))

\* Lines of s, which are of one insert or of several, go into the log.
InsertBegins ==
  /\ Cardinality(writing) < MaxInserts
  /\ \E n \in 1..MaxBatch :
       /\ nextId + n - 1 <= LastId
       /\ writing' = writing \union {nextId..nextId + n - 1}
       /\ nextId' = nextId + n
  /\ UNCHANGED <<visible, old, late, streams, polls>>

InsertCommits(batch) ==
  /\ batch \in writing
  /\ visible' = visible \union batch
  /\ late' = late \union {i \in batch : \E j \in visible : j > i}
  /\ writing' = writing \ {batch}
  /\ UNCHANGED <<nextId, old, streams, polls>>

\* ingest and ingestBatch log the error and go on: the lines are lost.
InsertFails(batch) ==
  /\ batch \in writing
  /\ writing' = writing \ {batch}
  /\ UNCHANGED <<nextId, visible, old, late, streams, polls>>

\* Lines carry the time they occurred at, which their sender may give. It
\* matters as long as a search for the backlog may come.
GetsOld(i) ==
  /\ \/ \E s \in Streams : streams[s].client = "here" /\ streams[s].cursor = 0
     \/ \E q \in Polls : polls[q].step = "asked" /\ polls[q].backlog
  /\ i \in visible \ old
  /\ old' = old \union {i}
  /\ UNCHANGED <<nextId, writing, visible, late, streams, polls>>

----------------------------------------------------------------------------
BeginSearch(q, s) ==
  /\ q = CHOOSE p \in Polls : polls[p].step = "idle"
  /\ polls' = [polls EXCEPT ![q] =
    [step |-> "asked", stream |-> s, backlog |-> streams[s].cursor = 0, items |-> {}]]

\* The head of the answer is written, and the first search is waited for.
Open(s, q) ==
  /\ streams[s].client = "none"
  /\ polls[q].step = "idle"
  /\ streams' = [streams EXCEPT ![s].client = "here"]
  /\ BeginSearch(q, s)
  /\ UNCHANGED <<nextId, writing, visible, old, late>>

\* Seeded bug: the stream searches until it has something to send.
TickOnce(s, q) ==
  /\ streams[s].timers /\ streams[s].cursor = 0
  /\ polls[q].step = "idle"
  /\ BeginSearch(q, s)
  /\ UNCHANGED <<nextId, writing, visible, old, late, streams>>

\* Later searches are not waited for.
Tick(s, q) ==
  /\ streams[s].timers
  /\ polls[q].step = "idle"
  /\ BeginSearch(q, s)
  /\ UNCHANGED <<nextId, writing, visible, old, late, streams>>

Newest(S) == {i \in S : Cardinality({j \in S : j > i}) < TailLimit}

\* logs.search: newest first, at most TailLimit, of the last minute for a backlog.
Search(q) ==
  LET poll == polls[q]
      matching == IF poll.backlog THEN visible \ old ELSE visible
      found == Newest(matching)
      s == poll.stream IN
  /\ poll.step = "asked"
  /\ polls' = [polls EXCEPT ![q].step = "answered", ![q].items = found]
  /\ streams' = [streams EXCEPT ![s].left =
       @ \union {i \in visible \ found : i > streams[s].cursor}]
  /\ UNCHANGED <<nextId, writing, visible, old, late>>

\* Seeded bug: the answer is filtered by the cursor its search began with.
FreshAtStart(poll, cursor) ==
  IF poll.backlog THEN poll.items ELSE {i \in poll.items : After(i, cursor)}

\* Seeded bug: only the newest line of an answer is sent.
NewestFresh(poll, cursor) ==
  {i \in poll.items : (\A j \in poll.items : j <= i) /\ (cursor = 0 \/ After(i, cursor))}

\* The cursor is the one of now, whatever was sent while the search ran.
Fresh(poll, cursor) == IF cursor = 0 THEN poll.items ELSE {i \in poll.items : After(i, cursor)}

\* The lines of an answer as they are sent, oldest first.
Ascending(S) ==
  CHOOSE seq \in [1..Cardinality(S) -> S] :
    /\ \A j, k \in DOMAIN seq : j < k => seq[j] < seq[k]
    /\ \A i \in S : \E k \in DOMAIN seq : seq[k] = i

Highest(S) == CHOOSE i \in S : \A j \in S : j <= i

\* Seeded bug: the cursor is taken for the next id to send.
CursorPast(fresh, cursor) == IF fresh = {} THEN cursor ELSE Highest(fresh) + 1

NextCursor(fresh, cursor) == IF fresh = {} THEN cursor ELSE Highest(fresh)

(***************************************************************************)
(* A stream whose first search has ended starts its timers and listens for *)
(* the end of its connection, which may have come already.                 *)
(***************************************************************************)
Listening(stream) ==
  IF stream.watched THEN stream
  ELSE [stream EXCEPT !.watched = TRUE, !.timers = TRUE]

Deliver(q) ==
  LET poll == polls[q]
      stream == streams[poll.stream]
      fresh == Fresh(poll, stream.cursor) IN
  /\ poll.step = "answered"
  /\ streams' = [streams EXCEPT ![poll.stream] = Listening([stream EXCEPT
       !.cursor = NextCursor(fresh, @),
       !.sent = IF stream.client = "here" THEN @ \o Ascending(fresh) ELSE @])]
  /\ polls' = [polls EXCEPT ![q] = NoPoll]
  /\ UNCHANGED <<nextId, writing, visible, old, late>>

\* The stream says that it was interrupted and goes on.
PollFails(q) ==
  /\ polls[q].step = "asked"
  /\ streams' = [streams EXCEPT ![polls[q].stream] = Listening(@)]
  /\ polls' = [polls EXCEPT ![q] = NoPoll]
  /\ UNCHANGED <<nextId, writing, visible, old, late>>

\* Seeded bug: the end of a connection stops the heartbeat only.
HangUpHeartbeat(s) ==
  /\ streams[s].client = "here"
  /\ streams' = [streams EXCEPT ![s].client = "gone"]
  /\ UNCHANGED <<nextId, writing, visible, old, late, polls>>

\* cleanup(), if it is registered yet. The browser connects anew if it was
\* not the user who closed the stream: that is another stream.
HangUp(s) ==
  /\ streams[s].client = "here"
  /\ streams' = [streams EXCEPT ![s].client = "gone",
                                ![s].timers = @ /\ ~streams[s].watched]
  /\ UNCHANGED <<nextId, writing, visible, old, late, polls>>

----------------------------------------------------------------------------
LogNext ==
  InsertBegins \/ \E batch \in writing : InsertCommits(batch) \/ InsertFails(batch)

TailNext ==
  \/ LogNext
  \/ \E i \in Ids : GetsOld(i)
  \/ \E s \in Streams : HangUp(s) \/ \E q \in Polls : Open(s, q) \/ Tick(s, q)
  \/ \E q \in Polls : Search(q) \/ Deliver(q) \/ PollFails(q)

(***************************************************************************)
(* The interval fires as long as it is set, an answer is handled, and      *)
(* searches do not fail for ever.                                          *)
(***************************************************************************)
TailFairness ==
  /\ \A s \in Streams : WF_tailVars(\E q \in Polls : Tick(s, q))
  /\ SF_tailVars(\E q \in Polls : Search(q))
  /\ WF_tailVars(\E q \in Polls : Deliver(q))

TailSpec == TailInit /\ [][TailNext]_tailVars /\ TailFairness

----------------------------------------------------------------------------
\* The ids given out so far have one number of digits.
OneWidth == Digits(nextId - 1) <= Digits(FirstId)

(***************************************************************************)
(* As long as ids have one width, a stream sends every line once and in    *)
(* the order of the ids, however its searches overlap: each answer is      *)
(* filtered by the cursor of the moment it is handled.                     *)
(***************************************************************************)
SentOnceInOrder ==
  OneWidth => \A s \in Streams : \A j, k \in DOMAIN streams[s].sent :
    j < k => streams[s].sent[j] < streams[s].sent[k]

SentTo(s) == {streams[s].sent[k] : k \in DOMAIN streams[s].sent}

(***************************************************************************)
(* As long as ids have one width, a line that a stream has gone past       *)
(* without sending it was committed after a higher id, or was left out by  *)
(* a search: beyond its limit, or before the minute of the first one.      *)
(***************************************************************************)
OnlyLateOrCrowdedLinesAreSkipped ==
  OneWidth => \A s \in Streams : \A i \in visible :
    (streams[s].client = "here" /\ i <= streams[s].cursor) =>
      i \in SentTo(s) \union late \union streams[s].left

(***************************************************************************)
(* A client that goes away after the first search of its stream takes the  *)
(* timers with it, and the timers of a stream that has lost its client     *)
(* never start again. Only a client that goes during the first search      *)
(* leaves a stream behind that searches for ever.                          *)
(***************************************************************************)
NobodyAsksAgain ==
  \A s \in Streams :
    (streams[s].client = "gone" /\ streams[s].watched /\ ~streams[s].timers) =>
      ~streams'[s].timers
HangUpsStick ==
  \A s \in Streams :
    (streams[s].client = "here" /\ streams[s].watched /\ streams'[s].client = "gone") =>
      ~streams'[s].timers
GoneStreamsFallSilent == [][NobodyAsksAgain /\ HangUpsStick]_tailVars

(***************************************************************************)
(* A stream that stays open has again and again sent every visible line    *)
(* but those that are late or left out, unless ids grow by a digit.        *)
(***************************************************************************)
CaughtUp(s) ==
  visible \subseteq SentTo(s) \union late \union streams[s].left
StreamsCatchUp ==
  \A s \in Streams : []<>(streams[s].client = "here" /\ OneWidth => CaughtUp(s))

\* What a tail promises its client, and what it never does to it: lines in order, none
\* lost but those named, and silence after it left.
TailPromise ==
  /\ []TailTypeOK
  /\ []SentOnceInOrder
  /\ []OnlyLateOrCrowdedLinesAreSkipped
  /\ GoneStreamsFallSilent
=============================================================================
