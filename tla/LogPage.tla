------------------------------ MODULE LogPage ------------------------------
(***************************************************************************)
(* The page of the logs (app/logs/page.tsx): a list that is polled for the *)
(* filters chosen, or the live tail of one source. A line is known by the    *)
(* filters it was asked for with. The environment goes with the source; the  *)
(* search text and the errors-only box narrow the list as the level does.    *)
(* What the stream sends is module LogTail.                                 *)
(***************************************************************************)
EXTENDS Naturals, Sequences

CONSTANTS
  Sources,
  Levels,
  All,           \* no filter
  MaxLines       \* lines the tail keeps, 1000 in the code

LogAssumption == MaxLines \in Nat \ {0}
ASSUME LogAssumption

VARIABLES
  filters,       \* what is chosen
  tailing,
  channels,      \* the event sources that are open, each with the filters it was opened for
  tailLines,
  answers,       \* the query cache: key -> the filters of its lines
  logRequests       \* the searches under way, each with its key

logVars == <<filters, tailing, channels, tailLines, answers, logRequests>>

Filters == [source : Sources \union {All}, level : Levels \union {All}]

LogTypeOK ==
  /\ filters \in Filters /\ tailing \in BOOLEAN
  /\ channels \subseteq Filters /\ tailLines \in Seq(Filters) /\ Len(tailLines) <= MaxLines
  /\ answers \in [Filters -> Filters \union {All}]
  /\ logRequests \subseteq [key : Filters, asked : Filters]

LogInit ==
  /\ filters = [source |-> All, level |-> All]
  /\ tailing = FALSE /\ channels = {} /\ tailLines = <<>>
  /\ answers = [f \in Filters |-> All] /\ logRequests = {}

----------------------------------------------------------------------------

\* Seeded bug: the stream there was is left open.
KeepStream == channels

CloseStream == {}

\* The effect on the source, the level and the tail.
Streams(on, chosen) == IF on /\ chosen.source # All THEN CloseStream \union {chosen} ELSE CloseStream

SelectFilters(chosen) ==
  /\ chosen # filters /\ filters' = chosen
  /\ channels' = Streams(tailing, chosen)
  /\ UNCHANGED <<tailing, tailLines, answers, logRequests>>

ToggleTail ==
  /\ filters.source # All
  /\ tailing' = ~tailing /\ tailLines' = <<>>
  /\ channels' = Streams(~tailing, filters)
  /\ UNCHANGED <<filters, answers, logRequests>>

\* Seeded bug: all lines are kept.
AllLines(lines) == lines

LastLines(lines) == IF Len(lines) <= MaxLines THEN lines ELSE Tail(lines)

LineArrives(channel) ==
  /\ channel \in channels
  /\ tailLines' = LastLines(Append(tailLines, channel))
  /\ UNCHANGED <<filters, tailing, channels, answers, logRequests>>

----------------------------------------------------------------------------

LogKey(chosen) == chosen

\* The list is fetched while the tail is off; a search under way is joined.
FetchLogs ==
  /\ ~tailing /\ \A r \in logRequests : r.key # LogKey(filters)
  /\ logRequests' = logRequests \union {[key |-> LogKey(filters), asked |-> filters]}
  /\ UNCHANGED <<filters, tailing, channels, tailLines, answers>>

LogsArrive(r) ==
  /\ r \in logRequests /\ logRequests' = logRequests \ {r}
  /\ answers' = [answers EXCEPT ![r.key] = r.asked]
  /\ UNCHANGED <<filters, tailing, channels, tailLines>>

LogsFail(r) ==
  /\ r \in logRequests /\ logRequests' = logRequests \ {r}
  /\ UNCHANGED <<filters, tailing, channels, tailLines, answers>>

LogNext ==
  \/ \E chosen \in Filters : SelectFilters(chosen)
  \/ ToggleTail \/ FetchLogs
  \/ \E channel \in channels : LineArrives(channel)
  \/ \E r \in logRequests : LogsArrive(r) \/ LogsFail(r)

LogSpec == LogInit /\ [][LogNext]_logVars

----------------------------------------------------------------------------
\* page.tsx:87: "one source at a time": whatever the filters were while the tail ran, a line
\* that is added is one of the filters chosen now.
AddedLinesAreOfTheFilters ==
  [][tailLines' # tailLines /\ tailLines' # <<>> => tailLines'[Len(tailLines')] = filters]_logVars

\* logs (page.tsx:67): the list shown is of the filters chosen, in whatever order searches for
\* others are answered.
ListedLinesAreOfTheFilters == ~tailing => answers[LogKey(filters)] \in {All, filters}

\* What the log page promises: whatever is listed or tailed was asked for.
LogPromise ==
  /\ []LogTypeOK
  /\ []ListedLinesAreOfTheFilters
  /\ AddedLinesAreOfTheFilters
=============================================================================
