---------------------------- MODULE HistoryPages ----------------------------
(***************************************************************************)
(* The two records of what was done, read page by page: the audit trail    *)
(* (search in audit/service.ts, app/security/audit) and the statements     *)
(* (history in query-executor.ts, app/database/history). Both are read     *)
(* newest first by offset, beside a count of all rows, while rows are       *)
(* appended, and both pages have one button, "Load older". A row is what    *)
(* the filters tell apart, and an answer the set of its rows. Other searches *)
(* than by one filter, the error in place of a list and the disposal of old *)
(* queries are left out.                                                   *)
(***************************************************************************)
EXTENDS Naturals, Sequences, FiniteSets, SequencesExt

CONSTANTS
  Labels,          \* what the filters tell apart of a row
  Filters,         \* those that are chosen
  AnyLabel,        \* no filter
  PerPage,         \* 100 and 50 in the code
  MaxEntries,      \* bound on the rows
  MaxPageFetches,  \* bound on the fetches in flight
  NotRead          \* nothing yet


VARIABLES
  record,       \* the table, newest first
  chosen,       \* the filter
  askedPage,    \* the page
  answers,      \* the query client's entries, one for each filter and page
  pageFetches,  \* their fetches
  way           \* histories of the way from the first page to this one

historyVars == <<record, chosen, askedPage, answers, pageFetches, way>>

Choosable == Filters \union {AnyLabel}
AskedPages == 1..MaxEntries
QueryKeys == Choosable \X AskedPages
Counts == 0..MaxEntries
EntryIds == 1..MaxEntries
Entry == [id : EntryIds, label : Labels]

\* An answer: its rows, whether there are more, and, histories, how many rows the table had
\* when they were read and when they were counted.
PageAnswer == [items : SUBSET EntryIds, more : BOOLEAN, at : Counts, counted : Counts]
PageFetch == [done : SUBSET {"rows", "count"}, items : SUBSET EntryIds, at : Counts,
              total : Counts, counted : Counts]

ASSUME HistoryAssumption ==
  /\ PerPage \in Nat \ {0} /\ MaxEntries \in Nat \ {0} /\ Filters \subseteq Labels
  /\ NotRead \notin PageAnswer /\ NotRead \notin PageFetch

HistoryTypeOK ==
  /\ record \in Seq(Entry) /\ Len(record) \in Counts
  /\ chosen \in Choosable /\ askedPage \in AskedPages
  /\ answers \in [QueryKeys -> PageAnswer \union {NotRead}]
  /\ pageFetches \in [QueryKeys -> PageFetch \union {NotRead}]
  /\ way \in [seen : SUBSET EntryIds, from : Counts, floor : 0..(MaxEntries + 1)]

Unread == [done |-> {}, items |-> {}, at |-> 0, total |-> 0, counted |-> 0]
ShownPage == <<chosen, askedPage>>
WalkBegins == [seen |-> {}, from |-> 0, floor |-> 0]

HistoryInit ==
  /\ record = <<>> /\ chosen = AnyLabel /\ askedPage = 1
  /\ answers = [key \in QueryKeys |-> NotRead]
  /\ pageFetches = [key \in QueryKeys |-> IF key = <<AnyLabel, 1>> THEN Unread ELSE NotRead]
  /\ way = WalkBegins

----------------------------------------------------------------------------
\* What is done is recorded. The place of an audit event is its sequence number, drawn before
\* the commit: an event may come to lie under one that was there before it.

RecordEntry(label, place) ==
  /\ Len(record) < MaxEntries /\ place <= Len(record) + 1
  /\ record' = InsertAt(record, place, [id |-> Len(record) + 1, label |-> label])
  /\ UNCHANGED <<chosen, askedPage, answers, pageFetches, way>>

----------------------------------------------------------------------------
\* The two statements of an answer, sent at once.

\* The rows among the newest n that the filter lets through.
MatchingIds(filter, n) == {record[i].id : i \in {j \in 1..n : filter \in {AnyLabel, record[j].label}}}

Total(filter) == Cardinality(MatchingIds(filter, Len(record)))

\* Seeded bug: a page further down.
OffsetOfNext(page) == page * PerPage

OffsetOf(page) == (page - 1) * PerPage

\* ORDER BY, OFFSET and LIMIT: rows by how many there are down to them.
PageOf(filter, page) ==
  {record[i].id : i \in {j \in DOMAIN record :
     /\ filter \in {AnyLabel, record[j].label}
     /\ Cardinality(MatchingIds(filter, j)) \in OffsetOf(page) + 1 .. OffsetOf(page) + PerPage}}

ReadItems(key) ==
  LET fetch == pageFetches[key] IN
  /\ fetch # NotRead /\ "rows" \notin fetch.done
  /\ pageFetches' = [pageFetches EXCEPT ![key] =
       [fetch EXCEPT !.done = fetch.done \union {"rows"}, !.items = PageOf(key[1], key[2]), !.at = Len(record)]]
  /\ UNCHANGED <<record, chosen, askedPage, answers, way>>

CountTotal(key) ==
  LET fetch == pageFetches[key] IN
  /\ fetch # NotRead /\ "count" \notin fetch.done
  /\ pageFetches' = [pageFetches EXCEPT ![key] =
       [fetch EXCEPT !.done = fetch.done \union {"count"}, !.total = Total(key[1]), !.counted = Len(record)]]
  /\ UNCHANGED <<record, chosen, askedPage, answers, way>>

\* Seeded bug: also when this page is the last and full.
MoreOrFull(page, total) == page * PerPage <= total

HasMore(page, total) == page * PerPage < total

\* What the operator has seen once this is on the screen.
Looked(before, answer, page) ==
  [before EXCEPT !.seen = before.seen \union answer.items, !.from = IF page = 1 THEN answer.at ELSE before.from]

AnswerOf(fetch, page) ==
  [items |-> fetch.items, more |-> HasMore(page, fetch.total), at |-> fetch.at, counted |-> fetch.counted]

AnswerArrives(key) ==
  /\ pageFetches[key] # NotRead /\ pageFetches[key].done = {"rows", "count"}
  /\ answers' = [answers EXCEPT ![key] = AnswerOf(pageFetches[key], key[2])]
  /\ way' = IF key = ShownPage THEN Looked(way, AnswerOf(pageFetches[key], key[2]), askedPage) ELSE way
  /\ pageFetches' = [pageFetches EXCEPT ![key] = NotRead]
  /\ UNCHANGED <<record, chosen, askedPage>>

FetchFails(key) ==
  /\ pageFetches[key] # NotRead
  /\ pageFetches' = [pageFetches EXCEPT ![key] = NotRead]
  /\ UNCHANGED <<record, chosen, askedPage, answers, way>>

----------------------------------------------------------------------------
\* The page. What it shows is fetched when it is new or aged, and at an interval.

InFlight == {key \in QueryKeys : pageFetches[key] # NotRead}

Refetched ==
  /\ pageFetches[ShownPage] = NotRead /\ Cardinality(InFlight) < MaxPageFetches
  /\ pageFetches' = [pageFetches EXCEPT ![ShownPage] = Unread]
  /\ UNCHANGED <<record, chosen, askedPage, answers, way>>

Mount(key, before, aged) ==
  /\ key \in InFlight \/ Cardinality(InFlight) < MaxPageFetches
  /\ way' = IF answers[key] = NotRead THEN before ELSE Looked(before, answers[key], key[2])
  /\ pageFetches' = IF key \notin InFlight /\ (answers[key] = NotRead \/ aged)
                THEN [pageFetches EXCEPT ![key] = Unread] ELSE pageFetches

\* Seeded bug: the page stays.
SamePage == askedPage

PageOfNewFilter == 1

Choose(filter, aged) ==
  /\ filter # chosen
  /\ chosen' = filter /\ askedPage' = PageOfNewFilter
  /\ Mount(<<filter, PageOfNewFilter>>, WalkBegins, aged)
  /\ UNCHANGED <<record, answers>>

\* A page older than the one before it spoils the way for good.
FloorAfter(at) == IF at < way.floor THEN MaxEntries + 1 ELSE at

LoadOlder(aged) ==
  /\ answers[ShownPage] # NotRead /\ answers[ShownPage].more
  /\ askedPage' = askedPage + 1
  /\ Mount(<<chosen, askedPage + 1>>, [way EXCEPT !.floor = FloorAfter(answers[ShownPage].at)], aged)
  /\ UNCHANGED <<record, chosen, answers>>

HistoryNext ==
  \/ \E label \in Labels, place \in {1, 2} : RecordEntry(label, place)
  \/ \E key \in QueryKeys : ReadItems(key) \/ CountTotal(key) \/ AnswerArrives(key) \/ FetchFails(key)
  \/ Refetched
  \/ \E aged \in BOOLEAN : LoadOlder(aged) \/ \E filter \in Choosable : Choose(filter, aged)

HistorySpec == HistoryInit /\ [][HistoryNext]_historyVars

----------------------------------------------------------------------------
\* search (audit/service.ts:246) and history (query-executor.ts:424): one who came to the
\* end of the record has seen every row that the table had when the first page was read,
\* unless a page on the way was older than the one before it, from the query client, or
\* the last was counted before a row came and read after.
NothingIsSkipped ==
  LET answer == answers[ShownPage] IN
    answer # NotRead /\ ~answer.more /\ answer.counted >= answer.at /\ answer.at >= way.floor =>
      MatchingIds(chosen, Len(record)) \intersect 1..way.from \subseteq way.seen

\* hasMore (audit/service.ts:264, query-executor.ts:476) and the way on (audit/page.tsx:255,
\* history/page.tsx:191): "Load older" leads to rows. An empty page has no button that leads
\* away from it.
OlderPagesHoldRows ==
  \A key \in QueryKeys : key[2] > 1 /\ answers[key] # NotRead => answers[key].items # {}

\* What the record of what was done promises those who read it while more is done.
HistoryPromise ==
  /\ HistoryTypeOK
  /\ NothingIsSkipped
  /\ OlderPagesHoldRows
=============================================================================
