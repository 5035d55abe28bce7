-------------------------- MODULE OperationDialog ---------------------------
(***************************************************************************)
(* Running an operation from a page: hooks/use-operation.ts,                *)
(* components/shared/confirm-dialog.tsx, and the pages that use them, each  *)
(* with a query for its list and one for the resource whose drawer is open, *)
(* kept by the query client of session-provider.tsx. What the API does with *)
(* an operation is Operations; here it is accepted or refused. Every        *)
(* resource has one operation, which asks for its name; the reason, reset   *)
(* with the name, and the texts of results and errors are left out.         *)
(*                                                                         *)
(* While an operation is submitted all buttons of its dialog are disabled,  *)
(* the focus trap has nothing to hold on to, and the keyboard reaches the   *)
(* page behind.                                                            *)
(***************************************************************************)
EXTENDS Naturals, Sequences

CONSTANTS
  Pages,          \* the pages looked at
  Listed,         \* what the page lists
  ResourceLabel,  \* resource -> its name, which the operator types
  Nothing,        \* no resource, no dialog, no data
  MaxRequests     \* bound on dialogs opened

VARIABLES
  opPage,    \* the page
  drawer,    \* the resource whose drawer is open
  queries,   \* the query client's entries: the list's, and each resource's
  target,    \* the dialog; serial and over, histories: which one it is, whether it was opened over another
  typing,    \* whether the text typed is the name asked for; by, a history: in which dialog it was typed
  submit,    \* the operation being submitted
  accepted,  \* history: resource -> the last operation on it that was accepted
  dialogs    \* dialogs opened

opVars == <<opPage, drawer, queries, target, typing, submit, accepted, dialogs>>

----------------------------------------------------------------------------
\* Query keys. Text and number are told apart, and a key is invalidated by its prefixes.

Text(x) == <<"text", x>>
Number(x) == <<"number", x>>

ListKey(page) ==
  CASE page = "digitalocean" -> <<Text("do"), Text("droplets")>>
    [] page = "proxmox" -> <<Text("pve"), Text("overview")>>
    [] page = "services" -> <<Text("applications")>>

ResourceKey(page, r) ==
  CASE page = "digitalocean" -> <<Text("do"), Text("droplet"), Text(r)>>
    [] page = "proxmox" -> <<Text("pve"), Text("guest"), Number(r)>>
    [] page = "services" -> <<Text("application"), Text(r)>>

KeyOf(q) == IF q = "list" THEN ListKey(opPage) ELSE ResourceKey(opPage, q)

\* Seeded bug: the list alone.
InvalidatesList(page, r) == <<ListKey(page), <<Text("dashboard")>>>>

Invalidates(page, r) ==
  CASE page = "digitalocean" -> <<ListKey(page), <<Text("do"), Text("droplet"), Text(r)>>, <<Text("dashboard")>>>>
    [] page = "proxmox" -> <<ListKey(page), <<Text("pve"), Text("guest"), Text(r)>>, <<Text("dashboard")>>>>
    [] page = "services" -> <<ListKey(page), <<Text("application"), Text(r)>>, <<Text("dashboard")>>>>

Matched(prefix) ==
  {q \in DOMAIN queries : Len(prefix) <= Len(KeyOf(q)) /\ SubSeq(KeyOf(q), 1, Len(prefix)) = prefix}

----------------------------------------------------------------------------

QueryNames == Listed \union {"list"}
Versions == 0..MaxRequests

Query == [at : Versions \union {Nothing}, stale : BOOLEAN, failed : BOOLEAN,
          fetching : BOOLEAN, overtaken : BOOLEAN, read : Versions \union {Nothing}]
Target == [resource : Listed, serial : Versions, over : BOOLEAN]
Typing == [right : BOOLEAN, by : Versions]
Submit == [resource : Listed, serial : Versions, left : 0..3,
           step : {"sent", "accepted", "refused", "invalidating", "waiting"}]

\* The pages that run operations list something, and Nothing stands for what is not there.
ASSUME DialogAssumption ==
  /\ MaxRequests \in Nat
  /\ Pages \subseteq {"digitalocean", "proxmox", "services"}
  /\ Listed # {} /\ "list" \notin Listed
  /\ Nothing \notin QueryNames /\ Nothing \notin Versions
  /\ Nothing \notin Target /\ Nothing \notin Submit

OpTypeOK ==
  /\ opPage \in Pages /\ drawer \in Listed \union {Nothing} /\ dialogs \in Versions
  /\ queries \in [QueryNames -> Query]
  /\ target \in Target \union {Nothing}
  /\ typing \in Typing
  /\ submit \in Submit \union {Nothing}
  /\ accepted \in [Listed -> Versions]

NoData == [at |-> Nothing, stale |-> TRUE, failed |-> FALSE, fetching |-> FALSE,
           overtaken |-> FALSE, read |-> Nothing]

OpInit ==
  /\ opPage \in Pages /\ drawer = Nothing /\ dialogs = 0
  /\ queries = [q \in QueryNames |-> IF q = "list" THEN [NoData EXCEPT !.fetching = TRUE] ELSE NoData]
  /\ target = Nothing /\ typing = [right |-> FALSE, by |-> 0] /\ submit = Nothing
  /\ accepted = [r \in Listed |-> 0]

Mounted == {"list"} \union ({drawer} \ {Nothing})

----------------------------------------------------------------------------
\* The query client: a mounted query is fetched when it mounts invalidated or aged, on its
\* interval, when the window is focused, and when it is invalidated. Data is kept when a
\* fetch fails.
\* overtaken, a history: it was invalidated unmounted, with a fetch in flight that is left to arrive.

Refetch(query) == [query EXCEPT !.stale = TRUE, !.fetching = TRUE, !.read = Nothing]
MarkStale(query) == [query EXCEPT !.stale = TRUE, !.overtaken = @ \/ query.fetching]

Latest == LET all == {accepted[r] : r \in Listed} IN CHOOSE n \in all : \A m \in all : m <= n

ReadQuery(q) ==
  /\ queries[q].fetching /\ queries[q].read = Nothing
  /\ queries' = [queries EXCEPT ![q].read = Latest, ![q].overtaken = FALSE]
  /\ UNCHANGED <<opPage, drawer, target, typing, submit, accepted, dialogs>>

QueryArrives(q) ==
  /\ queries[q].read # Nothing
  /\ queries' = [queries EXCEPT ![q].at = queries[q].read, ![q].read = Nothing, ![q].stale = FALSE,
                               ![q].failed = FALSE, ![q].fetching = FALSE]
  /\ UNCHANGED <<opPage, drawer, target, typing, submit, accepted, dialogs>>

QueryFails(q) ==
  /\ queries[q].fetching
  /\ queries' = [queries EXCEPT ![q].fetching = FALSE, ![q].read = Nothing, ![q].failed = TRUE]
  /\ UNCHANGED <<opPage, drawer, target, typing, submit, accepted, dialogs>>

FocusOrInterval(q) ==
  /\ q \in Mounted /\ ~queries[q].fetching
  /\ queries' = [queries EXCEPT ![q].fetching = TRUE]
  /\ UNCHANGED <<opPage, drawer, target, typing, submit, accepted, dialogs>>

\* The page is covered by the dialog until its operation is submitted.
PageInReach == target = Nothing \/ submit # Nothing

Select(r, aged) ==
  /\ PageInReach /\ queries["list"].at # Nothing /\ drawer # r
  /\ drawer' = r
  /\ queries' = [queries EXCEPT ![r].fetching = @ \/ queries[r].stale \/ aged]
  /\ UNCHANGED <<opPage, target, typing, submit, accepted, dialogs>>

Deselect ==
  /\ PageInReach /\ drawer # Nothing
  /\ drawer' = Nothing
  /\ UNCHANGED <<opPage, queries, target, typing, submit, accepted, dialogs>>

----------------------------------------------------------------------------
\* useOperation and its dialog.

\* Seeded bug: what was typed is kept.
KeepTyped(new) == typing

\* Reset when the dialog opens and when it comes to be about another name.
ResetTyped(new) ==
  IF target = Nothing \/ ResourceLabel[target.resource] # ResourceLabel[new.resource]
  THEN [right |-> FALSE, by |-> 0] ELSE typing

RequestOp(r) ==
  /\ dialogs < MaxRequests /\ PageInReach
  /\ drawer = r /\ queries[r].at # Nothing
  /\ dialogs' = dialogs + 1
  /\ target' = [resource |-> r, serial |-> dialogs + 1, over |-> target # Nothing]
  /\ typing' = ResetTyped(target')
  /\ UNCHANGED <<opPage, drawer, queries, submit, accepted>>

\* Seeded bug: the dialog can be left at any time.
CancelAlways == TRUE

MayCancel == submit = Nothing

CancelOp ==
  /\ target # Nothing /\ MayCancel
  /\ target' = Nothing
  /\ UNCHANGED <<opPage, drawer, queries, typing, submit, accepted, dialogs>>

TypeName ==
  /\ target # Nothing /\ ~typing.right
  /\ typing' = [right |-> TRUE, by |-> target.serial]
  /\ UNCHANGED <<opPage, drawer, queries, target, submit, accepted, dialogs>>

ConfirmOp ==
  /\ target # Nothing /\ typing.right /\ submit = Nothing
  /\ submit' = [resource |-> target.resource, serial |-> target.serial, step |-> "sent", left |-> 0]
  /\ UNCHANGED <<opPage, drawer, queries, target, typing, accepted, dialogs>>

OperationAnswered(ok) ==
  /\ submit # Nothing /\ submit.step = "sent"
  /\ submit' = [submit EXCEPT !.step = IF ok THEN "accepted" ELSE "refused"]
  /\ accepted' = IF ok THEN [accepted EXCEPT ![submit.resource] = Latest + 1] ELSE accepted
  /\ UNCHANGED <<opPage, drawer, queries, target, typing, dialogs>>

\* Whatever dialog there is closes.
OpSucceeds ==
  /\ submit # Nothing /\ submit.step = "accepted"
  /\ target' = Nothing
  /\ submit' = [submit EXCEPT !.step = "invalidating", !.left = Len(Invalidates(opPage, submit.resource))]
  /\ UNCHANGED <<opPage, drawer, queries, typing, accepted, dialogs>>

\* The error is shown in whatever dialog there is.
OpFails ==
  /\ submit # Nothing /\ submit.step = "refused"
  /\ submit' = Nothing
  /\ UNCHANGED <<opPage, drawer, queries, target, typing, accepted, dialogs>>

ThisKey == LET keys == Invalidates(opPage, submit.resource) IN keys[Len(keys) - submit.left + 1]

\* One key after the other, each awaited: what is mounted is fetched anew.
InvalidateKey ==
  /\ submit # Nothing /\ submit.step = "invalidating" /\ submit.left > 0
  /\ queries' = [q \in QueryNames |->
                   IF q \notin Matched(ThisKey) THEN queries[q]
                   ELSE IF q \in Mounted THEN Refetch(queries[q]) ELSE MarkStale(queries[q])]
  /\ submit' = [submit EXCEPT !.step = "waiting"]
  /\ UNCHANGED <<opPage, drawer, target, typing, accepted, dialogs>>

KeyAwaited ==
  /\ submit # Nothing /\ submit.step = "waiting"
  /\ \A q \in Matched(ThisKey) \intersect Mounted : ~queries[q].fetching
  /\ submit' = [submit EXCEPT !.step = "invalidating", !.left = @ - 1]
  /\ UNCHANGED <<opPage, drawer, queries, target, typing, accepted, dialogs>>

SubmitDone ==
  /\ submit # Nothing /\ submit.step = "invalidating" /\ submit.left = 0
  /\ submit' = Nothing
  /\ UNCHANGED <<opPage, drawer, queries, target, typing, accepted, dialogs>>

OpNext ==
  \/ \E q \in QueryNames : ReadQuery(q) \/ QueryArrives(q) \/ QueryFails(q) \/ FocusOrInterval(q)
  \/ \E r \in Listed : RequestOp(r) \/ \E aged \in BOOLEAN : Select(r, aged)
  \/ Deselect \/ CancelOp \/ TypeName \/ ConfirmOp \/ OpSucceeds \/ OpFails \/ InvalidateKey \/ KeyAwaited \/ SubmitDone
  \/ \E ok \in BOOLEAN : OperationAnswered(ok)

OpSpec == OpInit /\ [][OpNext]_opVars

----------------------------------------------------------------------------
\* The keys an operation invalidates (use-operation.ts:73): once it is over, what the page
\* shows of its resource was read after it, is being read, could not be, or was being
\* read as its drawer was closed. The drawer of a Proxmox guest, whose key has a number where
\* the operation invalidates a text, is the exception.
Current(query, version) ==
  query.at = Nothing \/ query.at >= version \/ query.failed \/ query.fetching \/ query.overtaken

OutcomesAreShown ==
  submit = Nothing =>
    /\ Current(queries["list"], Latest)
    /\ drawer # Nothing /\ opPage # "proxmox" => Current(queries[drawer], accepted[drawer])

\* The closing and the error of a dialog (use-operation.ts:61): the answer to an operation
\* finds its own dialog or none, but for one that was opened over it with the keyboard.
AnswersFindTheirDialog ==
  submit # Nothing /\ submit.step \in {"accepted", "refused"} /\ target # Nothing =>
    target.serial = submit.serial \/ target.over

\* confirm-dialog.tsx:70, "Reset between openings so a previous confirmation cannot be
\* reused": the name was typed in the dialog that is confirmed, but for the same one.
ConfirmationsAreTheirOwn ==
  submit # Nothing /\ target # Nothing /\ target.serial = submit.serial /\ ~target.over => typing.by = submit.serial

\* What the dialog promises one who confirms: what was typed, answered and shown is of
\* the operation it stands beside.
DialogPromise ==
  /\ OpTypeOK
  /\ OutcomesAreShown
  /\ AnswersFindTheirDialog
  /\ ConfirmationsAreTheirOwn

\* The invariant behind it. Operations are accepted one to a dialog, and one is the last.
OperationsAreCounted ==
  /\ \E r \in Listed : \A s \in Listed : accepted[s] <= accepted[r]
  /\ Latest <= dialogs
  /\ target # Nothing =>
       /\ target.serial <= dialogs
       /\ (submit # Nothing /\ submit.step = "accepted") \/ Latest < target.serial
  /\ submit # Nothing =>
       /\ submit.serial <= dialogs
       /\ submit.step = "sent" => Latest < submit.serial
       /\ submit.step = "waiting" => submit.left > 0

\* A dialog stays for its answer, and a name is typed in the dialog it stands in.
DialogsStay ==
  /\ submit # Nothing /\ submit.step \in {"sent", "accepted", "refused"} =>
       target # Nothing /\ (target.serial = submit.serial \/ target.over)
  /\ typing.right /\ target # Nothing /\ ~target.over => typing.by = target.serial

\* What a query shows is current, or will be when it is looked at.
Settled(q, version) ==
  LET query == queries[q] IN
  /\ query.read # Nothing => query.overtaken \/ query.read >= version
  /\ Current(query, version) \/ (query.stale /\ q \notin Mounted)

ListPending ==
  /\ submit # Nothing
  /\ submit.step = "accepted" \/ (submit.step = "invalidating" /\ submit.left = 3)

ResourcePending(r) ==
  /\ submit # Nothing /\ submit.resource = r
  /\ \/ submit.step = "accepted"
     \/ submit.step = "invalidating" /\ submit.left \in {2, 3}
     \/ submit.step = "waiting" /\ submit.left = 3

QueriesSettle ==
  /\ \A q \in QueryNames : queries[q].read # Nothing => queries[q].fetching
  /\ ListPending \/ Settled("list", Latest)
  /\ opPage = "proxmox" \/ \A r \in Listed : ResourcePending(r) \/ Settled(r, accepted[r])

DialogInvariant ==
  /\ DialogPromise
  /\ OperationsAreCounted
  /\ DialogsStay
  /\ QueriesSettle
=============================================================================
