-------------------------- MODULE ConnectionDialog --------------------------
(***************************************************************************)
(* app/settings/connections/page.tsx: one dialog to add, edit and remove a  *)
(* connection, gated by a test, over a list whose rows have buttons of      *)
(* their own; and the handlers of routes/connections.ts, each one step here *)
(* (ProviderConnections has their statements). The page behind the dialog   *)
(* stays within reach of the keyboard. Which fields a form has, and what    *)
(* becomes of them, is ConnectionForm: here a connection has a shape.      *)
(***************************************************************************)
EXTENDS Naturals, FiniteSets

CONSTANTS
  Conns,       \* connections there are or may come to be
  NoConn,      \* nothing there
  RowCalls,    \* requests of the rows' buttons
  MaxDialogs,  \* bound on dialogs opened
  MaxWrites    \* bound on writes, of the page and of others

VARIABLES
  connRows,   \* the table connections
  connPage,   \* the page's state: its dialog, the values typed, the test result shown, the row that is busy
  connTest,   \* the test in flight: what it will say
  connSave,   \* the save or removal in flight
  rowCalls,   \* the calls of the rows' buttons
  connList,   \* the rows the page shows, or that they could not be fetched; the fetch of them in flight
  connWrites  \* history: how many writes there were, and how many at the last one of the page

connVars == <<connRows, connPage, connTest, connSave, rowCalls, connList, connWrites>>

\* The settings and secrets of a connection, or those typed: they work or they do not.
Shapes == {"works", "fails"}

\* serial: which dialog this is. Of a result, histories: of which dialog it is, and of
\* what; whether its test began during a save or removal (amid), and whether another dialog
\* was opened over one before it was answered (covered).
Dialog == [mode : {"none", "create", "edit", "delete"}, conn : Conns \union {NoConn}, serial : 0..MaxDialogs]
Result == [serial : 0..MaxDialogs, shape : Shapes, amid : BOOLEAN, covered : BOOLEAN]
Page == [dialog : Dialog, typed : Shapes, result : Result \union {NoConn},
         rowBusy : Conns \union {NoConn}, opened : 0..MaxDialogs]

Step == {"sent", "done", "failed", "refreshing"}
Save == [mode : {"create", "edit", "delete"}, conn : Conns \union {NoConn}, shape : Shapes, step : Step]
Call == [conn : Conns, step : Step]
Snapshot == [rows : [Conns -> Shapes \union {NoConn}], at : 0..MaxWrites]
List == [shown : Snapshot, failed : BOOLEAN, fetching : BOOLEAN, fetched : Snapshot \union {NoConn}]

\* NoConn stands for what is not there.
ASSUME ConnAssumption ==
  /\ MaxDialogs \in Nat /\ MaxWrites \in Nat
  /\ NoConn \notin Conns /\ NoConn \notin Shapes
  /\ NoConn \notin Result /\ NoConn \notin Save /\ NoConn \notin Call /\ NoConn \notin Snapshot

ConnTypeOK ==
  /\ connRows \in [Conns -> Shapes \union {NoConn}]
  /\ connPage \in Page
  /\ connTest \in Result \union {NoConn}
  /\ connSave \in Save \union {NoConn}
  /\ rowCalls \in [RowCalls -> Call \union {NoConn}]
  /\ connList \in List
  /\ connWrites \in [all : 0..MaxWrites, own : 0..MaxWrites]

NoDialog == [mode |-> "none", conn |-> NoConn, serial |-> 0]
BlankForm == "fails"

ConnInit ==
  /\ connRows \in [Conns -> {"works", NoConn}]
  /\ connPage = [dialog |-> NoDialog, typed |-> BlankForm, result |-> NoConn, rowBusy |-> NoConn, opened |-> 0]
  /\ connTest = NoConn /\ connSave = NoConn
  /\ rowCalls = [r \in RowCalls |-> NoConn]
  /\ connList = [shown |-> [rows |-> connRows, at |-> 0], failed |-> FALSE, fetching |-> FALSE, fetched |-> NoConn]
  /\ connWrites = [all |-> 0, own |-> 0]

----------------------------------------------------------------------------
\* The list: polled, and fetched anew by refresh, which gives up a fetch in flight.

RestUntouched == UNCHANGED <<connRows, connPage, connTest, connSave, rowCalls, connWrites>>

PollConns ==
  /\ ~connList.fetching
  /\ connList' = [connList EXCEPT !.fetching = TRUE]
  /\ RestUntouched

ReadConns ==
  /\ connList.fetching /\ connList.fetched = NoConn
  /\ connList' = [connList EXCEPT !.fetched = [rows |-> connRows, at |-> connWrites.all]]
  /\ RestUntouched

\* Seeded bug: a fetch in flight is waited for.
JoinRefresh(shows) == [shows EXCEPT !.fetching = TRUE]

Refresh(shows) == [shows EXCEPT !.fetching = TRUE, !.fetched = NoConn]

\* A fetch that ends, or is given up, ends the wait of everyone who refreshes by it.
Waiting == {r \in RowCalls : connList.fetching /\ rowCalls[r] # NoConn /\ rowCalls[r].step = "refreshing"}
AfterWait(calls) == [r \in RowCalls |-> IF r \in Waiting THEN NoConn ELSE calls[r]]
SaveAfterWait == IF connList.fetching /\ connSave # NoConn /\ connSave.step = "refreshing" THEN NoConn ELSE connSave
PageAfterWait(page) == IF Waiting = {} THEN page ELSE [page EXCEPT !.rowBusy = NoConn]

ConnsArrive ==
  /\ connList.fetched # NoConn
  /\ connList' = [shown |-> connList.fetched, failed |-> FALSE, fetching |-> FALSE, fetched |-> NoConn]
  /\ connSave' = SaveAfterWait /\ rowCalls' = AfterWait(rowCalls)
  /\ connPage' = PageAfterWait(connPage)
  /\ UNCHANGED <<connRows, connTest, connWrites>>

\* An error takes the place of the rows until a fetch succeeds.
ConnsFail ==
  /\ connList.fetching
  /\ connList' = [connList EXCEPT !.failed = TRUE, !.fetching = FALSE, !.fetched = NoConn]
  /\ connSave' = SaveAfterWait /\ rowCalls' = AfterWait(rowCalls)
  /\ connPage' = PageAfterWait(connPage)
  /\ UNCHANGED <<connRows, connTest, connWrites>>

----------------------------------------------------------------------------
\* The dialog. The choice of a type is part of its opening.

Opened(mode, conn) == [mode |-> mode, conn |-> conn, serial |-> connPage.opened + 1]

\* A test in flight is left to answer.
Covers ==
  connTest' = IF connTest # NoConn /\ connPage.dialog.mode # "none" THEN [connTest EXCEPT !.covered = TRUE] ELSE connTest

MayOpen == connPage.opened < MaxDialogs
Offered(c) == ~connList.failed /\ connList.shown.rows[c] # NoConn

StartCreate ==
  /\ MayOpen
  /\ connPage' = [connPage EXCEPT !.dialog = Opened("create", NoConn), !.opened = @ + 1,
                                  !.typed = BlankForm, !.result = NoConn]
  /\ Covers
  /\ UNCHANGED <<connRows, connSave, rowCalls, connList, connWrites>>

StartEdit(c) ==
  /\ MayOpen /\ Offered(c)
  /\ connPage' = [connPage EXCEPT !.dialog = Opened("edit", c), !.opened = @ + 1, !.result = NoConn,
                                  !.typed = connList.shown.rows[c]]
  /\ Covers
  /\ UNCHANGED <<connRows, connSave, rowCalls, connList, connWrites>>

StartDelete(c) ==
  /\ MayOpen /\ Offered(c)
  /\ connPage' = [connPage EXCEPT !.dialog = Opened("delete", c), !.opened = @ + 1]
  /\ Covers
  /\ UNCHANGED <<connRows, connSave, rowCalls, connList, connWrites>>

\* Seeded bug: only a save keeps the dialog open.
MayCloseTesting == connSave = NoConn

MayClose == connSave = NoConn /\ connTest = NoConn

CloseConn ==
  /\ connPage.dialog.mode # "none" /\ MayClose
  /\ connPage' = [connPage EXCEPT !.dialog = NoDialog, !.typed = BlankForm, !.result = NoConn]
  /\ UNCHANGED <<connRows, connTest, connSave, rowCalls, connList, connWrites>>

\* The inputs stay enabled, whatever is in flight, and typing leaves the result.
TypeIn(shape) ==
  /\ connPage.dialog.mode \in {"create", "edit"}
  /\ connPage' = [connPage EXCEPT !.typed = shape]
  /\ UNCHANGED <<connRows, connTest, connSave, rowCalls, connList, connWrites>>

RunTest ==
  /\ connPage.dialog.mode \in {"create", "edit"} /\ connTest = NoConn
  /\ connTest' = [serial |-> connPage.dialog.serial, shape |-> connPage.typed,
                  amid |-> connSave # NoConn, covered |-> FALSE]
  /\ connPage' = [connPage EXCEPT !.result = NoConn]
  /\ UNCHANGED <<connRows, connSave, rowCalls, connList, connWrites>>

\* The answer is shown in whatever dialog there is. A payload the schema refuses, or a call
\* that fails, is an error and shows no result.
TestEnds(answered) ==
  /\ connTest # NoConn
  /\ connPage' = [connPage EXCEPT !.result = IF answered THEN connTest ELSE @]
  /\ connTest' = NoConn
  /\ UNCHANGED <<connRows, connSave, rowCalls, connList, connWrites>>

CanSave == connPage.result # NoConn /\ connPage.result.shape = "works"

BeginSave ==
  /\ connPage.dialog.mode \in {"create", "edit"} /\ CanSave /\ connSave = NoConn
  /\ connSave' = [mode |-> connPage.dialog.mode, conn |-> connPage.dialog.conn, shape |-> connPage.typed, step |-> "sent"]
  /\ UNCHANGED <<connRows, connPage, connTest, rowCalls, connList, connWrites>>

BeginRemove ==
  /\ connPage.dialog.mode = "delete" /\ connSave = NoConn
  /\ connSave' = [mode |-> "delete", conn |-> connPage.dialog.conn, shape |-> BlankForm, step |-> "sent"]
  /\ UNCHANGED <<connRows, connPage, connTest, rowCalls, connList, connWrites>>

\* A save closes the dialog there is and clears its form, a removal only closes it.
SaveEnds ==
  /\ connSave # NoConn /\ connSave.step = "done"
  /\ connPage' = PageAfterWait(IF connSave.mode = "delete" THEN [connPage EXCEPT !.dialog = NoDialog]
                               ELSE [connPage EXCEPT !.dialog = NoDialog, !.typed = BlankForm, !.result = NoConn])
  /\ connSave' = [connSave EXCEPT !.step = "refreshing"] /\ rowCalls' = AfterWait(rowCalls)
  /\ connList' = Refresh(connList)
  /\ UNCHANGED <<connRows, connTest, connWrites>>

SaveFails ==
  /\ connSave # NoConn /\ connSave.step = "failed"
  /\ connSave' = NoConn
  /\ UNCHANGED <<connRows, connPage, connTest, rowCalls, connList, connWrites>>

----------------------------------------------------------------------------
\* The buttons of a row: its test and its switch. All share one slot for the row that is busy.

Press(r, c) ==
  /\ rowCalls[r] = NoConn /\ connPage.rowBusy # c /\ Offered(c)
  /\ rowCalls' = [rowCalls EXCEPT ![r] = [conn |-> c, step |-> "sent"]]
  /\ connPage' = [connPage EXCEPT !.rowBusy = c]
  /\ UNCHANGED <<connRows, connTest, connSave, connList, connWrites>>

PressEnds(r) ==
  /\ rowCalls[r] # NoConn /\ rowCalls[r].step = "done"
  /\ rowCalls' = AfterWait([rowCalls EXCEPT ![r].step = "refreshing"])
  /\ connSave' = SaveAfterWait /\ connPage' = PageAfterWait(connPage)
  /\ connList' = Refresh(connList)
  /\ UNCHANGED <<connRows, connTest, connWrites>>

\* Seeded bug: the row stays busy when its call fails.
LeaveBusy(busy) == busy

ClearBusy(busy) == NoConn

PressFails(r) ==
  /\ rowCalls[r] # NoConn /\ rowCalls[r].step = "failed"
  /\ rowCalls' = [rowCalls EXCEPT ![r] = NoConn]
  /\ connPage' = [connPage EXCEPT !.rowBusy = ClearBusy(@)]
  /\ UNCHANGED <<connRows, connTest, connSave, connList, connWrites>>

----------------------------------------------------------------------------
\* The handlers. A new connection is tested once more before it is stored, an update is not.

Wrote(rows, own) ==
  /\ connWrites.all < MaxWrites
  /\ connRows' = rows
  /\ connWrites' = [all |-> connWrites.all + 1, own |-> IF own THEN connWrites.all + 1 ELSE connWrites.own]

PostConnection(c) ==
  /\ connSave # NoConn /\ connSave.mode = "create" /\ connSave.step = "sent"
  /\ connSave.shape = "works" /\ connRows[c] = NoConn
  /\ Wrote([connRows EXCEPT ![c] = connSave.shape], TRUE)
  /\ connSave' = [connSave EXCEPT !.step = "done", !.conn = c]
  /\ UNCHANGED <<connPage, connTest, rowCalls, connList>>

PatchConnection ==
  /\ connSave # NoConn /\ connSave.mode = "edit" /\ connSave.step = "sent"
  /\ connRows[connSave.conn] # NoConn
  /\ Wrote([connRows EXCEPT ![connSave.conn] = connSave.shape], TRUE)
  /\ connSave' = [connSave EXCEPT !.step = "done"]
  /\ UNCHANGED <<connPage, connTest, rowCalls, connList>>

DeleteConnection ==
  /\ connSave # NoConn /\ connSave.mode = "delete" /\ connSave.step = "sent"
  /\ connRows[connSave.conn] # NoConn
  /\ Wrote([connRows EXCEPT ![connSave.conn] = NoConn], TRUE)
  /\ connSave' = [connSave EXCEPT !.step = "done"]
  /\ UNCHANGED <<connPage, connTest, rowCalls, connList>>

\* Refused, or lost on the way; a connection that is gone or does not work is always refused.
FailSave ==
  /\ connSave # NoConn /\ connSave.step = "sent"
  /\ connSave' = [connSave EXCEPT !.step = "failed"]
  /\ UNCHANGED <<connRows, connPage, connTest, rowCalls, connList, connWrites>>

\* Switching a row on or off, or storing the outcome of its test, leaves its shape.
PostRow(r) ==
  /\ rowCalls[r] # NoConn /\ rowCalls[r].step = "sent" /\ connRows[rowCalls[r].conn] # NoConn
  /\ Wrote(connRows, TRUE)
  /\ rowCalls' = [rowCalls EXCEPT ![r].step = "done"]
  /\ UNCHANGED <<connPage, connTest, connSave, connList>>

FailPress(r) ==
  /\ rowCalls[r] # NoConn /\ rowCalls[r].step = "sent"
  /\ rowCalls' = [rowCalls EXCEPT ![r].step = "failed"]
  /\ UNCHANGED <<connRows, connPage, connTest, connSave, connList, connWrites>>

\* Another operator.
RemovedElsewhere(c) ==
  /\ connRows[c] # NoConn
  /\ Wrote([connRows EXCEPT ![c] = NoConn], FALSE)
  /\ UNCHANGED <<connPage, connTest, connSave, rowCalls, connList>>

ConnNext ==
  \/ PollConns \/ ReadConns \/ ConnsArrive \/ ConnsFail
  \/ StartCreate \/ CloseConn \/ RunTest \/ BeginSave \/ BeginRemove \/ SaveEnds \/ SaveFails
  \/ PatchConnection \/ DeleteConnection \/ FailSave
  \/ \E c \in Conns : StartEdit(c) \/ StartDelete(c) \/ PostConnection(c) \/ RemovedElsewhere(c)
  \/ \E shape \in Shapes : TypeIn(shape)
  \/ \E answered \in BOOLEAN : TestEnds(answered)
  \/ \E r \in RowCalls : PressEnds(r) \/ PressFails(r) \/ PostRow(r) \/ FailPress(r)
  \/ \E r \in RowCalls, c \in Conns : Press(r, c)

ConnSpec == ConnInit /\ [][ConnNext]_connVars

----------------------------------------------------------------------------
\* The gate of the Save button (page.tsx:238): what opens it is a test of this very dialog.
\* Two ways round it are known: a test begun while a dialog was being saved or removed, and
\* one during which the keyboard opened a dialog over its own; their answer may land in a
\* later dialog.
GateIsOfThisDialog ==
  CanSave /\ connPage.dialog.mode \in {"create", "edit"} =>
    connPage.result.serial = connPage.dialog.serial \/ connPage.result.amid \/ connPage.result.covered

\* refresh (page.tsx:118): when no call of the page is under way, its list is one read after
\* the last write the page made, whatever polls were in flight, or an error.
OwnWritesAreShown ==
  connSave = NoConn /\ (\A r \in RowCalls : rowCalls[r] = NoConn) =>
    connList.failed \/ connList.shown.at >= connWrites.own

\* testSaved and toggleEnabled (page.tsx:197): the buttons of a row are busy only while a
\* call about that row is under way, though all rows share one slot and calls fail.
BusyRowsHaveCalls ==
  connPage.rowBusy # NoConn => \E r \in RowCalls : rowCalls[r] # NoConn /\ rowCalls[r].conn = connPage.rowBusy

\* What the page of connections promises its operator, however dialogs, rows and polls
\* overlap.
ConnPromise ==
  /\ ConnTypeOK
  /\ GateIsOfThisDialog
  /\ OwnWritesAreShown
  /\ BusyRowsHaveCalls

\* The invariant behind it. A test belongs to the dialog there is, unless it is known why not.
Belongs(result) ==
  \/ connPage.dialog.mode \in {"create", "edit"} /\ result.serial = connPage.dialog.serial
  \/ result.amid \/ result.covered

TestsBelong ==
  /\ connTest # NoConn => connPage.result = NoConn /\ Belongs(connTest)
  /\ connTest # NoConn /\ connSave # NoConn => connTest.amid \/ connTest.covered
  /\ connPage.result # NoConn /\ connPage.dialog.mode \in {"create", "edit"} => Belongs(connPage.result)

\* What the page wrote is in its list, or a call has yet to ask for it or waits for it.
Calling(step) ==
  \/ connSave # NoConn /\ connSave.step = step
  \/ \E r \in RowCalls : rowCalls[r] # NoConn /\ rowCalls[r].step = step

ListFollows ==
  /\ connList.shown.at <= connWrites.all /\ connWrites.own <= connWrites.all
  /\ connList.fetched # NoConn =>
       connList.fetching /\ connList.shown.at <= connList.fetched.at /\ connList.fetched.at <= connWrites.all
  /\ \/ Calling("done")
     \/ /\ connList.fetched # NoConn => connWrites.own <= connList.fetched.at
        /\ \/ connList.failed \/ connWrites.own <= connList.shown.at
           \/ connList.fetching /\ Calling("refreshing")

ConnInvariant ==
  /\ ConnPromise
  /\ TestsBelong
  /\ ListFollows
=============================================================================
