------------------------------ MODULE SqlEditor ------------------------------
(***************************************************************************)
(* app/database/sql/page.tsx: tabs of SQL, the banner that says what the   *)
(* text of the active tab is judged to be, and the statements run from     *)
(* them. The banner is asked for 400 ms after the last keystroke; requests *)
(* for it and statements are answered in any order.                        *)
(***************************************************************************)
EXTENDS Naturals, Sequences, FiniteSets

CONSTANTS
  Tabs,
  Texts,        \* what an operator may write; NoText is the empty text
  NoText,
  Runs,         \* POSTs of /execute in flight
  MaxSteps,     \* bound on the operator's steps
  MaxAnswersDue \* bound on the classifications asked for and not answered

ASSUME EditorAssumption == NoText \notin Texts /\ MaxSteps \in Nat /\ MaxAnswersDue \in Nat

VARIABLES
  tabs,
  active,
  timer,       \* the text whose classification the timer will ask for, or NoText
  asked,       \* texts whose classification is under way, in the order asked
  banner,
  runs,
  steps

editorVars == <<tabs, active, timer, asked, banner, runs, steps>>

\* A statement is a text as it is or explained.
Statement == [text : Texts, explain : BOOLEAN]
NoStatement == [text |-> NoText, explain |-> FALSE]

\* ran and overlapped, histories: the statement last begun in the tab, and whether
\* two were under way in it at once.
Tab == [open : BOOLEAN, sql : Texts \union {NoText}, running : BOOLEAN, error : BOOLEAN,
        result : {NoStatement} \union Statement, ran : {NoStatement} \union Statement, overlapped : BOOLEAN]

\* late, a history: on its arrival the banner was of another text than the tab's, or
\* older than what had been asked for.
Banner == [shows : {NoStatement} \union Statement, late : BOOLEAN]
NoBanner == [shows |-> NoStatement, late |-> FALSE]

TabRun == [tab : Tabs, statement : Statement]
NoRun == [tab |-> NoText, statement |-> NoStatement]

EditorTypeOK ==
  /\ tabs \in [Tabs -> Tab] /\ active \in Tabs
  /\ \E t \in Tabs : tabs[t].open
  /\ timer \in Texts \union {NoText}
  /\ asked \in Seq(Texts) /\ Len(asked) <= MaxAnswersDue
  /\ banner \in Banner
  /\ runs \in [Runs -> TabRun \union {NoRun}]
  /\ steps \in 0..MaxSteps

ClosedTab == [open |-> FALSE, sql |-> NoText, running |-> FALSE, error |-> FALSE,
           result |-> NoStatement, ran |-> NoStatement, overlapped |-> FALSE]

\* The first tab holds a sample, whose banner is about to be asked for.
EditorInit ==
  \E t \in Tabs, sample \in Texts :
    /\ tabs = [u \in Tabs |-> IF u = t THEN [ClosedTab EXCEPT !.open = TRUE, !.sql = sample] ELSE ClosedTab]
    /\ active = t /\ timer = sample
    /\ asked = <<>> /\ banner = NoBanner /\ runs = [r \in Runs |-> NoRun] /\ steps = 0

----------------------------------------------------------------------------
\* The effect on the text shown: it starts the timer anew, and an empty text
\* takes the banner away.

\* Seeded bug: only typing starts the timer.
ShowsTyped(old, new, typed) == typed

Reclassifies(old, new, typed) == old # new

Shows(old, new, typed) ==
  IF ~Reclassifies(old, new, typed) THEN UNCHANGED <<timer, banner>>
  ELSE /\ timer' = new
       /\ banner' = IF new = NoText THEN NoBanner ELSE banner

Step == steps < MaxSteps /\ steps' = steps + 1

Edit(text) ==
  /\ Step
  /\ text # tabs[active].sql
  /\ tabs' = [tabs EXCEPT ![active].sql = text]
  /\ Shows(tabs[active].sql, text, TRUE)
  /\ UNCHANGED <<active, asked, runs>>

SwitchTab(t) ==
  /\ Step
  /\ tabs[t].open /\ t # active
  /\ active' = t
  /\ Shows(tabs[active].sql, tabs[t].sql, FALSE)
  /\ UNCHANGED <<tabs, asked, runs>>

NewTab(t) ==
  /\ Step
  /\ tabs[t] = ClosedTab /\ \A r \in Runs : runs[r] = NoRun \/ runs[r].tab # t
  /\ tabs' = [tabs EXCEPT ![t] = [ClosedTab EXCEPT !.open = TRUE]]
  /\ active' = t
  /\ Shows(tabs[active].sql, NoText, FALSE)
  /\ UNCHANGED <<asked, runs>>

\* The last tab has no close button.
CloseTab(t, next) ==
  /\ Step
  /\ tabs[t].open /\ tabs[next].open /\ next # t
  /\ tabs' = [tabs EXCEPT ![t] = ClosedTab]
  /\ active' = IF t = active THEN next ELSE active
  /\ Shows(tabs[active].sql, tabs[active'].sql, FALSE)
  /\ UNCHANGED <<asked, runs>>

TimerFires ==
  /\ timer # NoText
  /\ Len(asked) < MaxAnswersDue
  /\ asked' = Append(asked, timer)
  /\ timer' = NoText
  /\ UNCHANGED <<tabs, active, banner, runs, steps>>

Forget(i) == SubSeq(asked, 1, i - 1) \o SubSeq(asked, i + 1, Len(asked))

ClassificationArrives(i) ==
  /\ i \in DOMAIN asked
  /\ asked' = Forget(i)
  /\ banner' = [shows |-> [text |-> asked[i], explain |-> FALSE],
                late |-> asked[i] # tabs[active].sql]
  /\ UNCHANGED <<tabs, active, timer, runs, steps>>

ClassificationFails(i) ==
  /\ i \in DOMAIN asked
  /\ asked' = Forget(i)
  /\ banner' = NoBanner
  /\ UNCHANGED <<tabs, active, timer, runs, steps>>

----------------------------------------------------------------------------
\* Running a statement: the button waits for the tab's last one, Ctrl+Enter does not.

Under(t) == {r \in Runs : runs[r] # NoRun /\ runs[r].tab = t}

Execute(r, explain) ==
  /\ Step
  /\ runs[r] = NoRun /\ tabs[active].sql # NoText
  /\ LET statement == [text |-> tabs[active].sql, explain |-> explain] IN
       /\ runs' = [runs EXCEPT ![r] = [tab |-> active, statement |-> statement]]
       /\ tabs' = [tabs EXCEPT ![active].running = TRUE, ![active].error = FALSE, ![active].ran = statement,
                               ![active].overlapped = @ \/ Under(active) # {}]
  /\ UNCHANGED <<active, timer, asked, banner>>

\* Seeded bug: an answer goes to the tab that is active when it comes.
ActiveTab(run) == active

TabOf(run) == run.tab

\* Seeded bug: a statement that fails leaves its tab running.
AnsweredIfWell(tab, fields) ==
  [tab EXCEPT !.running = @ /\ fields.error, !.error = fields.error, !.result = fields.result]

Answered(tab, fields) ==
  [tab EXCEPT !.running = FALSE, !.error = fields.error, !.result = fields.result]

\* A closed tab takes no answer.
AnswerTab(t, fields) ==
  tabs' = IF tabs[t].open THEN [tabs EXCEPT ![t] = Answered(@, fields)] ELSE tabs

\* The banner becomes the statement's, whichever tab is active by then.
RunEnds(r) ==
  /\ runs[r] # NoRun
  /\ AnswerTab(TabOf(runs[r]), [error |-> FALSE, result |-> runs[r].statement])
  /\ banner' = [shows |-> runs[r].statement,
                late |-> runs[r].statement # [text |-> tabs[active].sql, explain |-> FALSE]]
  /\ runs' = [runs EXCEPT ![r] = NoRun]
  /\ UNCHANGED <<active, timer, asked, steps>>

RunFails(r) ==
  /\ runs[r] # NoRun
  /\ AnswerTab(TabOf(runs[r]), [error |-> TRUE, result |-> NoStatement])
  /\ runs' = [runs EXCEPT ![r] = NoRun]
  /\ UNCHANGED <<active, timer, asked, banner, steps>>

EditorNext ==
  \/ \E text \in Texts \union {NoText} : Edit(text)
  \/ \E t \in Tabs : SwitchTab(t) \/ NewTab(t)
  \/ \E t, next \in Tabs : CloseTab(t, next)
  \/ TimerFires
  \/ \E i \in 1..MaxAnswersDue : ClassificationArrives(i) \/ ClassificationFails(i)
  \/ \E r \in Runs : Execute(r, TRUE) \/ Execute(r, FALSE) \/ RunEnds(r) \/ RunFails(r)

EditorSpec == EditorInit /\ [][EditorNext]_editorVars

----------------------------------------------------------------------------
\* The effect of sql/page.tsx:95: when no classification is due, a banner is of the text
\* the active tab holds, whatever was typed, opened, closed or switched to since, but
\* for one that came late: of a text left meanwhile, of a statement explained, or of
\* one run in another tab.
BannersFollowTheText ==
  timer = NoText /\ asked = <<>> /\ banner # NoBanner /\ ~banner.late =>
    banner.shows = [text |-> tabs[active].sql, explain |-> FALSE]

\* execute (sql/page.tsx:113): an answer goes to the tab its statement was run in,
\* where it is the last one's, unless two ran in the tab at once or it was closed.
ResultsStayInTheirTab ==
  \A t \in Tabs : tabs[t].result # NoStatement /\ ~tabs[t].running /\ ~tabs[t].overlapped => tabs[t].result = tabs[t].ran

\* A tab shows its statement as running until it is answered, unless two ran at once.
RunningTabsShowIt ==
  \A t \in Tabs : tabs[t].open /\ ~tabs[t].overlapped => (tabs[t].running <=> Under(t) # {})

\* What the editor promises: banners, results and running marks are of the tab they are
\* shown in.
EditorPromise ==
  /\ EditorTypeOK
  /\ BannersFollowTheText
  /\ ResultsStayInTheirTab
  /\ RunningTabsShowIt

\* What the promise rests on: somebody who types or runs does so in an open tab, and a tab
\* in which two statements never met has at most one under way, the one last begun in it.
OneRunAtATime(t) ==
  tabs[t].open /\ ~tabs[t].overlapped =>
    \A r \in Under(t) : runs[r].statement = tabs[t].ran /\ Under(t) = {r}

EditorInvariant ==
  /\ EditorPromise
  /\ tabs[active].open
  /\ \A t \in Tabs : OneRunAtATime(t)
=============================================================================
