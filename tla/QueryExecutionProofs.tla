------------------------ MODULE QueryExecutionProofs ------------------------
(* Proofs about statements and write windows, for every value of the constants. *)
EXTENDS QueryExecution, SqlEditor, TableBrowser, HistoryPages, Catalog, SequenceTheorems,
        FiniteSetTheorems, WellFoundedInduction, TLAPS

\* A window's row is never NoRow, a request being served never Idle.
LEMMA Sentinels ==
  /\ \A row \in Window : row # NoRow
  /\ \A query \in Query : query # Idle
  /\ \A activation \in Activation : activation # Idle
  /\ Idle.step = "idle"
BY DEF Window, NoRow, Query, Activation, Idle

LEMMA RevokedType == \A row \in Window : [row EXCEPT !.live = FALSE] \in Window
BY DEF Window

LEMMA AuditedType ==
  \A row \in Window, audit \in {"pending", "written", "failed"} :
    [row EXCEPT !.audit = audit] \in Window
BY DEF Window

\* Typing needs one fact more: a request past its insert has a row.
ActivationsHaveRows ==
  \A a \in Activations :
    activations[a].step \in {"inserted", "unaudited"} => activations[a].window \in Rows

TypeInv == TypeOK /\ ActivationsHaveRows

LEMMA TypeInit == Init => TypeInv
BY QueryAssumption DEF Init, TypeInv, TypeOK, ActivationsHaveRows, Idle

\* Closing windows keeps the rows and their types, and touches only `live`.
LEMMA ClosedKeepsRows ==
  ASSUME TypeOK, NEW u, NEW c
  PROVE  /\ Closed(u, c) \in [WindowIds -> Window \union {NoRow}]
         /\ \A w \in WindowIds : Closed(u, c)[w] = NoRow <=> windows[w] = NoRow
         /\ \A w \in Rows : /\ Closed(u, c)[w].user = windows[w].user
                            /\ Closed(u, c)[w].connection = windows[w].connection
<1>1. \A w \in LiveWindows(u, c) : w \in Rows /\ windows[w] \in Window
  BY DEF LiveWindows, Rows, TypeOK
<1>2. \A w \in WindowIds :
        Closed(u, c)[w] = IF w \in LiveWindows(u, c) THEN [windows[w] EXCEPT !.live = FALSE]
                                                      ELSE windows[w]
  BY DEF Closed
<1>3. Closed(u, c) \in [WindowIds -> Window \union {NoRow}]
  BY <1>1, RevokedType DEF Closed, TypeOK
<1>4. \A w \in WindowIds : Closed(u, c)[w] = NoRow <=> windows[w] = NoRow
  BY <1>1, <1>2, RevokedType, Sentinels DEF Rows
<1>5. ASSUME NEW w \in Rows
      PROVE  /\ Closed(u, c)[w].user = windows[w].user
             /\ Closed(u, c)[w].connection = windows[w].connection
  <2>1. windows[w] \in Window /\ w \in WindowIds
    BY DEF Rows, TypeOK
  <2> QED BY <2>1, <1>2 DEF Window
<1> QED BY <1>3, <1>4, <1>5

\* What one step does to the windows: rows stay, with their user and connection.
RowsStay ==
  /\ windows' \in [WindowIds -> Window \union {NoRow}]
  /\ Rows \subseteq Rows'
  /\ \A w \in Rows : /\ windows'[w].user = windows[w].user
                     /\ windows'[w].connection = windows[w].connection

LEMMA RowsStayClosed ==
  ASSUME TypeOK, NEW u, NEW c, windows' = Closed(u, c)
  PROVE  RowsStay
BY ClosedKeepsRows DEF RowsStay, Rows

LEMMA RowsStayUnchanged ==
  ASSUME TypeOK, UNCHANGED windows PROVE RowsStay
BY DEF RowsStay, Rows, TypeOK

LEMMA RowsStayOpened ==
  ASSUME TypeInv, NEW a \in Activations, OpenWindow(a)
  PROVE  RowsStay
<1>1. activations[a] \in Activation
  BY Sentinels DEF TypeInv, TypeOK, OpenWindow
<1>2. PICK w \in WindowIds \ Rows : windows' = [windows EXCEPT ![w] =
            [user |-> activations[a].user, connection |-> activations[a].connection,
             live |-> TRUE, audit |-> "pending"]]
  BY DEF OpenWindow
<1>3. [user |-> activations[a].user, connection |-> activations[a].connection,
       live |-> TRUE, audit |-> "pending"] \in Window
  BY <1>1 DEF Activation, Window
<1> QED BY <1>2, <1>3, Sentinels DEF RowsStay, Rows, TypeInv, TypeOK

LEMMA RowsStayAudited ==
  ASSUME TypeInv, NEW a \in Activations, AuditWindow(a)
  PROVE  RowsStay
<1> DEFINE w == activations[a].window
<1>1. w \in Rows /\ w \in WindowIds /\ windows[w] \in Window
  BY DEF TypeInv, TypeOK, ActivationsHaveRows, AuditWindow, Rows
<1>2. PICK audit \in {"written", "failed"} : windows' = [windows EXCEPT ![w].audit = audit]
  BY DEF AuditWindow
<1>3. windows' = [windows EXCEPT ![w] = [windows[w] EXCEPT !.audit = audit]]
  BY <1>2
<1> HIDE DEF w
<1>4. [windows[w] EXCEPT !.audit = audit] \in Window
      /\ [windows[w] EXCEPT !.audit = audit].user = windows[w].user
      /\ [windows[w] EXCEPT !.audit = audit].connection = windows[w].connection
  BY <1>1 DEF Window
<1> QED BY <1>1, <1>3, <1>4, Sentinels DEF RowsStay, Rows, TypeInv, TypeOK

LEMMA RowsStayExpired ==
  ASSUME TypeInv, NEW w \in WindowIds, Expire(w)
  PROVE  RowsStay
<1>1. w \in Rows /\ windows[w] \in Window
  BY DEF TypeInv, TypeOK, Expire, Rows, NoRow
<1>2. windows' = [windows EXCEPT ![w] = [windows[w] EXCEPT !.live = FALSE]]
  BY DEF Expire
<1>3. [windows[w] EXCEPT !.live = FALSE] \in Window
      /\ [windows[w] EXCEPT !.live = FALSE].user = windows[w].user
      /\ [windows[w] EXCEPT !.live = FALSE].connection = windows[w].connection
  BY <1>1 DEF Window
<1> QED BY <1>1, <1>2, <1>3, Sentinels DEF RowsStay, Rows, TypeInv, TypeOK

LEMMA EveryStepKeepsRows == TypeInv /\ [Next]_vars => RowsStay
<1> SUFFICES ASSUME TypeInv, [Next]_vars PROVE RowsStay
  OBVIOUS
<1>1. TypeOK
  BY DEF TypeInv
<1>2. CASE UNCHANGED windows
  BY <1>1, <1>2, RowsStayUnchanged
<1>3. ASSUME NEW a \in Activations, OpenWindow(a) PROVE RowsStay
  BY <1>3, RowsStayOpened
<1>4. ASSUME NEW a \in Activations, AuditWindow(a) PROVE RowsStay
  BY <1>4, RowsStayAudited
<1>5. ASSUME NEW a \in Activations, RollBackWindow(a) PROVE RowsStay
  BY <1>1, <1>5, RowsStayClosed DEF RollBackWindow
<1>6. ASSUME NEW u \in Users, NEW c \in Connections, CloseWindow(u, c) PROVE RowsStay
  BY <1>1, <1>6, RowsStayClosed DEF CloseWindow
<1>7. ASSUME NEW w \in WindowIds, Expire(w) PROVE RowsStay
  BY <1>7, RowsStayExpired
<1>8. ASSUME NEW q \in Queries, Allow(q) \/ Refuse(q) \/ Connect(q) \/ Run(q) \/ FailQuery(q)
      PROVE  UNCHANGED windows
  BY <1>8 DEF Allow, Refuse, Connect, Run, FailQuery
<1>9. ASSUME NEW q \in Queries, NEW u \in Users, NEW c \in Connections,
             NEW class \in Classifications, NEW changes \in BOOLEAN,
             Submit(q, u, c, class, changes)
      PROVE  UNCHANGED windows
  BY <1>9 DEF Submit
<1>10. ASSUME NEW a \in Activations, NEW u \in Users, NEW c \in Connections,
              RequestWindow(a, u, c)
       PROVE  UNCHANGED windows
  BY <1>10 DEF RequestWindow
<1>11. ASSUME NEW a \in Activations, EndActivation(a) PROVE UNCHANGED windows
  BY <1>11 DEF EndActivation
<1>12. ASSUME NEW u \in Users, NEW c \in Connections, NEW override \in Overrides,
              SetOverride(u, c, override)
       PROVE  UNCHANGED windows
  BY <1>12 DEF SetOverride
<1>13. CASE UNCHANGED vars
  BY <1>13, <1>2 DEF vars
<1> QED BY <1>2, <1>3, <1>4, <1>5, <1>6, <1>7, <1>8, <1>9, <1>10, <1>11, <1>12, <1>13 DEF Next

\* What one step does to the requests: each stays as it is or becomes another of its kind.
LEMMA QueriesTyped ==
  TypeInv /\ [Next]_vars => queries' \in [Queries -> Query \union {Idle}]
<1> SUFFICES ASSUME TypeInv, [Next]_vars
             PROVE  queries' \in [Queries -> Query \union {Idle}]
  OBVIOUS
<1> USE DEF TypeInv, TypeOK
<1>1. CASE UNCHANGED queries
  BY <1>1
<1>2. ASSUME NEW q \in Queries, NEW u \in Users, NEW c \in Connections,
             NEW class \in Classifications, NEW changes \in BOOLEAN,
             Submit(q, u, c, class, changes)
      PROVE  queries' \in [Queries -> Query \union {Idle}]
  BY <1>2 DEF Submit, Query
<1>3. ASSUME NEW q \in Queries, Allow(q)
      PROVE  queries' \in [Queries -> Query \union {Idle}]
  <2>1. queries[q] \in Query
    BY <1>3, Sentinels DEF Allow
  <2>2. [queries[q] EXCEPT !.step = "allowed"] \in Query
    BY <2>1 DEF Query
  <2>3. ASSUME NEW w \in LiveWindows(queries[q].user, queries[q].connection)
        PROVE  [queries[q] EXCEPT !.step = "allowed", !.window = w, !.readOnlySession = FALSE]
                 \in Query
    BY <2>1, <2>3 DEF Query, LiveWindows, Rows
  <2> QED BY <1>3, <2>2, <2>3 DEF Allow
<1>4. ASSUME NEW q \in Queries, Refuse(q) \/ FailQuery(q)
      PROVE  queries' \in [Queries -> Query \union {Idle}]
  <2>1. queries[q] \in Query
    BY <1>4, Sentinels DEF Refuse, FailQuery
  <2>2. [queries[q] EXCEPT !.step = "ended"] \in Query
    BY <2>1 DEF Query
  <2> QED BY <1>4, <2>2 DEF Refuse, FailQuery
<1>5. ASSUME NEW q \in Queries, Connect(q)
      PROVE  queries' \in [Queries -> Query \union {Idle}]
  <2>1. queries[q] \in Query
    BY <1>5, Sentinels DEF Connect
  <2>2. [queries[q] EXCEPT !.step = "connected"] \in Query
    BY <2>1 DEF Query
  <2> QED BY <1>5, <2>2 DEF Connect
<1>6. ASSUME NEW q \in Queries, Run(q)
      PROVE  queries' \in [Queries -> Query \union {Idle}]
  <2> DEFINE changed == queries[q].changes /\ ~SessionRefusesChanges(queries[q])
  <2>1. queries[q] \in Query
    BY <1>6, Sentinels DEF Run
  <2>2. changed \in BOOLEAN
    OBVIOUS
  <2>3. queries' = [queries EXCEPT ![q] = [queries[q] EXCEPT !.step = "ended", !.changed = changed]]
    BY <1>6 DEF Run
  <2> HIDE DEF changed
  <2>4. [queries[q] EXCEPT !.step = "ended", !.changed = changed] \in Query
    BY <2>1, <2>2 DEF Query
  <2> QED BY <2>3, <2>4
<1>7. ASSUME NEW a \in Activations, OpenWindow(a) \/ AuditWindow(a) \/ RollBackWindow(a)
                                      \/ EndActivation(a)
      PROVE  UNCHANGED queries
  BY <1>7 DEF OpenWindow, AuditWindow, RollBackWindow, EndActivation
<1>8. ASSUME NEW a \in Activations, NEW u \in Users, NEW c \in Connections,
             RequestWindow(a, u, c)
      PROVE  UNCHANGED queries
  BY <1>8 DEF RequestWindow
<1>9. ASSUME NEW u \in Users, NEW c \in Connections, CloseWindow(u, c)
      PROVE  UNCHANGED queries
  BY <1>9 DEF CloseWindow
<1>10. ASSUME NEW w \in WindowIds, Expire(w)
       PROVE  UNCHANGED queries
  BY <1>10 DEF Expire
<1>11. ASSUME NEW u \in Users, NEW c \in Connections, NEW override \in Overrides,
              SetOverride(u, c, override)
       PROVE  UNCHANGED queries
  BY <1>11 DEF SetOverride
<1>12. CASE UNCHANGED vars
  BY <1>12, <1>1 DEF vars
<1> QED BY <1>1, <1>2, <1>3, <1>4, <1>5, <1>6, <1>7, <1>8, <1>9, <1>10, <1>11, <1>12 DEF Next

ActivationsTyped ==
  /\ activations \in [Activations -> Activation \union {Idle}]
  /\ ActivationsHaveRows

LEMMA ActivationsStayTyped == TypeInv /\ [Next]_vars => ActivationsTyped'
<1> SUFFICES ASSUME TypeInv, [Next]_vars PROVE ActivationsTyped'
  OBVIOUS
<1>1. RowsStay
  BY EveryStepKeepsRows
<1> USE DEF TypeInv, TypeOK, ActivationsTyped, ActivationsHaveRows
<1>2. CASE UNCHANGED activations
  BY <1>1, <1>2 DEF RowsStay
<1>3. ASSUME NEW a \in Activations, activations' = [activations EXCEPT ![a] = Idle]
      PROVE  ActivationsTyped'
  BY <1>1, <1>3, Sentinels DEF RowsStay
<1>4. ASSUME NEW a \in Activations, NEW u \in Users, NEW c \in Connections,
             RequestWindow(a, u, c)
      PROVE  ActivationsTyped'
  <2>1. [step |-> "found", user |-> u, connection |-> c, override |-> overrides[c],
         window |-> NoWindow] \in Activation
    BY DEF Activation
  <2> QED BY <1>1, <1>4, <2>1 DEF RequestWindow, RowsStay
<1>5. ASSUME NEW a \in Activations, OpenWindow(a) PROVE ActivationsTyped'
  <2>1. activations[a] \in Activation
    BY <1>5, Sentinels DEF OpenWindow
  <2>2. PICK w \in WindowIds \ Rows :
          /\ windows' = [windows EXCEPT ![w] =
               [user |-> activations[a].user, connection |-> activations[a].connection,
                live |-> TRUE, audit |-> "pending"]]
          /\ activations' = [activations EXCEPT ![a].step = "inserted", ![a].window = w]
    BY <1>5 DEF OpenWindow
  <2>3. w \in Rows'
    BY <2>2 DEF Rows, NoRow
  <2>4. /\ [activations[a] EXCEPT !.step = "inserted", !.window = w] \in Activation
        /\ [activations[a] EXCEPT !.step = "inserted", !.window = w].window = w
    BY <2>1, <2>2 DEF Activation
  <2>5. activations' = [activations EXCEPT ![a] =
          [activations[a] EXCEPT !.step = "inserted", !.window = w]]
    BY <2>2
  <2> QED BY <1>1, <2>3, <2>4, <2>5 DEF RowsStay
<1>6. ASSUME NEW a \in Activations, AuditWindow(a) PROVE ActivationsTyped'
  <2>1. CASE activations' = [activations EXCEPT ![a] = Idle]
    BY <1>3, <2>1
  <2>2. CASE activations' = [activations EXCEPT ![a].step = "unaudited"]
    <3>1. activations[a] \in Activation /\ activations[a].window \in Rows
      BY <1>6, Sentinels DEF AuditWindow
    <3>2. /\ [activations[a] EXCEPT !.step = "unaudited"] \in Activation
          /\ [activations[a] EXCEPT !.step = "unaudited"].window = activations[a].window
      BY <3>1 DEF Activation
    <3>3. activations' = [activations EXCEPT ![a] = [activations[a] EXCEPT !.step = "unaudited"]]
      BY <2>2
    <3> QED BY <1>1, <3>1, <3>2, <3>3 DEF RowsStay
  <2> QED BY <1>6, <2>1, <2>2 DEF AuditWindow
<1>7. ASSUME NEW a \in Activations, RollBackWindow(a) \/ EndActivation(a)
      PROVE  ActivationsTyped'
  BY <1>3, <1>7 DEF RollBackWindow, EndActivation
<1>8. ASSUME NEW q \in Queries, Allow(q) \/ Refuse(q) \/ Connect(q) \/ Run(q) \/ FailQuery(q)
      PROVE  UNCHANGED activations
  BY <1>8 DEF Allow, Refuse, Connect, Run, FailQuery
<1>9. ASSUME NEW q \in Queries, NEW u \in Users, NEW c \in Connections,
             NEW class \in Classifications, NEW changes \in BOOLEAN,
             Submit(q, u, c, class, changes)
      PROVE  UNCHANGED activations
  BY <1>9 DEF Submit
<1>10. ASSUME NEW u \in Users, NEW c \in Connections, CloseWindow(u, c)
       PROVE  UNCHANGED activations
  BY <1>10 DEF CloseWindow
<1>11. ASSUME NEW w \in WindowIds, Expire(w)
       PROVE  UNCHANGED activations
  BY <1>11 DEF Expire
<1>12. ASSUME NEW u \in Users, NEW c \in Connections, NEW override \in Overrides,
              SetOverride(u, c, override)
       PROVE  UNCHANGED activations
  BY <1>12 DEF SetOverride
<1>13. CASE UNCHANGED vars
  BY <1>13, <1>2 DEF vars
<1> QED BY <1>2, <1>4, <1>5, <1>6, <1>7, <1>8, <1>9, <1>10, <1>11, <1>12, <1>13 DEF Next

LEMMA OverridesTyped ==
  TypeInv /\ [Next]_vars => overrides' \in [Connections -> Overrides]
BY DEF TypeInv, TypeOK, Next, vars, Submit, Allow, Refuse, Connect, Run, FailQuery,
       RequestWindow, OpenWindow, AuditWindow, RollBackWindow, EndActivation, CloseWindow,
       Expire, SetOverride

LEMMA TypeStep == TypeInv /\ [Next]_vars => TypeInv'
BY OverridesTyped, QueriesTyped, ActivationsStayTyped, EveryStepKeepsRows
   DEF TypeInv, TypeOK, ActivationsTyped, RowsStay

LEMMA TypeInvariant == Spec => []TypeInv
BY TypeInit, TypeStep, PTL DEF Spec

\* Connections, windows, statements and requests keep their types.
THEOREM TypeCorrect == Spec => []TypeOK
<1>1. TypeInv => TypeOK
  BY DEF TypeInv
<1> QED BY <1>1, TypeInvariant, PTL

----------------------------------------------------------------------------
\* The judgement of a statement outlives every step of the others.

\* StatementsAreJudged, of one statement.
Judgement(query) ==
  query # Idle =>
    /\ Visible(query.user, query.connection)
    /\ query.step = "submitted" => query.readOnlySession /\ ~query.changed
    /\ query.step \in {"allowed", "connected"} \/ query.changed => Judged(query)

LEMMA JudgementByQuery ==
  StatementsAreJudged <=> \A q \in Queries : Judgement(queries[q])
BY DEF StatementsAreJudged, Judgement

\* A window's user and connection are fixed when it is inserted, whatever closes it later.
LEMMA JudgementLasts ==
  ASSUME TypeInv, [Next]_vars, NEW query, Judgement(query)
  PROVE  Judgement(query)'
<1>1. RowsStay
  BY EveryStepKeepsRows
<1>2. ASSUME Authorised(query) PROVE Authorised(query)'
  BY <1>1, <1>2 DEF RowsStay, Authorised, Visible, RequiredPermission, IsProduction
<1>3. ASSUME Judged(query) PROVE Judged(query)'
  BY <1>2, <1>3 DEF Judged, MayChange, RequiredPermission, IsReadOnlyByDefault, IsProduction
<1> QED BY <1>3 DEF Judgement, Visible

\* A statement is judged when it is allowed; a session lets a judged read change nothing
\* as long as one of its layers works.
LEMMA StatementsStayJudged ==
  ASSUME OneLayerWorks, TypeInv, StatementsAreJudged, [Next]_vars, NEW q \in Queries
  PROVE  Judgement(queries'[q])
<1> USE DEF TypeInv, TypeOK
<1>1. \A r \in Queries : Judgement(queries[r])
  BY JudgementByQuery
<1>2. CASE queries'[q] = queries[q]
  BY <1>1, <1>2
<1>3. ASSUME NEW u \in Users, NEW c \in Connections, NEW class \in Classifications,
             NEW changes \in BOOLEAN, Submit(q, u, c, class, changes)
      PROVE  Judgement(queries'[q])
  BY <1>3 DEF Submit, Judgement
<1>4. ASSUME Allow(q) PROVE Judgement(queries'[q])
  <2>1. queries[q] \in Query /\ queries[q].step = "submitted"
    BY <1>4, Sentinels DEF Allow
  <2>2. /\ Visible(queries[q].user, queries[q].connection)
        /\ queries[q].readOnlySession /\ ~queries[q].changed
    BY <1>1, <2>1, Sentinels DEF Judgement
  <2>3. CASE queries[q].class = "READ" /\ queries' = [queries EXCEPT ![q].step = "allowed"]
    <3>1. queries'[q] = [queries[q] EXCEPT !.step = "allowed"]
      BY <2>3
    <3> QED BY <2>1, <2>2, <2>3, <3>1 DEF Judgement, Judged, Query
  <2>4. ASSUME MayChange(queries[q]),
               NEW w \in LiveWindows(queries[q].user, queries[q].connection),
               queries' = [queries EXCEPT ![q].step = "allowed", ![q].window = w,
                                          ![q].readOnlySession = FALSE]
        PROVE  Judgement(queries'[q])
    <3> DEFINE query == [queries[q] EXCEPT !.step = "allowed", !.window = w,
                                           !.readOnlySession = FALSE]
    <3>1. queries'[q] = query
      BY <2>4
    <3>2. /\ query.user = queries[q].user /\ query.connection = queries[q].connection
          /\ query.override = queries[q].override /\ query.class = queries[q].class
          /\ query.step = "allowed" /\ query.window = w
      BY <2>1 DEF Query
    <3> HIDE DEF query
    <3>3. MayChange(query)
      BY <2>4, <3>2 DEF MayChange
    <3>4. Authorised(query)
      BY <2>2, <2>4, <3>2, <3>3 DEF Authorised, MayChange, LiveWindows
    <3> QED BY <2>2, <3>1, <3>2, <3>3, <3>4 DEF Judgement, Judged
  <2> QED BY <1>4, <2>3, <2>4 DEF Allow
<1>5. ASSUME Refuse(q) \/ Connect(q) \/ FailQuery(q) PROVE Judgement(queries'[q])
  <2>1. PICK step \in {"connected", "ended"} :
          /\ queries'[q] = [queries[q] EXCEPT !.step = step]
          /\ step = "connected" => queries[q].step = "allowed"
    BY <1>5 DEF Refuse, Connect, FailQuery
  <2>2. queries[q] \in Query
    BY <1>5, Sentinels DEF Refuse, Connect, FailQuery
  <2> DEFINE query == [queries[q] EXCEPT !.step = step]
  <2>3. /\ query.user = queries[q].user /\ query.connection = queries[q].connection
        /\ query.override = queries[q].override /\ query.class = queries[q].class
        /\ query.step = step /\ query.window = queries[q].window
        /\ query.readOnlySession = queries[q].readOnlySession
        /\ query.changed = queries[q].changed
    BY <2>2 DEF Query
  <2>4. query = queries'[q]
    BY <2>1
  <2> HIDE DEF query
  <2>5. Judged(queries[q]) => Judged(query)
    BY <2>3 DEF Judged, MayChange, Authorised
  <2> QED BY <1>1, <2>1, <2>2, <2>3, <2>4, <2>5, Sentinels DEF Judgement
<1>6. ASSUME Run(q) PROVE Judgement(queries'[q])
  <2> DEFINE changed == queries[q].changes /\ ~SessionRefusesChanges(queries[q])
             query   == [queries[q] EXCEPT !.step = "ended", !.changed = changed]
  <2>1. queries[q] \in Query /\ queries[q].step = "connected"
    BY <1>6, Sentinels DEF Run
  <2>2. Visible(queries[q].user, queries[q].connection) /\ Judged(queries[q])
    BY <1>1, <2>1, Sentinels DEF Judgement
  <2>3. query = queries'[q]
    BY <1>6 DEF Run
  <2>4. queries[q].class = "READ" /\ queries[q].readOnlySession => ~changed
    BY QueryAssumption DEF OneLayerWorks, SessionRefusesChanges, Works, Layers
  <2> HIDE DEF changed
  <2>5. /\ query.user = queries[q].user /\ query.connection = queries[q].connection
        /\ query.override = queries[q].override /\ query.class = queries[q].class
        /\ query.step = "ended" /\ query.window = queries[q].window
        /\ query.readOnlySession = queries[q].readOnlySession
        /\ query.changed = changed
    BY <2>1 DEF Query
  <2> HIDE DEF query
  <2>6. CASE queries[q].class = "READ" /\ queries[q].readOnlySession
    BY <2>2, <2>3, <2>4, <2>5, <2>6 DEF Judgement
  <2>7. CASE MayChange(queries[q]) /\ Authorised(queries[q])
    <3>1. MayChange(query) /\ Authorised(query)
      BY <2>5, <2>7 DEF MayChange, Authorised
    <3> QED BY <2>2, <2>3, <2>5, <3>1 DEF Judgement, Judged
  <2> QED BY <2>2, <2>6, <2>7 DEF Judged
<1>7. ASSUME ~(queries'[q] = queries[q])
      PROVE  \/ \E u \in Users, c \in Connections, class \in Classifications,
                   changes \in BOOLEAN : Submit(q, u, c, class, changes)
             \/ Allow(q) \/ Refuse(q) \/ Connect(q) \/ Run(q) \/ FailQuery(q)
  <2>1. ASSUME NEW r \in Queries, r # q, Allow(r) \/ Refuse(r) \/ Connect(r) \/ Run(r) \/ FailQuery(r)
        PROVE  queries'[q] = queries[q]
    BY <2>1 DEF Allow, Refuse, Connect, Run, FailQuery
  <2>2. ASSUME NEW r \in Queries, r # q, NEW u \in Users, NEW c \in Connections,
               NEW class \in Classifications, NEW changes \in BOOLEAN,
               Submit(r, u, c, class, changes)
        PROVE  queries'[q] = queries[q]
    BY <2>2 DEF Submit
  <2>3. ASSUME NEW a \in Activations,
               \/ OpenWindow(a) \/ AuditWindow(a) \/ RollBackWindow(a) \/ EndActivation(a)
               \/ \E u \in Users, c \in Connections : RequestWindow(a, u, c)
        PROVE  queries'[q] = queries[q]
    BY <2>3 DEF OpenWindow, AuditWindow, RollBackWindow, EndActivation, RequestWindow
  <2>4. ASSUME NEW u \in Users, NEW c \in Connections,
               \/ CloseWindow(u, c)
               \/ \E override \in Overrides : SetOverride(u, c, override)
        PROVE  queries'[q] = queries[q]
    BY <2>4 DEF CloseWindow, SetOverride
  <2>5. ASSUME NEW w \in WindowIds, Expire(w) PROVE queries'[q] = queries[q]
    BY <2>5 DEF Expire
  <2>6. Next
    BY <1>7 DEF vars
  <2> QED BY <1>7, <2>1, <2>2, <2>3, <2>4, <2>5, <2>6 DEF Next
<1> QED BY <1>2, <1>3, <1>4, <1>5, <1>6, <1>7

QueryInv == TypeInv /\ StatementsAreJudged

LEMMA QueryInit == Init => QueryInv
BY TypeInit DEF Init, QueryInv, StatementsAreJudged

LEMMA QueryStep ==
  ASSUME OneLayerWorks PROVE QueryInv /\ [Next]_vars => QueryInv'
<1> SUFFICES ASSUME TypeInv, StatementsAreJudged, [Next]_vars PROVE QueryInv'
  BY DEF QueryInv
<1>1. ASSUME NEW q \in Queries PROVE Judgement(queries[q])'
  <2>1. PICK query : query = queries'[q]
    OBVIOUS
  <2>2. Judgement(query)
    BY <2>1, StatementsStayJudged
  <2>3. Judgement(query)'
    BY <2>2, JudgementLasts
  <2> QED BY <2>1, <2>3 DEF Judgement
<1>2. StatementsAreJudged'
  BY <1>1 DEF StatementsAreJudged, Judgement
<1> QED BY <1>2, TypeStep DEF QueryInv

\* Between its judgement and its end a statement is a read in a read-only session, or a
\* change its user was authorised to make, whatever happens to its window meanwhile.
THEOREM StatementsStayJudgedAlways ==
  ASSUME OneLayerWorks PROVE Spec => []StatementsAreJudged
<1>1. QueryInv => StatementsAreJudged
  BY DEF QueryInv
<1>2. QueryInv /\ [Next]_vars => QueryInv'
  BY QueryStep
<1> QED BY <1>1, <1>2, QueryInit, PTL DEF Spec

\* As long as one read-only layer of a session works, a statement taken for a read
\* changes nothing.
THEOREM ReadsNeverChangeHolds ==
  ASSUME OneLayerWorks PROVE Spec => []ReadsNeverChange
<1>1. StatementsAreJudged => ReadsNeverChange
  BY DEF StatementsAreJudged, ReadsNeverChange, Judged, MayChange
<1>2. Spec => []StatementsAreJudged
  BY StatementsStayJudgedAlways
<1> QED BY <1>1, <1>2, PTL

\* Every change was made by a user with the permission, under a window of their own on
\* that connection.
THEOREM ChangesAreAuthorisedHolds ==
  ASSUME OneLayerWorks PROVE Spec => []ChangesAreAuthorised
<1>1. StatementsAreJudged => ChangesAreAuthorised
  BY DEF StatementsAreJudged, ChangesAreAuthorised, Judged
<1>2. Spec => []StatementsAreJudged
  BY StatementsStayJudgedAlways
<1> QED BY <1>1, <1>2, PTL

\* The tables keep their types, every statement is judged until it ends, reads change
\* nothing and changes are authorised.
THEOREM QueriesCorrect ==
  ASSUME OneLayerWorks PROVE Spec => []QueryInvariant
<1>1. TypeOK /\ StatementsAreJudged /\ ReadsNeverChange /\ ChangesAreAuthorised => QueryInvariant
  BY DEF QueryInvariant
<1>2. Spec => []StatementsAreJudged
  BY StatementsStayJudgedAlways
<1>3. Spec => []ReadsNeverChange
  BY ReadsNeverChangeHolds
<1>4. Spec => []ChangesAreAuthorised
  BY ChangesAreAuthorisedHolds
<1> QED BY <1>1, <1>2, <1>3, <1>4, TypeCorrect, PTL
----------------------------------------------------------------------------
\* The SQL editor.

\* Nothing is never something: an empty text, no statement, no run.
LEMMA EditorSentinels ==
  /\ NoStatement \notin Statement /\ NoRun \notin TabRun
  /\ ClosedTab \in Tab /\ ~ClosedTab.open /\ ~ClosedTab.overlapped /\ ~ClosedTab.running
  /\ ClosedTab.result = NoStatement
  /\ NoBanner \in Banner /\ NoBanner.shows = NoStatement
<1>1. NoStatement \notin Statement
  BY EditorAssumption DEF NoStatement, Statement
<1>2. NoRun \notin TabRun
  BY <1>1 DEF NoRun, TabRun
<1> QED BY <1>1, <1>2 DEF ClosedTab, Tab, NoBanner, Banner

\* What is left when one of the classifications under way is answered.
LEMMA ForgetShortens ==
  ASSUME EditorTypeOK, NEW i \in DOMAIN asked
  PROVE  Forget(i) \in Seq(Texts) /\ Len(Forget(i)) <= MaxAnswersDue
<1>1. asked \in Seq(Texts) /\ Len(asked) <= MaxAnswersDue /\ Len(asked) \in Nat /\ i \in 1..Len(asked)
  BY LenProperties DEF EditorTypeOK
<1>2. /\ SubSeq(asked, 1, i - 1) \in Seq(Texts)
      /\ Len(SubSeq(asked, 1, i - 1)) = i - 1
  <2>1. \A k \in 1..i - 1 : asked[k] \in Texts
    BY <1>1, ElementOfSeq
  <2>2. 1 \in Int /\ i - 1 \in Int
    BY <1>1
  <2>3. /\ SubSeq(asked, 1, i - 1) \in Seq(Texts)
        /\ Len(SubSeq(asked, 1, i - 1)) = IF 1 <= i - 1 THEN i - 1 - 1 + 1 ELSE 0
    BY <2>1, <2>2, SubSeqProperties
  <2> QED BY <2>3, <1>1
<1>3. /\ SubSeq(asked, i + 1, Len(asked)) \in Seq(Texts)
      /\ Len(SubSeq(asked, i + 1, Len(asked))) = Len(asked) - i
  <2>1. \A k \in i + 1..Len(asked) : asked[k] \in Texts
    BY <1>1, ElementOfSeq
  <2>2. i + 1 \in Int /\ Len(asked) \in Int
    BY <1>1
  <2>3. /\ SubSeq(asked, i + 1, Len(asked)) \in Seq(Texts)
        /\ Len(SubSeq(asked, i + 1, Len(asked))) = IF i + 1 <= Len(asked) THEN Len(asked) - (i + 1) + 1 ELSE 0
    BY <2>1, <2>2, SubSeqProperties
  <2> QED BY <2>3, <1>1
<1>4. Forget(i) \in Seq(Texts) /\ Len(Forget(i)) = i - 1 + (Len(asked) - i)
  BY <1>2, <1>3, ConcatProperties DEF Forget
<1> QED BY <1>1, <1>4, EditorAssumption

\* A tab whose fields are as they were keeps what is said of it.
LEMMA MarksStay ==
  ASSUME EditorInvariant, NEW t \in Tabs,
         tabs'[t].open = tabs[t].open, tabs'[t].running = tabs[t].running,
         tabs'[t].overlapped = tabs[t].overlapped,
         tabs'[t].ran = tabs[t].ran, tabs'[t].result = tabs[t].result,
         \A r \in Runs : runs'[r] = runs[r] \/ ((runs[r] = NoRun \/ runs[r].tab # t) /\ (runs'[r] = NoRun \/ runs'[r].tab # t))
  PROVE  /\ tabs'[t].result # NoStatement /\ ~tabs'[t].running /\ ~tabs'[t].overlapped => tabs'[t].result = tabs'[t].ran
         /\ tabs'[t].open /\ ~tabs'[t].overlapped => (tabs'[t].running <=> Under(t)' # {})
         /\ OneRunAtATime(t)'
<1>1. Under(t)' = Under(t) /\ \A r \in Under(t) : runs'[r] = runs[r]
  <2>1. Under(t)' = {r \in Runs : runs'[r] # NoRun /\ runs'[r].tab = t}
    BY DEF Under
  <2>2. \A r \in Runs : (runs'[r] # NoRun /\ runs'[r].tab = t) <=> (runs[r] # NoRun /\ runs[r].tab = t)
    OBVIOUS
  <2>3. \A r \in Under(t) : runs'[r] = runs[r]
    BY DEF Under
  <2> QED BY <2>1, <2>2, <2>3 DEF Under
<1>2. OneRunAtATime(t) /\ (tabs[t].open /\ ~tabs[t].overlapped => (tabs[t].running <=> Under(t) # {}))
  BY DEF EditorInvariant, EditorPromise, RunningTabsShowIt
<1>3. tabs[t].result # NoStatement /\ ~tabs[t].running /\ ~tabs[t].overlapped => tabs[t].result = tabs[t].ran
  BY DEF EditorInvariant, EditorPromise, ResultsStayInTheirTab
<1>4. OneRunAtATime(t)'
  BY <1>1, <1>2 DEF OneRunAtATime
<1>5. tabs'[t].open /\ ~tabs'[t].overlapped => (tabs'[t].running <=> Under(t)' # {})
  <2>1. tabs'[t].open = tabs[t].open /\ tabs'[t].overlapped = tabs[t].overlapped /\ tabs'[t].running = tabs[t].running
    OBVIOUS
  <2> QED BY <2>1, <1>1, <1>2
<1>6. tabs'[t].result # NoStatement /\ ~tabs'[t].running /\ ~tabs'[t].overlapped => tabs'[t].result = tabs'[t].ran
  BY <1>3
<1> QED BY <1>4, <1>5, <1>6

\* Tabs as they stay when only texts and the tab looked at change.
LEMMA TextsKeepMarks ==
  ASSUME EditorInvariant, UNCHANGED runs,
         \A t \in Tabs : /\ tabs'[t].open = tabs[t].open /\ tabs'[t].running = tabs[t].running
                         /\ tabs'[t].overlapped = tabs[t].overlapped
                         /\ tabs'[t].ran = tabs[t].ran /\ tabs'[t].result = tabs[t].result
  PROVE  ResultsStayInTheirTab' /\ RunningTabsShowIt' /\ \A t \in Tabs : OneRunAtATime(t)'
BY MarksStay DEF ResultsStayInTheirTab, RunningTabsShowIt

\* The text looked at: either it is another one, of which a classification will be asked for, or
\* the banner is as right as it was.
LEMMA ShownTextHasItsBanner ==
  ASSUME EditorInvariant, NEW old, NEW typed, NEW new \in Texts \union {NoText},
         old = tabs[active].sql, new = tabs'[active'].sql, Shows(old, new, typed), UNCHANGED asked
  PROVE  BannersFollowTheText' /\ timer' \in Texts \union {NoText} /\ banner' \in Banner
<1>1. /\ BannersFollowTheText /\ timer \in Texts \union {NoText} /\ banner \in Banner
  BY DEF EditorInvariant, EditorPromise, EditorTypeOK
<1>2. CASE old = new
  <2>1. timer' = timer /\ banner' = banner
    BY <1>2 DEF Shows, Reclassifies
  <2> QED BY <1>1, <1>2, <2>1 DEF BannersFollowTheText
<1>3. CASE old # new
  <2>1. timer' = new /\ banner' = IF new = NoText THEN NoBanner ELSE banner
    BY <1>3 DEF Shows, Reclassifies
  <2> QED BY <1>1, <2>1, EditorSentinels DEF BannersFollowTheText
<1> QED BY <1>2, <1>3

\* Facts of the type invariant, one by one.
LEMMA TabTyped ==
  ASSUME EditorInvariant
  PROVE  /\ \A t \in Tabs : tabs[t] \in Tab
         /\ active \in Tabs /\ tabs[active].open /\ tabs[active].sql \in Texts \union {NoText}
         /\ \A t \in Tabs : tabs[t].sql \in Texts \union {NoText}
         /\ tabs \in [Tabs -> Tab] /\ runs \in [Runs -> TabRun \union {NoRun}]
         /\ steps \in 0..MaxSteps /\ MaxSteps \in Nat
<1>1. tabs \in [Tabs -> Tab] /\ active \in Tabs /\ runs \in [Runs -> TabRun \union {NoRun}] /\ steps \in 0..MaxSteps
  BY DEF EditorInvariant, EditorPromise, EditorTypeOK
<1>2. tabs[active].open
  BY DEF EditorInvariant
<1>3. \A t \in Tabs : tabs[t] \in Tab /\ tabs[t].sql \in Texts \union {NoText}
  BY <1>1 DEF Tab
<1> QED BY <1>1, <1>2, <1>3, EditorAssumption

\* The invariant from its parts.
LEMMA EditorFollows ==
  ASSUME tabs' \in [Tabs -> Tab], active' \in Tabs, tabs'[active'].open,
         timer' \in Texts \union {NoText}, asked' \in Seq(Texts), Len(asked') <= MaxAnswersDue,
         banner' \in Banner, runs' \in [Runs -> TabRun \union {NoRun}], steps' \in 0..MaxSteps,
         BannersFollowTheText', ResultsStayInTheirTab', RunningTabsShowIt',
         \A t \in Tabs : OneRunAtATime(t)'
  PROVE  EditorInvariant'
BY DEF EditorInvariant, EditorPromise, EditorTypeOK

LEMMA StepCounts ==
  ASSUME EditorInvariant, Step PROVE steps' \in 0..MaxSteps
<1>1. steps \in 0..MaxSteps /\ MaxSteps \in Nat
  BY TabTyped
<1> QED BY <1>1 DEF Step

\* Typing, and going from tab to tab.
LEMMA EditKeeps ==
  ASSUME EditorInvariant, NEW text \in Texts \union {NoText}, Edit(text)
  PROVE  EditorInvariant'
<1>0. /\ tabs' = [tabs EXCEPT ![active].sql = text] /\ Shows(tabs[active].sql, text, TRUE)
      /\ UNCHANGED <<active, asked, runs>> /\ Step
  BY Zenon DEF Edit
<1>1. PICK new : new = [tabs[active] EXCEPT !.sql = text]
  OBVIOUS
<1>2. /\ new \in Tab /\ new.sql = text /\ new.open = tabs[active].open /\ new.running = tabs[active].running
      /\ new.overlapped = tabs[active].overlapped /\ new.ran = tabs[active].ran /\ new.result = tabs[active].result
  BY <1>1, TabTyped DEF Tab
<1>3. tabs' \in [Tabs -> Tab] /\ tabs'[active] = new /\ \A t \in Tabs \ {active} : tabs'[t] = tabs[t]
  BY <1>0, <1>1, <1>2, TabTyped
<1>4. ResultsStayInTheirTab' /\ RunningTabsShowIt' /\ \A t \in Tabs : OneRunAtATime(t)'
  BY <1>0, <1>2, <1>3, TextsKeepMarks
<1>5. BannersFollowTheText' /\ timer' \in Texts \union {NoText} /\ banner' \in Banner
  <2>1. text = tabs'[active'].sql
    BY <1>0, <1>2, <1>3
  <2> QED BY <1>0, <2>1, ShownTextHasItsBanner
<1>6. asked' \in Seq(Texts) /\ Len(asked') <= MaxAnswersDue
  BY <1>0 DEF EditorInvariant, EditorPromise, EditorTypeOK
<1>7. active' \in Tabs /\ tabs'[active'].open /\ runs' \in [Runs -> TabRun \union {NoRun}]
  BY <1>0, <1>2, <1>3, TabTyped
<1> QED BY <1>0, <1>3, <1>4, <1>5, <1>6, <1>7, StepCounts, EditorFollows

LEMMA SwitchTabKeeps ==
  ASSUME EditorInvariant, NEW t \in Tabs, SwitchTab(t)
  PROVE  EditorInvariant'
<1>0. /\ active' = t /\ tabs[t].open /\ Shows(tabs[active].sql, tabs[t].sql, FALSE)
      /\ UNCHANGED <<tabs, asked, runs>> /\ Step
  BY DEF SwitchTab
<1>1. ResultsStayInTheirTab' /\ RunningTabsShowIt' /\ \A u \in Tabs : OneRunAtATime(u)'
  BY <1>0, TextsKeepMarks
<1>2. BannersFollowTheText' /\ timer' \in Texts \union {NoText} /\ banner' \in Banner
  BY <1>0, TabTyped, ShownTextHasItsBanner
<1>3. asked' \in Seq(Texts) /\ Len(asked') <= MaxAnswersDue
  BY <1>0 DEF EditorInvariant, EditorPromise, EditorTypeOK
<1>4. tabs' \in [Tabs -> Tab] /\ active' \in Tabs /\ tabs'[active'].open /\ runs' \in [Runs -> TabRun \union {NoRun}]
  BY <1>0, TabTyped
<1> QED BY <1>0, <1>1, <1>2, <1>3, <1>4, StepCounts, EditorFollows

\* A tab is opened or closed: nothing is under way in the one, and the other takes no answers.
LEMMA TabReplaced ==
  ASSUME EditorInvariant, NEW t \in Tabs, NEW new \in Tab, UNCHANGED runs,
         tabs' = [tabs EXCEPT ![t] = new], ~new.running, new.result = NoStatement,
         new.open => Under(t) = {}
  PROVE  ResultsStayInTheirTab' /\ RunningTabsShowIt' /\ \A u \in Tabs : OneRunAtATime(u)'
<1>1. tabs'[t] = new /\ \A u \in Tabs \ {t} : tabs'[u] = tabs[u]
  BY TabTyped
<1>2. Under(t)' = Under(t)
  BY DEF Under
<1>3. ASSUME NEW u \in Tabs, u # t
      PROVE  /\ tabs'[u].result # NoStatement /\ ~tabs'[u].running /\ ~tabs'[u].overlapped => tabs'[u].result = tabs'[u].ran
             /\ tabs'[u].open /\ ~tabs'[u].overlapped => (tabs'[u].running <=> Under(u)' # {})
             /\ OneRunAtATime(u)'
  BY <1>1, <1>3, MarksStay
<1>4. /\ tabs'[t].result = NoStatement
      /\ tabs'[t].open => ~tabs'[t].running /\ Under(t)' = {}
  BY <1>1, <1>2
<1>5. OneRunAtATime(t)'
  BY <1>4 DEF OneRunAtATime
<1>6. ResultsStayInTheirTab'
  BY <1>3, <1>4 DEF ResultsStayInTheirTab
<1>7. RunningTabsShowIt'
  BY <1>3, <1>4 DEF RunningTabsShowIt
<1> QED BY <1>3, <1>5, <1>6, <1>7

LEMMA NewTabKeeps ==
  ASSUME EditorInvariant, NEW t \in Tabs, NewTab(t)
  PROVE  EditorInvariant'
<1>0. /\ active' = t /\ Shows(tabs[active].sql, NoText, FALSE) /\ tabs[t] = ClosedTab
      /\ tabs' = [tabs EXCEPT ![t] = [ClosedTab EXCEPT !.open = TRUE]] /\ UNCHANGED <<asked, runs>> /\ Step
  BY DEF NewTab
<1>1. PICK new : new = [ClosedTab EXCEPT !.open = TRUE]
  OBVIOUS
<1>2. new \in Tab /\ new.open /\ ~new.running /\ new.result = NoStatement /\ new.sql = NoText
  BY <1>1 DEF Tab, ClosedTab
<1>3. tabs' = [tabs EXCEPT ![t] = new] /\ tabs' \in [Tabs -> Tab] /\ tabs'[t] = new
  BY <1>0, <1>1, <1>2, TabTyped
<1>4. Under(t) = {}
  BY DEF NewTab, Under
<1>5. ResultsStayInTheirTab' /\ RunningTabsShowIt' /\ \A u \in Tabs : OneRunAtATime(u)'
  BY <1>0, <1>2, <1>3, <1>4, TabReplaced
<1>6. BannersFollowTheText' /\ timer' \in Texts \union {NoText} /\ banner' \in Banner
  BY <1>0, <1>2, <1>3, TabTyped, ShownTextHasItsBanner
<1>7. asked' \in Seq(Texts) /\ Len(asked') <= MaxAnswersDue
  BY <1>0 DEF EditorInvariant, EditorPromise, EditorTypeOK
<1>8. active' \in Tabs /\ tabs'[active'].open /\ runs' \in [Runs -> TabRun \union {NoRun}]
  BY <1>0, <1>2, <1>3, TabTyped
<1> QED BY <1>0, <1>3, <1>5, <1>6, <1>7, <1>8, StepCounts, EditorFollows

LEMMA CloseTabKeeps ==
  ASSUME EditorInvariant, NEW t \in Tabs, NEW next \in Tabs, CloseTab(t, next)
  PROVE  EditorInvariant'
<1>0. /\ active' = (IF t = active THEN next ELSE active) /\ Shows(tabs[active].sql, tabs[active'].sql, FALSE)
      /\ tabs' = [tabs EXCEPT ![t] = ClosedTab] /\ UNCHANGED <<asked, runs>> /\ Step
      /\ tabs[next].open /\ next # t
  BY DEF CloseTab
<1>1. tabs' \in [Tabs -> Tab] /\ tabs'[t] = ClosedTab /\ \A u \in Tabs \ {t} : tabs'[u] = tabs[u]
  BY <1>0, TabTyped, EditorSentinels
<1>2. active' \in Tabs /\ active' # t /\ tabs[active'].open
  BY <1>0, TabTyped
<1>3. ResultsStayInTheirTab' /\ RunningTabsShowIt' /\ \A u \in Tabs : OneRunAtATime(u)'
  BY <1>0, EditorSentinels, TabReplaced
<1>4. BannersFollowTheText' /\ timer' \in Texts \union {NoText} /\ banner' \in Banner
  <2>1. tabs[active'].sql \in Texts \union {NoText} /\ tabs[active'].sql = tabs'[active'].sql
    BY <1>1, <1>2, TabTyped
  <2> QED BY <1>0, <2>1, ShownTextHasItsBanner
<1>5. asked' \in Seq(Texts) /\ Len(asked') <= MaxAnswersDue
  BY <1>0 DEF EditorInvariant, EditorPromise, EditorTypeOK
<1>6. tabs'[active'].open /\ runs' \in [Runs -> TabRun \union {NoRun}]
  BY <1>0, <1>1, <1>2, TabTyped
<1> QED BY <1>0, <1>1, <1>2, <1>3, <1>4, <1>5, <1>6, StepCounts, EditorFollows

\* Asking for a classification, and its answers.
LEMMA ClassifyingKeeps ==
  ASSUME EditorInvariant, UNCHANGED <<tabs, active, runs, steps>>,
         timer' \in Texts \union {NoText}, asked' \in Seq(Texts), Len(asked') <= MaxAnswersDue,
         banner' \in Banner, BannersFollowTheText'
  PROVE  EditorInvariant'
<1>1. ResultsStayInTheirTab' /\ RunningTabsShowIt' /\ \A t \in Tabs : OneRunAtATime(t)'
  BY TextsKeepMarks
<1>2. tabs' \in [Tabs -> Tab] /\ active' \in Tabs /\ tabs'[active'].open /\ runs' \in [Runs -> TabRun \union {NoRun}]
      /\ steps' \in 0..MaxSteps
  BY TabTyped
<1> QED BY <1>1, <1>2, EditorFollows

LEMMA AskedTyped ==
  ASSUME EditorInvariant
  PROVE  /\ asked \in Seq(Texts) /\ Len(asked) <= MaxAnswersDue /\ Len(asked) \in Nat
         /\ timer \in Texts \union {NoText} /\ banner \in Banner
         /\ \A i \in DOMAIN asked : asked[i] \in Texts
<1>1. asked \in Seq(Texts) /\ Len(asked) <= MaxAnswersDue /\ timer \in Texts \union {NoText} /\ banner \in Banner
  BY DEF EditorInvariant, EditorPromise, EditorTypeOK
<1>2. DOMAIN asked = 1..Len(asked) /\ Len(asked) \in Nat
  BY <1>1, LenProperties
<1> QED BY <1>1, <1>2, ElementOfSeq

LEMMA TimerKeeps ==
  ASSUME EditorInvariant, TimerFires
  PROVE  EditorInvariant'
<1>0. /\ timer # NoText /\ Len(asked) < MaxAnswersDue /\ asked' = Append(asked, timer) /\ timer' = NoText
      /\ UNCHANGED <<tabs, active, banner, runs, steps>>
  BY DEF TimerFires
<1>1. asked' \in Seq(Texts) /\ Len(asked') = Len(asked) + 1 /\ asked' # <<>>
  BY <1>0, AskedTyped, AppendProperties
<1>2. Len(asked') <= MaxAnswersDue
  BY <1>0, <1>1, AskedTyped, EditorAssumption
<1>3. BannersFollowTheText'
  BY <1>1 DEF BannersFollowTheText
<1> QED BY <1>0, <1>1, <1>2, <1>3, AskedTyped, ClassifyingKeeps

LEMMA ClassifiedKeeps ==
  ASSUME EditorInvariant, NEW i \in 1..MaxAnswersDue, ClassificationArrives(i) \/ ClassificationFails(i)
  PROVE  EditorInvariant'
<1>0. /\ i \in DOMAIN asked /\ asked' = Forget(i) /\ UNCHANGED <<tabs, active, timer, runs, steps>>
      /\ \/ banner' = [shows |-> [text |-> asked[i], explain |-> FALSE], late |-> asked[i] # tabs[active].sql]
         \/ banner' = NoBanner
  BY DEF ClassificationArrives, ClassificationFails
<1>1. asked' \in Seq(Texts) /\ Len(asked') <= MaxAnswersDue
  BY <1>0, ForgetShortens DEF EditorInvariant, EditorPromise
<1>2. timer' \in Texts \union {NoText}
  BY <1>0, AskedTyped
<1>3. banner' \in Banner /\ (banner' # NoBanner /\ ~banner'.late => banner'.shows = [text |-> tabs[active].sql, explain |-> FALSE])
  <2>1. CASE banner' = NoBanner
    BY <2>1, EditorSentinels
  <2>2. CASE banner' = [shows |-> [text |-> asked[i], explain |-> FALSE], late |-> asked[i] # tabs[active].sql]
    <3>1. asked[i] \in Texts
      BY <1>0, AskedTyped
    <3>2. [text |-> asked[i], explain |-> FALSE] \in Statement
      BY <3>1 DEF Statement
    <3>3. (asked[i] # tabs[active].sql) \in BOOLEAN
      OBVIOUS
    <3>4. banner' \in Banner
      BY <2>2, <3>2, <3>3 DEF Banner
    <3>5. banner'.shows = [text |-> asked[i], explain |-> FALSE] /\ banner'.late = (asked[i] # tabs[active].sql)
      BY <2>2
    <3> QED BY <3>4, <3>5
  <2> QED BY <1>0, <2>1, <2>2
<1>4. BannersFollowTheText'
  BY <1>0, <1>3 DEF BannersFollowTheText
<1> QED BY <1>0, <1>1, <1>2, <1>3, <1>4, ClassifyingKeeps

\* A statement begins: the second in its tab makes it one that overlapped.
LEMMA ExecuteKeeps ==
  ASSUME EditorInvariant, NEW r \in Runs, NEW explain \in BOOLEAN, Execute(r, explain)
  PROVE  EditorInvariant'
<1>1. PICK statement : statement = [text |-> tabs[active].sql, explain |-> explain]
  OBVIOUS
<1>2. /\ runs[r] = NoRun /\ tabs[active].sql # NoText /\ Step /\ UNCHANGED <<active, timer, asked, banner>>
      /\ runs' = [runs EXCEPT ![r] = [tab |-> active, statement |-> statement]]
      /\ tabs' = [tabs EXCEPT ![active].running = TRUE, ![active].error = FALSE, ![active].ran = statement,
                              ![active].overlapped = @ \/ Under(active) # {}]
  BY <1>1, Zenon DEF Execute
<1>3. statement \in Statement
  BY <1>1, <1>2, TabTyped DEF Statement
<1>4. PICK run : run = [tab |-> active, statement |-> statement]
  OBVIOUS
<1>5. run \in TabRun /\ run # NoRun /\ run.tab = active /\ run.statement = statement
  BY <1>3, <1>4, TabTyped, EditorSentinels DEF TabRun
<1>6. runs' \in [Runs -> TabRun \union {NoRun}] /\ runs'[r] = run /\ \A q \in Runs \ {r} : runs'[q] = runs[q]
  BY <1>2, <1>4, <1>5, TabTyped
<1>7. PICK new : new = [[[[tabs[active] EXCEPT !.running = TRUE] EXCEPT !.error = FALSE] EXCEPT !.ran = statement]
                          EXCEPT !.overlapped = tabs[active].overlapped \/ Under(active) # {}]
  OBVIOUS
<1>8. tabs' = [tabs EXCEPT ![active] = new]
  BY <1>2, <1>7, TabTyped
<1>9. /\ new \in Tab /\ new.open = tabs[active].open /\ new.running = TRUE /\ new.ran = statement
      /\ new.overlapped = (tabs[active].overlapped \/ Under(active) # {})
      /\ new.sql = tabs[active].sql /\ new.result = tabs[active].result
  <2>1. PICK over \in BOOLEAN : over = (tabs[active].overlapped \/ Under(active) # {})
    OBVIOUS
  <2>2. tabs[active] \in Tab
    BY TabTyped
  <2>3. new = [[[[tabs[active] EXCEPT !.running = TRUE] EXCEPT !.error = FALSE] EXCEPT !.ran = statement] EXCEPT !.overlapped = over]
    BY <1>7, <2>1
  <2>4. /\ new \in Tab /\ new.open = tabs[active].open /\ new.running = TRUE /\ new.ran = statement
        /\ new.overlapped = over /\ new.sql = tabs[active].sql /\ new.result = tabs[active].result
    BY <1>3, <2>2, <2>3 DEF Tab
  <2> QED BY <2>1, <2>4
<1>10. tabs' \in [Tabs -> Tab] /\ tabs'[active] = new /\ \A t \in Tabs \ {active} : tabs'[t] = tabs[t]
  BY <1>8, <1>9, TabTyped
<1>11. ASSUME NEW t \in Tabs, t # active
       PROVE  /\ tabs'[t].result # NoStatement /\ ~tabs'[t].running /\ ~tabs'[t].overlapped => tabs'[t].result = tabs'[t].ran
              /\ tabs'[t].open /\ ~tabs'[t].overlapped => (tabs'[t].running <=> Under(t)' # {})
              /\ OneRunAtATime(t)'
  <2>1. \A q \in Runs : runs'[q] = runs[q] \/ ((runs[q] = NoRun \/ runs[q].tab # t) /\ (runs'[q] = NoRun \/ runs'[q].tab # t))
    BY <1>2, <1>5, <1>6, <1>11
  <2> QED BY <1>10, <1>11, <2>1, MarksStay
<1>a. PICK here \in Tabs : here = active
  BY TabTyped
<1>12. Under(here)' = Under(here) \union {r} /\ (tabs'[here].overlapped = (tabs[here].overlapped \/ Under(here) # {}))
       /\ tabs'[here].running
  <2>1. Under(here)' = Under(here) \union {r}
    BY <1>2, <1>5, <1>6, <1>a DEF Under
  <2>2. tabs'[here] = new /\ Under(here) = Under(active)
    BY <1>10, <1>a
  <2> QED BY <1>9, <1>a, <2>1, <2>2
<1>13. OneRunAtATime(here)'
  <2>1. ~tabs'[here].overlapped => Under(here) = {}
    BY <1>12
  <2>2. runs'[r].statement = tabs'[here].ran
    BY <1>5, <1>6, <1>9, <1>10, <1>a
  <2> QED BY <1>12, <2>1, <2>2 DEF OneRunAtATime
<1>14. ResultsStayInTheirTab'
  BY <1>9, <1>10, <1>11 DEF ResultsStayInTheirTab
<1>15. RunningTabsShowIt'
  <2>1. tabs'[here].running /\ Under(here)' # {}
    BY <1>12
  <2> QED BY <1>11, <1>a, <2>1 DEF RunningTabsShowIt
<1>16. \A t \in Tabs : OneRunAtATime(t)'
  BY <1>11, <1>13, <1>a
<1>17. BannersFollowTheText'
  BY <1>2, <1>9, <1>10 DEF EditorInvariant, EditorPromise, BannersFollowTheText
<1> QED
  BY <1>2, <1>6, <1>9, <1>10, <1>14, <1>15, <1>16, <1>17, AskedTyped, TabTyped, StepCounts, EditorFollows

\* A statement is answered in the tab it was run in, if that is open.
LEMMA AnswerKeepsMarks ==
  ASSUME EditorInvariant, NEW r \in Runs, runs[r] # NoRun, runs' = [runs EXCEPT ![r] = NoRun],
         NEW error \in BOOLEAN, NEW result \in {NoStatement} \union Statement,
         result \in {NoStatement, runs[r].statement},
         AnswerTab(TabOf(runs[r]), [error |-> error, result |-> result]), active' = active
  PROVE  /\ ResultsStayInTheirTab' /\ RunningTabsShowIt' /\ \A t \in Tabs : OneRunAtATime(t)'
         /\ tabs' \in [Tabs -> Tab] /\ tabs'[active].sql = tabs[active].sql /\ tabs'[active].open
         /\ runs' \in [Runs -> TabRun \union {NoRun}]
<1>1. runs[r] \in TabRun /\ runs[r].tab \in Tabs
  BY TabTyped DEF TabRun
<1>2. PICK t \in Tabs : t = runs[r].tab
  BY <1>1
<1>3. tabs' = IF tabs[t].open THEN [tabs EXCEPT ![t] = Answered(@, [error |-> error, result |-> result])] ELSE tabs
  BY <1>2 DEF AnswerTab, TabOf
<1>4. runs' \in [Runs -> TabRun \union {NoRun}] /\ runs'[r] = NoRun /\ \A q \in Runs \ {r} : runs'[q] = runs[q]
  BY TabTyped
<1>5. Under(t)' = Under(t) \ {r} /\ r \in Under(t)
  BY <1>2, <1>4 DEF Under
<1>6. PICK new : new = Answered(tabs[t], [error |-> error, result |-> result])
  OBVIOUS
<1>7. /\ new \in Tab /\ new.open = tabs[t].open /\ new.sql = tabs[t].sql /\ new.running = FALSE
      /\ new.result = result /\ new.ran = tabs[t].ran /\ new.overlapped = tabs[t].overlapped
  <2>1. new = [[[tabs[t] EXCEPT !.running = FALSE] EXCEPT !.error = error] EXCEPT !.result = result]
    BY <1>6, TabTyped DEF Answered, Tab
  <2>2. tabs[t] \in Tab
    BY TabTyped
  <2> QED BY <2>1, <2>2 DEF Tab
<1>8. /\ tabs' \in [Tabs -> Tab] /\ \A u \in Tabs \ {t} : tabs'[u] = tabs[u]
      /\ tabs'[t] = IF tabs[t].open THEN new ELSE tabs[t]
  BY <1>3, <1>6, <1>7, TabTyped
<1>9. ASSUME NEW u \in Tabs, u # t
      PROVE  /\ tabs'[u].result # NoStatement /\ ~tabs'[u].running /\ ~tabs'[u].overlapped => tabs'[u].result = tabs'[u].ran
             /\ tabs'[u].open /\ ~tabs'[u].overlapped => (tabs'[u].running <=> Under(u)' # {})
             /\ OneRunAtATime(u)'
  <2>1. \A q \in Runs : runs'[q] = runs[q] \/ ((runs[q] = NoRun \/ runs[q].tab # u) /\ (runs'[q] = NoRun \/ runs'[q].tab # u))
    BY <1>2, <1>4, <1>9
  <2> QED BY <1>8, <1>9, <2>1, MarksStay
<1>10. OneRunAtATime(t) /\ (tabs[t].result # NoStatement /\ ~tabs[t].running /\ ~tabs[t].overlapped => tabs[t].result = tabs[t].ran)
  BY DEF EditorInvariant, EditorPromise, ResultsStayInTheirTab
<1>11. tabs[t].open /\ ~tabs[t].overlapped => Under(t) = {r} /\ runs[r].statement = tabs[t].ran
  BY <1>5, <1>10 DEF OneRunAtATime
<1>12. OneRunAtATime(t)' /\ (tabs'[t].open /\ ~tabs'[t].overlapped => (tabs'[t].running <=> Under(t)' # {}))
  <2>1. CASE tabs[t].open
    <3>1. tabs'[t].overlapped = tabs[t].overlapped /\ tabs'[t].running = FALSE
      BY <1>7, <1>8, <2>1
    <3>2. ~tabs'[t].overlapped => Under(t)' = {}
      BY <1>5, <1>11, <2>1, <3>1
    <3>3. OneRunAtATime(t)'
      BY <3>2 DEF OneRunAtATime
    <3> QED BY <3>1, <3>2, <3>3
  <2>2. CASE ~tabs[t].open
    BY <1>8, <2>2 DEF OneRunAtATime
  <2> QED BY <2>1, <2>2
<1>13. tabs'[t].result # NoStatement /\ ~tabs'[t].running /\ ~tabs'[t].overlapped => tabs'[t].result = tabs'[t].ran
  <2>1. CASE tabs[t].open
    BY <1>7, <1>8, <1>11, <2>1
  <2>2. CASE ~tabs[t].open
    BY <1>8, <1>10, <2>2
  <2> QED BY <2>1, <2>2
<1>14. ResultsStayInTheirTab'
  BY <1>9, <1>13 DEF ResultsStayInTheirTab
<1>15. RunningTabsShowIt'
  BY <1>9, <1>12 DEF RunningTabsShowIt
<1>16. tabs'[active].sql = tabs[active].sql /\ tabs'[active].open
  BY <1>7, <1>8, TabTyped
<1> QED BY <1>4, <1>8, <1>9, <1>12, <1>14, <1>15, <1>16

LEMMA RunEndsKeeps ==
  ASSUME EditorInvariant, NEW r \in Runs, RunEnds(r)
  PROVE  EditorInvariant'
<1>0. /\ runs[r] # NoRun /\ AnswerTab(TabOf(runs[r]), [error |-> FALSE, result |-> runs[r].statement])
      /\ runs' = [runs EXCEPT ![r] = NoRun] /\ UNCHANGED <<active, timer, asked, steps>>
      /\ banner' = [shows |-> runs[r].statement, late |-> runs[r].statement # [text |-> tabs[active].sql, explain |-> FALSE]]
  BY DEF RunEnds
<1>1. runs[r].statement \in Statement
  BY <1>0, TabTyped DEF TabRun
<1>2. /\ ResultsStayInTheirTab' /\ RunningTabsShowIt' /\ \A t \in Tabs : OneRunAtATime(t)'
      /\ tabs' \in [Tabs -> Tab] /\ tabs'[active].sql = tabs[active].sql /\ tabs'[active].open
      /\ runs' \in [Runs -> TabRun \union {NoRun}]
  BY <1>0, <1>1, AnswerKeepsMarks
<1>3. /\ banner' \in Banner /\ banner'.shows = runs[r].statement
      /\ banner'.late = (runs[r].statement # [text |-> tabs[active].sql, explain |-> FALSE])
  <2>1. (runs[r].statement # [text |-> tabs[active].sql, explain |-> FALSE]) \in BOOLEAN
    OBVIOUS
  <2> QED BY <1>0, <1>1, <2>1 DEF Banner
<1>4. BannersFollowTheText'
  BY <1>0, <1>2, <1>3 DEF BannersFollowTheText
<1> QED BY <1>0, <1>2, <1>3, <1>4, AskedTyped, TabTyped, EditorFollows

LEMMA RunFailsKeeps ==
  ASSUME EditorInvariant, NEW r \in Runs, RunFails(r)
  PROVE  EditorInvariant'
<1>0. /\ runs[r] # NoRun /\ AnswerTab(TabOf(runs[r]), [error |-> TRUE, result |-> NoStatement])
      /\ runs' = [runs EXCEPT ![r] = NoRun] /\ UNCHANGED <<active, timer, asked, banner, steps>>
  BY DEF RunFails
<1>1. /\ ResultsStayInTheirTab' /\ RunningTabsShowIt' /\ \A t \in Tabs : OneRunAtATime(t)'
      /\ tabs' \in [Tabs -> Tab] /\ tabs'[active].sql = tabs[active].sql /\ tabs'[active].open
      /\ runs' \in [Runs -> TabRun \union {NoRun}]
  BY <1>0, AnswerKeepsMarks
<1>2. BannersFollowTheText'
  BY <1>0, <1>1 DEF EditorInvariant, EditorPromise, BannersFollowTheText
<1> QED BY <1>0, <1>1, <1>2, AskedTyped, TabTyped, EditorFollows

LEMMA EditorStarts == EditorInit => EditorInvariant
<1> SUFFICES ASSUME EditorInit PROVE EditorInvariant
  OBVIOUS
<1>1. PICK t \in Tabs, sample \in Texts :
        /\ tabs = [u \in Tabs |-> IF u = t THEN [ClosedTab EXCEPT !.open = TRUE, !.sql = sample] ELSE ClosedTab]
        /\ active = t /\ timer = sample
        /\ asked = <<>> /\ banner = NoBanner /\ runs = [r \in Runs |-> NoRun] /\ steps = 0
  BY DEF EditorInit
<1>2. PICK new : new = [[ClosedTab EXCEPT !.open = TRUE] EXCEPT !.sql = sample]
  OBVIOUS
<1>3. new \in Tab /\ new.open /\ ~new.running /\ new.result = NoStatement
  BY <1>2 DEF ClosedTab, Tab
<1>4. \A u \in Tabs : tabs[u] = IF u = t THEN new ELSE ClosedTab
  BY <1>1, <1>2 DEF ClosedTab
<1>5. tabs \in [Tabs -> Tab] /\ tabs[active].open /\ \A u \in Tabs : ~tabs[u].running /\ tabs[u].result = NoStatement
  <2>1. \A u \in Tabs : tabs[u] \in Tab /\ ~tabs[u].running /\ tabs[u].result = NoStatement
    BY <1>3, <1>4, EditorSentinels
  <2>2. tabs = [u \in Tabs |-> tabs[u]]
    BY <1>1
  <2> QED BY <1>1, <1>3, <1>4, <2>1, <2>2
<1>6. \A u \in Tabs : Under(u) = {}
  BY <1>1 DEF Under
<1>7. asked \in Seq(Texts) /\ Len(asked) <= MaxAnswersDue /\ steps \in 0..MaxSteps
  BY <1>1, EditorAssumption, EmptySeq
<1>8. runs \in [Runs -> TabRun \union {NoRun}] /\ timer \in Texts \union {NoText} /\ banner \in Banner /\ active \in Tabs
  BY <1>1, EditorSentinels
<1>9. BannersFollowTheText /\ ResultsStayInTheirTab /\ RunningTabsShowIt /\ \A u \in Tabs : OneRunAtATime(u)
  BY <1>1, <1>5, <1>6 DEF BannersFollowTheText, ResultsStayInTheirTab, RunningTabsShowIt, OneRunAtATime
<1> QED BY <1>5, <1>7, <1>8, <1>9 DEF EditorInvariant, EditorPromise, EditorTypeOK

LEMMA EditorSteps == EditorInvariant /\ [EditorNext]_editorVars => EditorInvariant'
<1> SUFFICES ASSUME EditorInvariant, [EditorNext]_editorVars PROVE EditorInvariant'
  OBVIOUS
<1>1. CASE UNCHANGED editorVars
  <2>1. UNCHANGED <<tabs, active, timer, asked, banner, runs, steps>>
    BY <1>1 DEF editorVars
  <2>2. BannersFollowTheText'
    BY <2>1 DEF EditorInvariant, EditorPromise, BannersFollowTheText
  <2> QED BY <2>1, <2>2, AskedTyped, ClassifyingKeeps
<1>2. CASE EditorNext
  BY <1>2, EditKeeps, SwitchTabKeeps, NewTabKeeps, CloseTabKeeps, TimerKeeps, ClassifiedKeeps, ExecuteKeeps,
     RunEndsKeeps, RunFailsKeeps DEF EditorNext
<1> QED BY <1>1, <1>2

\* However tabs are typed in, opened, closed and switched, and in whatever order statements and
\* classifications are answered, banners, results and running marks are of the tab they are shown in.
THEOREM EditorCorrect == EditorSpec => []EditorInvariant
BY EditorStarts, EditorSteps, PTL DEF EditorSpec

\* What the editor promises holds for any number of tabs, texts and statements under way.
THEOREM EditorPromiseHolds == EditorSpec => []EditorPromise
<1>1. EditorInvariant => EditorPromise
  BY DEF EditorInvariant
<1> QED BY <1>1, EditorCorrect, PTL

----------------------------------------------------------------------------
\* The data browser.

LEMMA NoDraftTyped == NoDraft \in AnyFilter
BY DEF NoDraft, AnyFilter

\* A key is its view without the draft.
LEMMA KeyFits ==
  ASSUME NEW v, ViewFits(v), v.table # NoTable
  PROVE  FitsItsTable(Key(v))
<1>1. /\ Key(v).table = v.table /\ Key(v).orderBy = v.orderBy /\ Key(v).filters = v.filters
  BY DEF ViewFits, Key, ViewOfNothing
<1> QED BY <1>1 DEF ViewFits, FitsItsTable

\* What the operator arranges fits the table.
LEMMA PickedFits ==
  ASSUME ViewFits(view), NEW t \in Tables, PickTable(t)
  PROVE  ViewFits(view')
<1>1. PICK draft : draft = [view.draft EXCEPT !.carried = view.draft # NoDraft /\ (@ \/ t # view.table)]
  OBVIOUS
<1>2. view' = [Picked(view, t) EXCEPT !.draft = draft]
  BY <1>1 DEF PickTable, Arrange
<1>3. /\ DOMAIN view' = DOMAIN view /\ view'.table = t /\ view'.filters = <<>> /\ view'.orderBy = "" /\ view'.draft = draft
  BY <1>2 DEF ViewFits, Picked, ViewOfNothing
<1>4. PICK carried \in BOOLEAN : carried = (view.draft # NoDraft /\ (view.draft.carried \/ t # view.table))
  OBVIOUS
<1>5. view.draft \in AnyFilter /\ draft = [view.draft EXCEPT !.carried = carried]
  BY <1>1, <1>4 DEF ViewFits
<1>6. draft \in AnyFilter /\ draft.column = view.draft.column /\ draft.carried = carried
      /\ draft = [column |-> view.draft.column, carried |-> carried]
  BY <1>5 DEF AnyFilter
<1>7. draft # NoDraft /\ ~draft.carried => draft.column \in Columns[t]
  <2>1. CASE view.draft = NoDraft
    <3>1. carried = FALSE
      BY <1>4, <2>1
    <3>2. view.draft.column = ""
      <4>1. NoDraft.column = ""
        BY DEF NoDraft
      <4> QED BY <2>1, <4>1
    <3>3. draft = NoDraft
      BY <1>6, <3>1, <3>2 DEF NoDraft
    <3> QED BY <3>3
  <2>2. CASE view.draft # NoDraft /\ ~draft.carried
    <3>1. t = view.table /\ ~view.draft.carried
      BY <1>4, <1>6, <2>2
    <3> QED BY <1>6, <2>2, <3>1, BrowserAssumption DEF ViewFits, DraftFits
  <2> QED BY <2>1, <2>2
<1>8. <<>> \in Seq(AnyFilter) /\ DOMAIN <<>> = {}
  OBVIOUS
<1> QED BY <1>3, <1>6, <1>7, <1>8 DEF ViewFits, FitsItsTable, DraftFits

LEMMA LeftFits ==
  ASSUME ViewFits(view), PickSchema
  PROVE  ViewFits(view')
<1>1. PICK draft : draft = [view.draft EXCEPT !.carried = view.draft # NoDraft]
  OBVIOUS
<1>2. view' = [view EXCEPT !.table = NoTable, !.filters = <<>>, !.page = 1, !.draft = draft]
  BY <1>1 DEF PickSchema, Arrange
<1>3. /\ DOMAIN view' = DOMAIN view /\ view'.table = NoTable /\ view'.filters = <<>> /\ view'.draft = draft
  BY <1>2 DEF ViewFits, ViewOfNothing
<1>4. draft \in AnyFilter
  <2>1. (view.draft # NoDraft) \in BOOLEAN /\ view.draft \in AnyFilter
    BY DEF ViewFits
  <2> QED BY <1>1, <2>1 DEF AnyFilter
<1>5. <<>> \in Seq(AnyFilter)
  OBVIOUS
<1> QED BY <1>3, <1>4, <1>5 DEF ViewFits

LEMMA SortedFits ==
  ASSUME ViewFits(view), NEW column, SortBy(column)
  PROVE  ViewFits(view')
<1>1. view' = [view EXCEPT !.orderBy = column, !.page = 1] /\ column \in Columns[view.table] \union {""}
  BY DEF SortBy, Arrange
<1>2. /\ DOMAIN view' = DOMAIN view /\ view'.table = view.table /\ view'.filters = view.filters
      /\ view'.draft = view.draft /\ view'.orderBy = column
  BY <1>1 DEF ViewFits, ViewOfNothing
<1> QED BY <1>1, <1>2 DEF ViewFits, FitsItsTable, DraftFits

\* Steps that leave the table, the order, the filters and the draft.
LEMMA RearrangedFits ==
  ASSUME ViewFits(view),
         \/ Direction \/ TurnBack \/ TurnOn \/ \E size \in Sizes : Resize(size)
  PROVE  ViewFits(view')
<1>1. \/ \E d : view' = [view EXCEPT !.descending = d]
      \/ \E p : view' = [view EXCEPT !.page = p]
      \/ \E size : view' = [view EXCEPT !.size = size, !.page = 1]
  BY DEF Direction, TurnBack, TurnOn, Resize, Arrange, Turn
<1>2. /\ DOMAIN view' = DOMAIN view /\ view'.table = view.table /\ view'.filters = view.filters
      /\ view'.draft = view.draft /\ view'.orderBy = view.orderBy
  BY <1>1 DEF ViewFits, ViewOfNothing
<1> QED BY <1>2 DEF ViewFits, FitsItsTable, DraftFits

LEMMA DraftedFits ==
  ASSUME ViewFits(view), NEW column \in ColumnNames \union {""}, Draft(column)
  PROVE  ViewFits(view')
<1>1. PICK draft : draft = [column |-> column, carried |-> FALSE]
  OBVIOUS
<1>2. view' = [view EXCEPT !.draft = draft] /\ column \in Columns[view.table]
  BY <1>1 DEF Draft
<1>3. draft \in AnyFilter /\ draft.column = column
  BY <1>1 DEF AnyFilter
<1>4. /\ DOMAIN view' = DOMAIN view /\ view'.table = view.table /\ view'.filters = view.filters
      /\ view'.draft = draft /\ view'.orderBy = view.orderBy
  BY <1>2 DEF ViewFits, ViewOfNothing
<1> QED BY <1>2, <1>3, <1>4 DEF ViewFits, FitsItsTable, DraftFits

LEMMA FilteredFits ==
  ASSUME ViewFits(view), AddFilter
  PROVE  ViewFits(view')
<1>1. PICK filters : filters = Append(view.filters, view.draft)
  OBVIOUS
<1>2. view' = [view EXCEPT !.filters = filters, !.draft = NoDraft, !.page = 1] /\ view.draft # NoDraft
  BY <1>1, Zenon DEF AddFilter, Arrange
<1>3. /\ DOMAIN view' = DOMAIN view /\ view'.table = view.table /\ view'.filters = filters
      /\ view'.draft = NoDraft /\ view'.orderBy = view.orderBy
  BY <1>2 DEF ViewFits, ViewOfNothing
<1>4. view.filters \in Seq(AnyFilter) /\ view.draft \in AnyFilter /\ Len(view.filters) \in Nat
      /\ DOMAIN view.filters = 1..Len(view.filters)
  BY LenProperties DEF ViewFits
<1>5. /\ filters \in Seq(AnyFilter) /\ Len(filters) = Len(view.filters) + 1
      /\ \A i \in 1..Len(view.filters) : filters[i] = view.filters[i]
      /\ filters[Len(view.filters) + 1] = view.draft
  BY <1>1, <1>4, AppendProperties
<1>6. \A i \in DOMAIN filters : filters[i] = view.draft \/ (i \in DOMAIN view.filters /\ filters[i] = view.filters[i])
  <2>1. DOMAIN filters = 1..Len(view.filters) + 1
    BY <1>4, <1>5, LenProperties
  <2>2. \A i \in 1..Len(view.filters) + 1 : i = Len(view.filters) + 1 \/ i \in 1..Len(view.filters)
    BY <1>4
  <2> QED BY <1>4, <1>5, <2>1, <2>2
<1>7. NoDraft \in AnyFilter
  BY NoDraftTyped
<1> QED BY <1>2, <1>3, <1>5, <1>6, <1>7 DEF ViewFits, FitsItsTable, DraftFits

LEMMA RemoveAtKeepsOthers ==
  ASSUME NEW S, NEW s \in Seq(S), NEW i \in 1..Len(s)
  PROVE  /\ RemoveAt(s, i) \in Seq(S)
         /\ \A k \in DOMAIN RemoveAt(s, i) : \E j \in DOMAIN s : RemoveAt(s, i)[k] = s[j]
<1>1. Len(s) \in Nat /\ DOMAIN s = 1..Len(s) /\ \A k \in 1..Len(s) : s[k] \in S
  BY LenProperties, ElementOfSeq
<1>2. PICK a : a = SubSeq(s, 1, i - 1)
  OBVIOUS
<1>3. PICK b : b = SubSeq(s, i + 1, Len(s))
  OBVIOUS
<1>4. a \in Seq(S) /\ Len(a) = i - 1 /\ \A k \in 1..i - 1 : a[k] = s[k]
  <2>1. \A k \in 1..i - 1 : s[k] \in S
    BY <1>1
  <2>2. 1 \in Int /\ i - 1 \in Int
    BY <1>1
  <2>3. /\ a \in Seq(S) /\ Len(a) = IF 1 <= i - 1 THEN i - 1 - 1 + 1 ELSE 0
        /\ \A k \in 1..i - 1 - 1 + 1 : a[k] = s[1 + k - 1]
    BY <1>2, <2>1, <2>2, SubSeqProperties
  <2> QED BY <1>1, <2>3
<1>5. b \in Seq(S) /\ Len(b) = Len(s) - i /\ \A k \in 1..Len(s) - i : b[k] = s[i + k]
  <2>1. \A k \in i + 1..Len(s) : s[k] \in S
    BY <1>1
  <2>2. i + 1 \in Int /\ Len(s) \in Int
    BY <1>1
  <2>3. /\ b \in Seq(S) /\ Len(b) = IF i + 1 <= Len(s) THEN Len(s) - (i + 1) + 1 ELSE 0
        /\ \A k \in 1..Len(s) - (i + 1) + 1 : b[k] = s[i + 1 + k - 1]
    BY <1>3, <2>1, <2>2, SubSeqProperties
  <2>4. Len(b) = Len(s) - i
    <3>1. CASE i + 1 <= Len(s)
      <4>1. Len(b) = Len(s) - (i + 1) + 1
        BY <2>3, <3>1
      <4> QED BY <1>1, <4>1
    <3>2. CASE ~(i + 1 <= Len(s))
      <4>1. i = Len(s) /\ Len(s) \in Nat
        <5>1. Len(s) \in Nat /\ i \in 1..Len(s)
          BY <1>1
        <5>2. PICK n \in Nat : n = Len(s)
          BY <5>1
        <5>3. i \in 1..n /\ ~(i + 1 <= n)
          BY <5>1, <5>2, <3>2
        <5> QED BY <5>2, <5>3
      <4>2. Len(b) = 0
        BY <2>3, <3>2
      <4> QED BY <4>1, <4>2
    <3> QED BY <3>1, <3>2
  <2>5. ASSUME NEW k \in 1..Len(s) - i PROVE b[k] = s[i + k]
    <3>1. k \in 1..Len(s) - (i + 1) + 1 /\ i + 1 + k - 1 = i + k
      BY <1>1
    <3> QED BY <2>3, <3>1
  <2> QED BY <2>3, <2>4, <2>5
<1>6. RemoveAt(s, i) = a \o b
  BY <1>2, <1>3 DEF RemoveAt
<1>7. /\ a \o b \in Seq(S) /\ Len(a \o b) = Len(a) + Len(b)
      /\ \A k \in 1..Len(a) + Len(b) : (a \o b)[k] = IF k <= Len(a) THEN a[k] ELSE b[k - Len(a)]
  BY <1>4, <1>5, ConcatProperties
<1>8. DOMAIN (a \o b) = 1..Len(s) - 1
  <2>1. DOMAIN (a \o b) = 1..Len(a \o b)
    BY <1>7, LenProperties
  <2> QED BY <1>1, <1>4, <1>5, <1>7, <2>1
<1>9. ASSUME NEW k \in 1..Len(s) - 1 PROVE \E j \in DOMAIN s : (a \o b)[k] = s[j]
  <2>1. CASE k <= i - 1
    <3>1. k \in 1..i - 1 /\ k \in 1..Len(s) /\ k \in 1..Len(a) + Len(b)
      BY <1>1, <1>4, <1>5, <2>1
    <3>2. (a \o b)[k] = s[k]
      BY <1>4, <1>7, <2>1, <3>1
    <3> QED BY <1>1, <3>1, <3>2
  <2>2. CASE ~(k <= i - 1)
    <3>1. k - (i - 1) \in 1..Len(s) - i /\ k \in 1..Len(a) + Len(b) /\ k + 1 \in 1..Len(s) /\ i + (k - (i - 1)) = k + 1
      BY <1>1, <1>4, <1>5, <2>2
    <3>2. (a \o b)[k] = b[k - (i - 1)]
      BY <1>4, <1>7, <2>2, <3>1
    <3>3. b[k - (i - 1)] = s[k + 1]
      BY <1>5, <3>1
    <3> QED BY <1>1, <3>1, <3>2, <3>3
  <2> QED BY <2>1, <2>2
<1> QED BY <1>6, <1>7, <1>8, <1>9

LEMMA UnfilteredFits ==
  ASSUME ViewFits(view), NEW i, RemoveFilter(i)
  PROVE  ViewFits(view')
<1>1. PICK filters : filters = RemoveAt(view.filters, i)
  OBVIOUS
<1>2. view' = [view EXCEPT !.filters = filters, !.page = 1] /\ i \in DOMAIN view.filters
  BY <1>1, Zenon DEF RemoveFilter, Arrange
<1>3. /\ DOMAIN view' = DOMAIN view /\ view'.table = view.table /\ view'.filters = filters
      /\ view'.draft = view.draft /\ view'.orderBy = view.orderBy
  BY <1>2 DEF ViewFits, ViewOfNothing
<1>4. view.filters \in Seq(AnyFilter) /\ i \in 1..Len(view.filters)
  BY <1>2, LenProperties DEF ViewFits
<1>5. filters \in Seq(AnyFilter) /\ \A k \in DOMAIN filters : \E j \in DOMAIN view.filters : filters[k] = view.filters[j]
  BY <1>1, <1>4, RemoveAtKeepsOthers
<1> QED BY <1>3, <1>5 DEF ViewFits, FitsItsTable, DraftFits

\* An answer or a failure settles one request, and says refused only where it was.
LEMMA SettledFits ==
  ASSUME ColumnsInvariant, NEW f \in fetches, NEW answer, NEW error, Settle(f, answer, error), UNCHANGED view,
         error = "refused" => \E i \in DOMAIN f.key.filters : f.key.filters[i].carried
  PROVE  ColumnsInvariant'
<1>1. PICK entry : entry = [key |-> f.key, error |-> error,
                            answer |-> IF error = "" THEN answer ELSE UNION {old.answer : old \in Entries(f.key)}]
  OBVIOUS
<1>2. entry.key = f.key /\ entry.error = error
  BY <1>1
<1>3. cache' \subseteq cache \union {entry} /\ fetches' \subseteq fetches
  BY <1>1 DEF Settle
<1>4. ViewFits(view)' /\ \A g \in fetches' : FitsItsTable(g.key)
  BY <1>3 DEF ColumnsInvariant
<1>5. OnlyCarriedDraftsAreRefused'
  BY <1>2, <1>3 DEF ColumnsInvariant, OnlyCarriedDraftsAreRefused
<1> QED BY <1>4, <1>5 DEF ColumnsInvariant

LEMMA RefusedWereCarried ==
  ASSUME ColumnsInvariant, NEW f \in fetches, RefuseFetch(f)
  PROVE  \E i \in DOMAIN f.key.filters : f.key.filters[i].carried
<1>1. FitsItsTable(f.key) /\ ~AssertsColumns(f.key)
  BY DEF ColumnsInvariant, RefuseFetch
<1> QED BY <1>1 DEF FitsItsTable, AssertsColumns

LEMMA AnsweredFits ==
  ASSUME ColumnsInvariant, NEW f \in fetches, RefuseFetch(f) \/ ResolveTotal(f) \/ FailFetch(f)
  PROVE  ColumnsInvariant'
<1>1. CASE RefuseFetch(f)
  <2>1. Settle(f, {}, "refused") /\ UNCHANGED view
    BY <1>1 DEF RefuseFetch
  <2> QED BY <1>1, <2>1, RefusedWereCarried, SettledFits
<1>2. CASE FailFetch(f)
  <2>1. Settle(f, {}, "failed") /\ UNCHANGED view
    BY <1>2 DEF FailFetch
  <2> QED BY <2>1, SettledFits
<1>3. CASE ResolveTotal(f)
  <2>1. PICK answer : Settle(f, answer, "") /\ UNCHANGED view
    BY <1>3 DEF ResolveTotal
  <2> QED BY <2>1, SettledFits
<1> QED BY <1>1, <1>2, <1>3

LEMMA AskedFits ==
  ASSUME ColumnsInvariant, Fetch \/ \E f \in fetches : Select(f)
  PROVE  ColumnsInvariant'
<1>1. UNCHANGED <<view, cache>>
  BY DEF Fetch, Select
<1>2. \A g \in fetches' : (g.key = Key(view) /\ view.table # NoTable) \/ \E f \in fetches : g.key = f.key
  <2>1. CASE Fetch
    BY <2>1 DEF Fetch
  <2>2. ASSUME NEW f \in fetches, Select(f) PROVE \A g \in fetches' : \E h \in fetches : g.key = h.key
    <3>1. PICK new : fetches' = (fetches \ {f}) \union {new} /\ new.key = f.key
      <4>1. PICK page : fetches' = (fetches \ {f}) \union
                                     {[key |-> f.key, step |-> "selected", at |-> version[f.key.table], ids |-> page]}
        BY <2>2, Zenon DEF Select
      <4>2. PICK new : new = [key |-> f.key, step |-> "selected", at |-> version[f.key.table], ids |-> page]
        OBVIOUS
      <4> QED BY <4>1, <4>2
    <3> QED BY <3>1
  <2> QED BY <2>1, <2>2
<1>3. \A g \in fetches' : FitsItsTable(g.key)
  BY <1>2, KeyFits DEF ColumnsInvariant
<1> QED BY <1>1, <1>3 DEF ColumnsInvariant, OnlyCarriedDraftsAreRefused

LEMMA ColumnsStart == BrowserInit => ColumnsInvariant
<1> SUFFICES ASSUME BrowserInit PROVE ColumnsInvariant
  OBVIOUS
<1>1. view = ViewOfNothing /\ cache = {} /\ fetches = {}
  BY DEF BrowserInit
<1>2. view.table = NoTable /\ view.filters = <<>> /\ view.draft = NoDraft
  BY <1>1 DEF ViewOfNothing
<1>3. <<>> \in Seq(AnyFilter) /\ NoDraft \in AnyFilter
  BY NoDraftTyped
<1> QED BY <1>1, <1>2, <1>3 DEF ColumnsInvariant, ViewFits, OnlyCarriedDraftsAreRefused

LEMMA ColumnsStep == ColumnsInvariant /\ [BrowserNext]_browserVars => ColumnsInvariant'
<1> SUFFICES ASSUME ColumnsInvariant, [BrowserNext]_browserVars PROVE ColumnsInvariant'
  OBVIOUS
<1>1. ASSUME UNCHANGED <<cache, fetches>>, ViewFits(view') PROVE ColumnsInvariant'
  BY <1>1 DEF ColumnsInvariant, OnlyCarriedDraftsAreRefused
<1>2. ViewFits(view)
  BY DEF ColumnsInvariant
<1>3. CASE UNCHANGED browserVars
  BY <1>1, <1>2, <1>3 DEF browserVars
<1>4. CASE Fetch \/ \E f \in fetches : Select(f)
  BY <1>4, AskedFits
<1>5. CASE \E f \in fetches : RefuseFetch(f) \/ ResolveTotal(f) \/ FailFetch(f)
  BY <1>5, AnsweredFits
<1>6. ASSUME NEW t \in Tables, PickTable(t) PROVE ColumnsInvariant'
  <2>1. UNCHANGED <<cache, fetches>>
    BY <1>6 DEF PickTable, Arrange
  <2> QED BY <1>1, <1>2, <1>6, <2>1, PickedFits
<1>7. CASE PickSchema
  <2>1. UNCHANGED <<cache, fetches>>
    BY <1>7 DEF PickSchema, Arrange
  <2> QED BY <1>1, <1>2, <1>7, <2>1, LeftFits
<1>8. CASE Direction \/ TurnBack \/ TurnOn \/ \E size \in Sizes : Resize(size)
  <2>1. UNCHANGED <<cache, fetches>>
    BY <1>8 DEF Direction, TurnBack, TurnOn, Resize, Arrange, Turn
  <2> QED BY <1>1, <1>2, <1>8, <2>1, RearrangedFits
<1>9. CASE AddFilter
  <2>1. UNCHANGED <<cache, fetches>>
    BY <1>9 DEF AddFilter, Arrange
  <2> QED BY <1>1, <1>2, <1>9, <2>1, FilteredFits
<1>10. ASSUME NEW column \in ColumnNames \union {""}, SortBy(column) \/ Draft(column)
       PROVE  ColumnsInvariant'
  <2>1. UNCHANGED <<cache, fetches>>
    BY <1>10 DEF SortBy, Draft, Arrange
  <2> QED BY <1>1, <1>2, <1>10, <2>1, SortedFits, DraftedFits
<1>11. ASSUME NEW i, RemoveFilter(i) PROVE ColumnsInvariant'
  <2>1. UNCHANGED <<cache, fetches>>
    BY <1>11 DEF RemoveFilter, Arrange
  <2> QED BY <1>1, <1>2, <1>11, <2>1, UnfilteredFits
<1>12. ASSUME NEW t \in Tables, NEW val, NEW i,
              Analyse(t) \/ Insert(t, val) \/ Delete(t, i) \/ Update(t, i)
       PROVE  ColumnsInvariant'
  <2>1. UNCHANGED <<view, cache, fetches>>
    BY <1>12 DEF Analyse, Insert, Delete, Update, Store
  <2>2. ViewFits(view')
    BY <1>2, <2>1
  <2> QED BY <1>1, <2>1, <2>2
<1>13. CASE BrowserNext
  <2>1. ASSUME NEW f \in fetches, RefuseFetch(f) \/ Select(f) \/ ResolveTotal(f) \/ FailFetch(f)
        PROVE  ColumnsInvariant'
    <3>1. CASE Select(f)
      BY <3>1, <1>4
    <3>2. CASE RefuseFetch(f) \/ ResolveTotal(f) \/ FailFetch(f)
      BY <3>2, <1>5
    <3> QED BY <2>1, <3>1, <3>2
  <2>2. ASSUME NEW t \in Tables, PickTable(t) \/ Analyse(t) PROVE ColumnsInvariant'
    BY <1>6, <1>12, <2>2
  <2>3. ASSUME NEW size \in Sizes, Resize(size) PROVE ColumnsInvariant'
    BY <1>8, <2>3
  <2>4. ASSUME NEW t \in Tables, NEW val \in Vals, Insert(t, val) PROVE ColumnsInvariant'
    BY <1>12, <2>4
  <2>5. ASSUME NEW t \in Tables, NEW i \in 1..Len(rows[t]), Delete(t, i) \/ Update(t, i)
        PROVE  ColumnsInvariant'
    BY <1>12, <2>5
  <2>6. Fetch => ColumnsInvariant'
    BY <1>4
  <2>7. PickSchema \/ Direction \/ AddFilter \/ TurnBack \/ TurnOn => ColumnsInvariant'
    BY <1>7, <1>8, <1>9
  <2>8. ASSUME NEW i \in 1..Len(view.filters), RemoveFilter(i) PROVE ColumnsInvariant'
    BY <1>11, <2>8
  <2> QED BY <1>10, <1>13, <2>1, <2>2, <2>3, <2>4, <2>5, <2>6, <2>7, <2>8, Zenon DEF BrowserNext
<1> QED BY <1>3, <1>13

\* Whatever tables, orders and filters the operator goes through, only a filter that was drafted
\* on another table is refused for its column, for any number of tables and columns.
THEOREM OnlyCarriedDraftsAreRefusedHolds == BrowserSpec => []OnlyCarriedDraftsAreRefused
<1>1. ColumnsInvariant => OnlyCarriedDraftsAreRefused
  BY DEF ColumnsInvariant
<1> QED BY <1>1, ColumnsStart, ColumnsStep, PTL DEF BrowserSpec


-----------------------------------------------------------------------------
(***************************************************************************)
(* The pages of what was done. Every answer stands for what it was read    *)
(* from: of the rows there were then it holds those of its ranks, however  *)
(* many came since, and its count says how many ranks there were. So the   *)
(* way down is followed by ranks: what an operator has seen reaches, among *)
(* the rows of the first page's time, as far down as the pages say.        *)
(***************************************************************************)
\* Of a record s, which is written out so that an insertion can be reasoned about.
Through(s, filter, i) == filter \in {AnyLabel, s[i].label}
IdsTo(s, filter, i) == {s[k].id : k \in {j \in 1..i : Through(s, filter, j)}}

\* The rows down to place i, among the first n that were recorded.
Rank(s, filter, i, n) == Cardinality(IdsTo(s, filter, i) \intersect 1..n)

Whole(s) ==
  /\ s \in Seq(Entry) /\ Len(s) \in Counts
  /\ \A i \in 1..Len(s) : s[i].id \in 1..Len(s)
  /\ \A i, j \in 1..Len(s) : s[i].id = s[j].id => i = j

\* A page read when the record had n rows.
HoldsPage(s, filter, page, items, n) ==
  /\ n <= Len(s)
  /\ \A i \in 1..Len(s) :
       Through(s, filter, i) /\ s[i].id <= n
       /\ Rank(s, filter, i, n) \in OffsetOf(page) + 1 .. OffsetOf(page) + PerPage => s[i].id \in items
  /\ page > 1 => items # {}

\* A count taken when it had n, and what follows of it.
HoldsTotal(s, filter, total, n) == n <= Len(s) /\ total = Rank(s, filter, Len(s), n)
HoldsMore(s, filter, page, more, n) == n <= Len(s) /\ more = HasMore(page, Rank(s, filter, Len(s), n))

AnswerStands(s, filter, page, answer) ==
  /\ HoldsPage(s, filter, page, answer.items, answer.at)
  /\ HoldsMore(s, filter, page, answer.more, answer.counted)

\* There are rows on a page that is asked for.
Reachable(s, filter, page) == page > 1 => OffsetOf(page) < Rank(s, filter, Len(s), Len(s))

FetchStands(s, filter, page, fetch) ==
  /\ Reachable(s, filter, page)
  /\ "rows" \in fetch.done => HoldsPage(s, filter, page, fetch.items, fetch.at)
  /\ "count" \in fetch.done => HoldsTotal(s, filter, fetch.total, fetch.counted)

\* The rows down to rank r when the record had n rows, of those there were at the start, were seen.
Caught(s, filter, seen, from, r, n) ==
  /\ from <= n /\ n <= Len(s)
  /\ \A i \in 1..Len(s) :
       Through(s, filter, i) /\ s[i].id <= from /\ Rank(s, filter, i, n) <= r => s[i].id \in seen

WalkStands(s, filter, page, answer, walked) ==
  /\ answer # NotRead => answer.items \subseteq walked.seen
  /\ page = 1 => walked.floor = 0 /\ walked.from = (IF answer = NotRead THEN 0 ELSE answer.at)
  /\ page > 1 /\ walked.floor <= MaxEntries => Caught(s, filter, walked.seen, walked.from, OffsetOf(page), walked.floor)

AnswersStand == \A key \in QueryKeys : answers[key] # NotRead => AnswerStands(record, key[1], key[2], answers[key])
FetchesStand == \A key \in QueryKeys : pageFetches[key] # NotRead => FetchStands(record, key[1], key[2], pageFetches[key])
ShownStands == Reachable(record, chosen, askedPage) /\ WalkStands(record, chosen, askedPage, answers[ShownPage], way)

HistoryInvariant == HistoryTypeOK /\ Whole(record) /\ AnswersStand /\ FetchesStand /\ ShownStands

----------------------------------------------------------------------------
LEMMA PageNumbers ==
  /\ PerPage \in Nat /\ PerPage >= 1 /\ MaxEntries \in Nat /\ MaxEntries >= 1
  /\ \A p \in AskedPages : /\ p \in Nat /\ p >= 1 /\ OffsetOf(p) \in Nat /\ OffsetOf(p) + PerPage = p * PerPage
                           /\ OffsetOf(p + 1) = p * PerPage /\ p * PerPage >= p /\ p * PerPage \in Nat
  /\ OffsetOf(1) = 0
<1>1. PerPage \in Nat /\ PerPage >= 1 /\ MaxEntries \in Nat /\ MaxEntries >= 1
  BY HistoryAssumption
<1>2. ASSUME NEW p \in AskedPages
      PROVE  /\ p \in Nat /\ p >= 1 /\ OffsetOf(p) \in Nat /\ OffsetOf(p) + PerPage = p * PerPage
             /\ OffsetOf(p + 1) = p * PerPage /\ p * PerPage >= p /\ p * PerPage \in Nat
  <2>1. p \in Nat /\ p >= 1
    BY <1>1 DEF AskedPages
  <2>2. (p - 1) * PerPage + PerPage = p * PerPage /\ (p + 1) - 1 = p /\ p * PerPage >= p
    BY <1>1, <2>1
  <2>3. p * PerPage \in Nat /\ (p - 1) * PerPage \in Nat
    BY <1>1, <2>1
  <2> QED BY <2>1, <2>2, <2>3 DEF OffsetOf
<1>3. OffsetOf(1) = 0
  BY <1>1 DEF OffsetOf
<1> QED BY <1>1, <1>2, <1>3

LEMMA IdsAreFew ==
  ASSUME NEW s, Whole(s), NEW f, NEW i \in 0..Len(s)
  PROVE  /\ IdsTo(s, f, i) \subseteq 1..Len(s)
         /\ IsFiniteSet(IdsTo(s, f, i)) /\ Cardinality(IdsTo(s, f, i)) \in Nat /\ Cardinality(IdsTo(s, f, i)) <= Len(s)
<1>1. Len(s) \in Nat /\ \A k \in 1..i : k \in 1..Len(s)
  BY DEF Whole, Counts
<1>2. IdsTo(s, f, i) \subseteq 1..Len(s)
  BY <1>1 DEF IdsTo, Whole
<1>3. IsFiniteSet(1..Len(s)) /\ Cardinality(1..Len(s)) = Len(s)
  <2>1. PICK n \in Int : n = Len(s) /\ n >= 0
    BY <1>1
  <2>2. IsFiniteSet(1..n) /\ Cardinality(1..n) = IF 1 > n THEN 0 ELSE n - 1 + 1
    BY FS_Interval
  <2> QED BY <2>1, <2>2
<1> QED BY <1>2, <1>3, FS_Subset, FS_CardinalityType

LEMMA RanksGrow ==
  ASSUME NEW s, Whole(s), NEW f, NEW i \in 0..Len(s), NEW j \in i..Len(s), NEW n \in Nat, NEW m \in Nat, n <= m
  PROVE  /\ Rank(s, f, i, n) \in Nat /\ Rank(s, f, j, m) \in Nat /\ Rank(s, f, i, n) <= Rank(s, f, j, m)
<1>1. Len(s) \in Nat /\ j \in 0..Len(s)
  BY DEF Whole, Counts
<1>2. IsFiniteSet(IdsTo(s, f, j)) /\ IsFiniteSet(IdsTo(s, f, i))
  BY <1>1, IdsAreFew
<1>3. IsFiniteSet(IdsTo(s, f, j) \intersect 1..m)
  BY <1>2, FS_Subset
<1>4. IdsTo(s, f, i) \intersect 1..n \subseteq IdsTo(s, f, j) \intersect 1..m
  BY <1>1 DEF IdsTo
<1> QED BY <1>3, <1>4, FS_Subset, FS_CardinalityType DEF Rank

LEMMA RanksOfAll ==
  ASSUME NEW s, Whole(s), NEW f, NEW i \in 0..Len(s)
  PROVE  Rank(s, f, i, Len(s)) = Cardinality(IdsTo(s, f, i))
<1>1. IdsTo(s, f, i) \intersect 1..Len(s) = IdsTo(s, f, i)
  BY IdsAreFew
<1> QED BY <1>1 DEF Rank

\* A row that is let through counts itself.
LEMMA RowsCount ==
  ASSUME NEW s, Whole(s), NEW f, NEW i \in 1..Len(s), Through(s, f, i), NEW n \in Nat, s[i].id <= n
  PROVE  Rank(s, f, i, n) \in Nat /\ Rank(s, f, i, n) >= 1
<1>1. Len(s) \in Nat /\ s[i].id \in 1..Len(s) /\ i \in 0..Len(s)
  BY DEF Whole, Counts
<1>2. s[i].id \in IdsTo(s, f, i) \intersect 1..n
  BY <1>1 DEF IdsTo
<1>3. IsFiniteSet(IdsTo(s, f, i) \intersect 1..n)
  BY <1>1, IdsAreFew, FS_Subset
<1>4. Rank(s, f, i, n) \in Nat /\ Rank(s, f, i, n) # 0
  BY <1>2, <1>3, FS_EmptySet, FS_CardinalityType DEF Rank
<1> QED BY <1>4

LEMMA LeastOf ==
  ASSUME NEW T \in SUBSET Nat, T # {}
  PROVE  \E x \in T : \A y \in T : x <= y
<1>1. PICK x \in T : \A y \in T : ~(<<y, x>> \in OpToRel(<, Nat))
  BY NatLessThanWellFounded, WFMin
<1>2. \A y \in T : ~(y < x)
  BY <1>1 DEF OpToRel
<1> QED BY <1>2

\* Every rank up to the total is some row's.
LEMMA RanksAreTaken ==
  ASSUME NEW s, Whole(s), NEW f, NEW k \in Nat, k >= 1, k <= Rank(s, f, Len(s), Len(s))
  PROVE  \E i \in 1..Len(s) : Through(s, f, i) /\ Cardinality(IdsTo(s, f, i)) = k
<1> DEFINE T == {i \in 0..Len(s) : Cardinality(IdsTo(s, f, i)) >= k}
<1>1. Len(s) \in Nat /\ Len(s) \in 0..Len(s) /\ T \in SUBSET Nat
  BY DEF Whole, Counts
<1>2. Len(s) \in T
  BY <1>1, RanksOfAll
<1>3. PICK i \in T : \A y \in T : i <= y
  <2> HIDE DEF T
  <2> QED BY <1>1, <1>2, LeastOf
<1>4. i \in 0..Len(s) /\ Cardinality(IdsTo(s, f, i)) >= k
  OBVIOUS
<1>5. i # 0
  <2>1. IdsTo(s, f, 0) = {}
    BY DEF IdsTo
  <2> QED BY <2>1, <1>4, FS_EmptySet
<1>6. i \in 1..Len(s) /\ i - 1 \in 0..Len(s) /\ i - 1 \notin T
  BY <1>1, <1>3, <1>4, <1>5
<1> DEFINE less == IdsTo(s, f, i - 1)
<1>7. IsFiniteSet(less) /\ Cardinality(less) \in Nat /\ Cardinality(less) < k
  BY <1>6, IdsAreFew
<1>8. \A j \in 1..i : j = i \/ j \in 1..(i - 1)
  BY <1>6
<1>9. Through(s, f, i)
  <2> SUFFICES ASSUME ~Through(s, f, i) PROVE FALSE
    OBVIOUS
  <2>1. IdsTo(s, f, i) = less
    BY <1>8, <1>6 DEF IdsTo
  <2> QED BY <2>1, <1>4, <1>7
<1>10. IdsTo(s, f, i) \subseteq less \union {s[i].id}
  BY <1>8 DEF IdsTo
<1>11. IsFiniteSet(less \union {s[i].id}) /\ Cardinality(less \union {s[i].id}) <= Cardinality(less) + 1
  <2> HIDE DEF less
  <2>1. /\ IsFiniteSet(less \union {s[i].id})
        /\ Cardinality(less \union {s[i].id}) = IF s[i].id \in less THEN Cardinality(less) ELSE Cardinality(less) + 1
    BY <1>7, FS_AddElement
  <2> QED BY <2>1, <1>7
<1>12. Cardinality(IdsTo(s, f, i)) \in Nat /\ Cardinality(IdsTo(s, f, i)) <= Cardinality(less \union {s[i].id})
  BY <1>4, <1>10, <1>11, IdsAreFew, FS_Subset
<1>13. Cardinality(less \union {s[i].id}) \in Nat
  BY <1>11, FS_CardinalityType
<1>14. Cardinality(IdsTo(s, f, i)) = k
  <2> HIDE DEF less, T
  <2> QED BY <1>4, <1>7, <1>11, <1>12, <1>13
<1> QED BY <1>6, <1>9, <1>14
----------------------------------------------------------------------------
\* Where the row of a place goes.
Moved(place, j) == IF j < place THEN j ELSE j + 1

Inserts(s, t, place) ==
  /\ Whole(t) /\ Len(t) = Len(s) + 1 /\ Len(s) \in Nat
  /\ place \in 1..Len(t) /\ t[place].id = Len(t)
  /\ \A j \in 1..Len(s) : Moved(place, j) \in 1..Len(t) /\ Moved(place, j) # place /\ t[Moved(place, j)] = s[j]
  /\ \A k \in 1..Len(t) : k = place \/ \E j \in 1..Len(s) : k = Moved(place, j)

LEMMA InsertsOne ==
  ASSUME NEW s, Whole(s), Len(s) < MaxEntries, NEW label \in Labels, NEW place \in 1..(Len(s) + 1)
  PROVE  Inserts(s, InsertAt(s, place, [id |-> Len(s) + 1, label |-> label]), place)
<1> DEFINE e == [id |-> Len(s) + 1, label |-> label]
           t == InsertAt(s, place, e)
           a == SubSeq(s, 1, place - 1)
           b == SubSeq(s, place, Len(s))
<1>1. Len(s) \in Nat /\ MaxEntries \in Nat /\ place \in Nat /\ place >= 1 /\ place <= Len(s) + 1 /\ s \in Seq(Entry)
  BY PageNumbers DEF Whole, Counts
<1>2. \A i \in 1..Len(s) : s[i] \in Entry
  BY <1>1, ElementOfSeq
<1>3. a \in Seq(Entry) /\ Len(a) = place - 1 /\ \A i \in 1..(place - 1) : a[i] = s[i]
  <2>1. \A i \in 1..(place - 1) : s[i] \in Entry
    BY <1>1, <1>2
  <2> QED BY <2>1, <1>1, SubSeqProperties
<1>4. b \in Seq(Entry) /\ Len(b) = Len(s) - place + 1 /\ \A i \in 1..(Len(s) - place + 1) : b[i] = s[place + i - 1]
  <2>1. \A i \in place..Len(s) : s[i] \in Entry
    BY <1>1, <1>2
  <2>2. /\ b \in Seq(Entry) /\ Len(b) = IF place <= Len(s) THEN Len(s) - place + 1 ELSE 0
        /\ \A i \in 1..(Len(s) - place + 1) : b[i] = s[place + i - 1]
    BY <2>1, <1>1, SubSeqProperties
  <2> QED BY <1>1, <2>2
<1>5. e \in Entry /\ <<e>> \in Seq(Entry) /\ Len(<<e>>) = 1 /\ <<e>>[1] = e
  BY <1>1 DEF Entry, EntryIds
<1> HIDE DEF a, b, e
<1>6. /\ a \o <<e>> \in Seq(Entry) /\ Len(a \o <<e>>) = place
      /\ \A i \in 1..place : (a \o <<e>>)[i] = IF i <= place - 1 THEN a[i] ELSE <<e>>[i - (place - 1)]
  BY <1>1, <1>3, <1>5, ConcatProperties
<1>7. t = (a \o <<e>>) \o b
  BY DEF t, InsertAt, a, b
<1>8. /\ t \in Seq(Entry) /\ Len(t) = Len(s) + 1
      /\ \A i \in 1..(Len(s) + 1) : t[i] = IF i <= place THEN (a \o <<e>>)[i] ELSE b[i - place]
  <2> HIDE DEF t
  <2> DEFINE c == a \o <<e>>
  <2>1. c \in Seq(Entry) /\ Len(c) = place
    BY <1>6
  <2> HIDE DEF c
  <2>2. t = c \o b
    BY <1>7 DEF c
  <2>3. /\ t \in Seq(Entry) /\ Len(t) = place + (Len(s) - place + 1)
        /\ \A i \in 1..(place + (Len(s) - place + 1)) : t[i] = IF i <= place THEN c[i] ELSE b[i - place]
    <3>1. /\ c \o b \in Seq(Entry) /\ Len(c \o b) = Len(c) + Len(b)
          /\ \A i \in 1..(Len(c) + Len(b)) : (c \o b)[i] = IF i <= Len(c) THEN c[i] ELSE b[i - Len(c)]
      BY <2>1, <1>4, ConcatProperties
    <3> QED BY <3>1, <2>1, <2>2, <1>4
  <2>4. place + (Len(s) - place + 1) = Len(s) + 1
    BY <1>1
  <2> QED BY <2>3, <2>4 DEF c
<1> HIDE DEF t
<1>9. t[place] = e
  <2>1. place \in 1..(Len(s) + 1) /\ place <= place /\ ~(place <= place - 1) /\ place - (place - 1) = 1 /\ place \in 1..place
    BY <1>1
  <2> QED BY <2>1, <1>5, <1>6, <1>8
<1>10. ASSUME NEW j \in 1..Len(s)
       PROVE  Moved(place, j) \in 1..(Len(s) + 1) /\ Moved(place, j) # place /\ t[Moved(place, j)] = s[j]
  <2>1. CASE j < place
    <3>1. Moved(place, j) = j /\ j \in 1..(Len(s) + 1) /\ j <= place /\ j \in 1..place /\ j <= place - 1 /\ j \in 1..(place - 1) /\ j # place
      BY <1>1, <2>1 DEF Moved
    <3> QED BY <3>1, <1>3, <1>6, <1>8
  <2>2. CASE ~(j < place)
    <3>1. /\ Moved(place, j) = j + 1 /\ j + 1 \in 1..(Len(s) + 1) /\ ~(j + 1 <= place) /\ j + 1 # place
          /\ (j + 1) - place \in 1..(Len(s) - place + 1) /\ place + ((j + 1) - place) - 1 = j
      BY <1>1, <2>2 DEF Moved
    <3>2. t[j + 1] = b[(j + 1) - place]
      BY <3>1, <1>8
    <3>3. b[(j + 1) - place] = s[place + ((j + 1) - place) - 1]
      BY <3>1, <1>4
    <3>4. t[j + 1] = s[j]
      BY <3>1, <3>2, <3>3
    <3> QED BY <3>1, <3>4
  <2> QED BY <2>1, <2>2
<1>11. ASSUME NEW k \in 1..(Len(s) + 1) PROVE k = place \/ \E j \in 1..Len(s) : k = Moved(place, j)
  <2>1. CASE k < place
    BY <1>1, <2>1 DEF Moved
  <2>2. CASE k > place
    <3>1. k - 1 \in 1..Len(s) /\ Moved(place, k - 1) = k
      BY <1>1, <2>2 DEF Moved
    <3> QED BY <3>1
  <2> QED BY <1>1, <2>1, <2>2
<1>12. e.id = Len(s) + 1
  BY DEF e
<1>13. ASSUME NEW i \in 1..Len(s) PROVE s[i].id \in 1..(Len(s) + 1) /\ s[i].id # Len(s) + 1
  <2>1. s[i].id \in 1..Len(s)
    BY DEF Whole
  <2> QED BY <2>1, <1>1
<1>14. ASSUME NEW k \in 1..(Len(s) + 1) PROVE t[k].id \in 1..(Len(s) + 1)
  <2>1. CASE k = place
    BY <2>1, <1>1, <1>9, <1>12
  <2>2. CASE k # place
    BY <2>2, <1>10, <1>11, <1>13
  <2> QED BY <2>1, <2>2
<1>15. ASSUME NEW k \in 1..(Len(s) + 1), NEW l \in 1..(Len(s) + 1), t[k].id = t[l].id PROVE k = l
  <2>1. CASE k = place /\ l = place
    BY <2>1
  <2>2. CASE k = place /\ l # place
    BY <2>2, <1>9, <1>10, <1>11, <1>12, <1>13, <1>15
  <2>3. CASE k # place /\ l = place
    BY <2>3, <1>9, <1>10, <1>11, <1>12, <1>13, <1>15
  <2>4. CASE k # place /\ l # place
    <3>1. PICK i \in 1..Len(s), j \in 1..Len(s) : k = Moved(place, i) /\ l = Moved(place, j)
      BY <1>11, <2>4
    <3>2. s[i].id = s[j].id
      BY <3>1, <1>10, <1>15
    <3>3. i = j
      BY <3>2 DEF Whole
    <3> QED BY <3>1, <3>3
  <2> QED BY <2>1, <2>2, <2>3, <2>4
<1>16. Len(t) \in Counts /\ place \in 1..(Len(s) + 1)
  BY <1>1, <1>8 DEF Counts
<1>17. Whole(t)
  BY <1>8, <1>14, <1>15, <1>16 DEF Whole
<1> QED BY <1>1, <1>8, <1>9, <1>10, <1>11, <1>12, <1>16, <1>17 DEF Inserts, t, e

\* Among the old rows nothing moves.
LEMMA InsertionKeepsRanks ==
  ASSUME NEW s, Whole(s), NEW t, NEW place, Inserts(s, t, place), NEW f, NEW n \in Nat, n <= Len(s)
  PROVE  /\ \A i \in 1..Len(s) : Rank(t, f, Moved(place, i), n) = Rank(s, f, i, n)
         /\ Rank(t, f, Len(t), n) = Rank(s, f, Len(s), n)
<1>1. Len(s) \in Nat /\ Len(t) = Len(s) + 1 /\ place \in Nat /\ place \in 1..(Len(s) + 1) /\ t[place].id = Len(s) + 1
  BY DEF Inserts
<1>2. \A j \in 1..Len(s) : Moved(place, j) \in 1..Len(t) /\ t[Moved(place, j)] = s[j]
  BY DEF Inserts
<1>3. \A k \in 1..Len(t) : k = place \/ \E j \in 1..Len(s) : k = Moved(place, j)
  BY DEF Inserts
<1>4. ASSUME NEW i \in 1..Len(s), NEW j \in 1..Len(s) PROVE j <= i <=> Moved(place, j) <= Moved(place, i)
  BY <1>1 DEF Moved
<1>5. ASSUME NEW j \in 1..Len(s) PROVE Through(t, f, Moved(place, j)) <=> Through(s, f, j)
  BY <1>2 DEF Through
<1>6. ASSUME NEW last \in 1..Len(s), NEW lastNow \in 1..Len(t),
             \A j \in 1..Len(s) : j <= last <=> Moved(place, j) <= lastNow
      PROVE  IdsTo(t, f, lastNow) \intersect 1..n = IdsTo(s, f, last) \intersect 1..n
  <2>1. ASSUME NEW x \in IdsTo(s, f, last) PROVE x \in IdsTo(t, f, lastNow)
    <3>1. PICK j \in 1..last : Through(s, f, j) /\ x = s[j].id
      BY <2>1 DEF IdsTo
    <3>2. j \in 1..Len(s) /\ j <= last
      BY <1>1
    <3>3. Moved(place, j) \in 1..lastNow
      BY <3>2, <1>1, <1>2, <1>6
    <3>4. Through(t, f, Moved(place, j)) /\ x = t[Moved(place, j)].id
      BY <3>1, <3>2, <1>2, <1>5
    <3> QED BY <3>3, <3>4 DEF IdsTo
  <2>2. ASSUME NEW x \in IdsTo(t, f, lastNow), x \in 1..n PROVE x \in IdsTo(s, f, last)
    <3>1. PICK k \in 1..lastNow : Through(t, f, k) /\ x = t[k].id
      BY <2>2 DEF IdsTo
    <3>2. k \in 1..Len(t) /\ k # place
      BY <3>1, <2>2, <1>1
    <3>3. PICK j \in 1..Len(s) : k = Moved(place, j)
      BY <3>2, <1>3
    <3>4. j \in 1..last
      BY <3>3, <1>1, <1>6
    <3>5. Through(s, f, j) /\ x = s[j].id
      BY <3>1, <3>3, <1>2, <1>5
    <3> QED BY <3>4, <3>5 DEF IdsTo
  <2> QED BY <2>1, <2>2
<1>7. ASSUME NEW i \in 1..Len(s) PROVE Rank(t, f, Moved(place, i), n) = Rank(s, f, i, n)
  <2>1. IdsTo(t, f, Moved(place, i)) \intersect 1..n = IdsTo(s, f, i) \intersect 1..n
    BY <1>2, <1>4, <1>6
  <2> QED BY <2>1 DEF Rank
<1>8. Rank(t, f, Len(t), n) = Rank(s, f, Len(s), n)
  <2>1. CASE Len(s) = 0
    <3>1. n = 0 /\ 1..n = {}
      BY <2>1
    <3> QED BY <3>1 DEF Rank
  <2>2. CASE Len(s) # 0
    <3>1. Len(s) \in 1..Len(s) /\ Len(t) \in 1..Len(t) /\ \A j \in 1..Len(s) : j <= Len(s) /\ Moved(place, j) <= Len(t)
      BY <2>2, <1>1, <1>2
    <3>2. IdsTo(t, f, Len(t)) \intersect 1..n = IdsTo(s, f, Len(s)) \intersect 1..n
      BY <3>1, <1>6
    <3> QED BY <3>2 DEF Rank
  <2> QED BY <2>1, <2>2
<1> QED BY <1>7, <1>8

LEMMA InsertionKeepsPages ==
  ASSUME NEW s, Whole(s), NEW t, NEW place, Inserts(s, t, place), NEW f, NEW page, NEW items, NEW n \in Nat,
         HoldsPage(s, f, page, items, n)
  PROVE  HoldsPage(t, f, page, items, n)
<1>1. n <= Len(s) /\ n <= Len(t)
  BY DEF HoldsPage, Inserts
<1>2. ASSUME NEW k \in 1..Len(t), Through(t, f, k), t[k].id <= n,
             Rank(t, f, k, n) \in OffsetOf(page) + 1 .. OffsetOf(page) + PerPage
      PROVE  t[k].id \in items
  <2>1. k # place
    BY <1>1, <1>2 DEF Inserts
  <2>2. PICK j \in 1..Len(s) : k = Moved(place, j)
    BY <2>1 DEF Inserts
  <2>3. t[k] = s[j]
    BY <2>2 DEF Inserts
  <2>4. Rank(t, f, k, n) = Rank(s, f, j, n)
    <3>1. Rank(t, f, Moved(place, j), n) = Rank(s, f, j, n)
      BY <1>1, InsertionKeepsRanks
    <3> QED BY <3>1, <2>2
  <2> QED BY <1>2, <2>3, <2>4 DEF HoldsPage, Through
<1> QED BY <1>1, <1>2 DEF HoldsPage

LEMMA InsertionKeepsCaught ==
  ASSUME NEW s, Whole(s), NEW t, NEW place, Inserts(s, t, place), NEW f, NEW seen, NEW from \in Nat, NEW r \in Nat,
         NEW n \in Nat, Caught(s, f, seen, from, r, n)
  PROVE  Caught(t, f, seen, from, r, n)
<1>1. from <= n /\ n <= Len(s) /\ n <= Len(t)
  BY DEF Caught, Inserts
<1>2. ASSUME NEW k \in 1..Len(t), Through(t, f, k), t[k].id <= from, Rank(t, f, k, n) <= r
      PROVE  t[k].id \in seen
  <2>1. k # place
    BY <1>1, <1>2 DEF Inserts
  <2>2. PICK j \in 1..Len(s) : k = Moved(place, j)
    BY <2>1 DEF Inserts
  <2>3. t[k] = s[j]
    BY <2>2 DEF Inserts
  <2>4. Rank(t, f, k, n) = Rank(s, f, j, n)
    <3>1. Rank(t, f, Moved(place, j), n) = Rank(s, f, j, n)
      BY <1>1, InsertionKeepsRanks
    <3> QED BY <3>1, <2>2
  <2> QED BY <1>2, <2>3, <2>4 DEF Caught, Through
<1> QED BY <1>1, <1>2 DEF Caught

LEMMA InsertionKeepsCounts ==
  ASSUME NEW s, Whole(s), NEW t, NEW place, Inserts(s, t, place), NEW f, NEW n \in Nat
  PROVE  /\ \A total : HoldsTotal(s, f, total, n) => HoldsTotal(t, f, total, n)
         /\ \A page, more : HoldsMore(s, f, page, more, n) => HoldsMore(t, f, page, more, n)
<1>1. n <= Len(s) => n <= Len(t)
  BY DEF Inserts
<1>2. ASSUME n <= Len(s) PROVE Rank(t, f, Len(t), n) = Rank(s, f, Len(s), n)
  BY <1>2, InsertionKeepsRanks
<1> QED BY <1>1, <1>2 DEF HoldsTotal, HoldsMore

LEMMA InsertionKeepsReachable ==
  ASSUME NEW s, Whole(s), NEW t, NEW place, Inserts(s, t, place), NEW f, NEW page \in AskedPages,
         Reachable(s, f, page)
  PROVE  Reachable(t, f, page)
<1>1. Whole(t) /\ Len(s) \in Nat /\ Len(t) = Len(s) + 1
  BY DEF Inserts
<1>2. Rank(t, f, Len(t), Len(s)) = Rank(s, f, Len(s), Len(s))
  BY <1>1, InsertionKeepsRanks
<1>3. Len(t) \in 0..Len(t) /\ Len(t) \in Len(t)..Len(t) /\ Len(t) \in Nat /\ Len(s) <= Len(t)
  BY <1>1
<1>4. Rank(t, f, Len(t), Len(s)) \in Nat /\ Rank(t, f, Len(t), Len(t)) \in Nat /\ Rank(t, f, Len(t), Len(s)) <= Rank(t, f, Len(t), Len(t))
  BY <1>1, <1>3, RanksGrow
<1>5. OffsetOf(page) \in Nat
  BY PageNumbers
<1> QED BY <1>2, <1>4, <1>5 DEF Reachable

----------------------------------------------------------------------------
LEMMA HistoryFacts ==
  ASSUME HistoryInvariant
  PROVE  /\ Whole(record) /\ record \in Seq(Entry) /\ Len(record) \in Nat /\ Len(record) <= MaxEntries
         /\ DOMAIN record = 1..Len(record)
         /\ chosen \in Choosable /\ askedPage \in AskedPages /\ ShownPage \in QueryKeys
<1>1. record \in Seq(Entry) /\ Len(record) \in Nat /\ Len(record) <= MaxEntries
  BY PageNumbers DEF HistoryInvariant, Whole, Counts
<1>2. DOMAIN record = 1..Len(record)
  BY <1>1, LenProperties
<1> QED BY <1>1, <1>2 DEF HistoryInvariant, HistoryTypeOK, ShownPage, QueryKeys

LEMMA RecordRead ==
  ASSUME HistoryInvariant, NEW f, NEW page
  PROVE  /\ \A n \in 0..Len(record) : MatchingIds(f, n) = IdsTo(record, f, n)
         /\ Total(f) = Rank(record, f, Len(record), Len(record)) /\ Total(f) \in Counts
         /\ PageOf(f, page) = {record[i].id : i \in {j \in 1..Len(record) : /\ Through(record, f, j)
              /\ Rank(record, f, j, Len(record)) \in OffsetOf(page) + 1 .. OffsetOf(page) + PerPage}}
         /\ PageOf(f, page) \subseteq EntryIds
<1>1. Whole(record) /\ Len(record) \in Nat /\ Len(record) <= MaxEntries /\ DOMAIN record = 1..Len(record)
  BY HistoryFacts
<1>2. \A n \in 0..Len(record) : MatchingIds(f, n) = IdsTo(record, f, n)
  BY DEF MatchingIds, IdsTo, Through
<1>3. \A n \in 0..Len(record) : Cardinality(MatchingIds(f, n)) = Rank(record, f, n, Len(record))
  BY <1>1, <1>2, RanksOfAll
<1>4. Len(record) \in 0..Len(record) /\ \A j \in 1..Len(record) : j \in 0..Len(record)
  BY <1>1
<1>5. Total(f) = Rank(record, f, Len(record), Len(record))
  BY <1>3, <1>4 DEF Total
<1>6. Cardinality(IdsTo(record, f, Len(record))) \in Nat /\ Cardinality(IdsTo(record, f, Len(record))) <= Len(record)
  BY <1>1, <1>4, IdsAreFew
<1>7. Total(f) \in Counts
  BY <1>1, <1>2, <1>4, <1>6, PageNumbers DEF Total, Counts
<1>8. PageOf(f, page) = {record[i].id : i \in {j \in 1..Len(record) : /\ Through(record, f, j)
              /\ Rank(record, f, j, Len(record)) \in OffsetOf(page) + 1 .. OffsetOf(page) + PerPage}}
  <2>1. \A j \in DOMAIN record : Cardinality(MatchingIds(f, j)) = Rank(record, f, j, Len(record))
    BY <1>1, <1>3, <1>4
  <2> QED BY <2>1, <1>1 DEF PageOf, Through
<1>9. \A i \in 1..Len(record) : record[i].id \in EntryIds
  BY <1>1, PageNumbers DEF Whole, EntryIds
<1> QED BY <1>2, <1>5, <1>7, <1>8, <1>9

LEMMA PagesReadHold ==
  ASSUME HistoryInvariant, NEW f, NEW page \in AskedPages, Reachable(record, f, page)
  PROVE  HoldsPage(record, f, page, PageOf(f, page), Len(record))
<1>1. Whole(record) /\ Len(record) \in Nat
  BY HistoryFacts
<1> DEFINE items == {record[i].id : i \in {j \in 1..Len(record) : /\ Through(record, f, j)
              /\ Rank(record, f, j, Len(record)) \in OffsetOf(page) + 1 .. OffsetOf(page) + PerPage}}
<1>2. PageOf(f, page) = items
  BY RecordRead
<1>3. ASSUME page > 1 PROVE items # {}
  <2>1. OffsetOf(page) \in Nat /\ PerPage \in Nat /\ PerPage >= 1
    BY PageNumbers
  <2>2. OffsetOf(page) < Rank(record, f, Len(record), Len(record))
    BY <1>3 DEF Reachable
  <2>3. Rank(record, f, Len(record), Len(record)) \in Nat
    BY <1>1, RanksGrow
  <2>4. PICK i \in 1..Len(record) : Through(record, f, i) /\ Cardinality(IdsTo(record, f, i)) = OffsetOf(page) + 1
    <3>1. OffsetOf(page) + 1 \in Nat /\ OffsetOf(page) + 1 >= 1 /\ OffsetOf(page) + 1 <= Rank(record, f, Len(record), Len(record))
      BY <2>1, <2>2, <2>3
    <3> QED BY <3>1, <1>1, RanksAreTaken
  <2>5. Rank(record, f, i, Len(record)) = OffsetOf(page) + 1
    BY <2>4, <1>1, RanksOfAll
  <2>6. Rank(record, f, i, Len(record)) \in OffsetOf(page) + 1 .. OffsetOf(page) + PerPage
    BY <2>5, <2>1
  <2> QED BY <2>4, <2>6
<1>4. Len(record) <= Len(record)
  BY <1>1
<1> QED BY <1>2, <1>3, <1>4 DEF HoldsPage

\* A page's answer carries the reader a page further down.
LEMMA PagesCatch ==
  ASSUME NEW s, Whole(s), NEW f, NEW page \in AskedPages, NEW answer \in PageAnswer, NEW walked,
         walked.floor \in 0..(MaxEntries + 1), walked.from \in Counts,
         AnswerStands(s, f, page, answer), WalkStands(s, f, page, answer, walked), answer.at >= walked.floor
  PROVE  Caught(s, f, walked.seen, walked.from, page * PerPage, answer.at)
<1>1. Len(s) \in Nat /\ Len(s) <= MaxEntries /\ MaxEntries \in Nat /\ answer.at \in Nat /\ answer.at <= Len(s)
  BY PageNumbers DEF Whole, Counts, AnswerStands, HoldsPage, PageAnswer
<1>2. answer # NotRead /\ answer.items \subseteq walked.seen
  BY HistoryAssumption DEF WalkStands
<1>3. walked.floor \in Nat /\ walked.floor <= MaxEntries /\ walked.from \in Nat
  BY <1>1 DEF Counts
<1>4. OffsetOf(page) \in Nat /\ PerPage \in Nat /\ OffsetOf(page) + PerPage = page * PerPage /\ page \in Nat /\ page >= 1
  BY PageNumbers
<1>5. page > 1 => Caught(s, f, walked.seen, walked.from, OffsetOf(page), walked.floor)
  BY <1>3 DEF WalkStands
<1>6. page = 1 => walked.from = answer.at /\ OffsetOf(page) = 0
  BY <1>2, PageNumbers DEF WalkStands
<1>7. walked.from <= answer.at
  <2>1. CASE page = 1
    BY <2>1, <1>6, <1>1
  <2>2. CASE page > 1
    BY <2>2, <1>1, <1>3, <1>5 DEF Caught
  <2> QED BY <2>1, <2>2, <1>4
<1>8. ASSUME NEW i \in 1..Len(s), Through(s, f, i), s[i].id <= walked.from, Rank(s, f, i, answer.at) <= page * PerPage
      PROVE  s[i].id \in walked.seen
  <2>1. s[i].id \in Nat /\ s[i].id <= answer.at
    BY <1>1, <1>3, <1>7, <1>8 DEF Whole
  <2>2. Rank(s, f, i, answer.at) \in Nat /\ Rank(s, f, i, answer.at) >= 1
    BY <2>1, <1>1, <1>8, RowsCount
  <2>3. CASE Rank(s, f, i, answer.at) > OffsetOf(page)
    <3>1. Rank(s, f, i, answer.at) \in OffsetOf(page) + 1 .. OffsetOf(page) + PerPage
      BY <2>2, <2>3, <1>4, <1>8
    <3>2. s[i].id \in answer.items
      BY <3>1, <2>1, <1>8 DEF AnswerStands, HoldsPage
    <3> QED BY <3>2, <1>2
  <2>4. CASE Rank(s, f, i, answer.at) <= OffsetOf(page)
    <3>1. page > 1
      BY <2>2, <2>4, <1>4, <1>6
    <3>2. Caught(s, f, walked.seen, walked.from, OffsetOf(page), walked.floor)
      BY <3>1, <1>5
    <3>3. /\ Rank(s, f, i, walked.floor) \in Nat
          /\ Rank(s, f, i, walked.floor) <= Rank(s, f, i, answer.at)
      <4>1. i \in 0..Len(s) /\ i \in i..Len(s)
        BY <1>1
      <4> QED BY <4>1, <1>1, <1>3, RanksGrow
    <3>4. Rank(s, f, i, walked.floor) <= OffsetOf(page)
      BY <3>3, <2>2, <2>4, <1>4
    <3> QED BY <3>2, <3>4, <1>8 DEF Caught
  <2> QED BY <2>2, <2>3, <2>4, <1>4
<1> QED BY <1>1, <1>7, <1>8 DEF Caught

----------------------------------------------------------------------------
LEMMA KeysFit == \A key \in QueryKeys : key[1] \in Choosable /\ key[2] \in AskedPages
BY DEF QueryKeys

LEMMA HistoryTyped ==
  ASSUME HistoryInvariant, NEW key \in QueryKeys
  PROVE  /\ answers[key] # NotRead => /\ answers[key] \in PageAnswer /\ AnswerStands(record, key[1], key[2], answers[key])
                                      /\ answers[key].at \in Nat /\ answers[key].counted \in Nat
         /\ pageFetches[key] # NotRead => /\ pageFetches[key] \in PageFetch /\ FetchStands(record, key[1], key[2], pageFetches[key])
                                          /\ pageFetches[key].at \in Nat /\ pageFetches[key].counted \in Nat
         /\ way.floor \in Nat /\ way.from \in Nat
<1>1. /\ answers[key] # NotRead => answers[key] \in PageAnswer
      /\ pageFetches[key] # NotRead => pageFetches[key] \in PageFetch
  BY DEF HistoryInvariant, HistoryTypeOK
<1>2. Counts \subseteq Nat /\ 0..(MaxEntries + 1) \subseteq Nat
  BY PageNumbers DEF Counts
<1>3. way.floor \in 0..(MaxEntries + 1) /\ way.from \in Counts
  BY DEF HistoryInvariant, HistoryTypeOK
<1> QED BY <1>1, <1>2, <1>3 DEF HistoryInvariant, AnswersStand, FetchesStand, PageAnswer, PageFetch

LEMMA HistoryStarts == HistoryInit => HistoryInvariant
<1> SUFFICES ASSUME HistoryInit PROVE HistoryInvariant
  OBVIOUS
<1>1. AnyLabel \in Choosable /\ 1 \in AskedPages /\ Unread \in PageFetch /\ 0 \in Counts
  BY PageNumbers DEF Choosable, AskedPages, Unread, PageFetch, Counts
<1>2. record \in Seq(Entry) /\ Len(record) = 0
  BY EmptySeq DEF HistoryInit
<1>3. WalkBegins \in [seen : SUBSET EntryIds, from : Counts, floor : 0..(MaxEntries + 1)]
  BY PageNumbers DEF WalkBegins, Counts
<1>4. HistoryTypeOK
  BY <1>1, <1>2, <1>3 DEF HistoryTypeOK, HistoryInit
<1>5. Whole(record)
  BY <1>1, <1>2 DEF Whole
<1>6. AnswersStand
  BY DEF AnswersStand, HistoryInit
<1>7. FetchesStand
  <2> SUFFICES ASSUME NEW key \in QueryKeys, pageFetches[key] # NotRead PROVE FetchStands(record, key[1], key[2], pageFetches[key])
    BY DEF FetchesStand
  <2>1. pageFetches[key] = Unread /\ key[2] = 1
    BY DEF HistoryInit
  <2> QED BY <2>1 DEF FetchStands, Reachable, Unread
<1>8. ShownStands
  <2>1. ShownPage \in QueryKeys /\ answers[ShownPage] = NotRead /\ askedPage = 1 /\ way = WalkBegins
    BY <1>1 DEF HistoryInit, ShownPage, QueryKeys
  <2> QED BY <2>1 DEF ShownStands, Reachable, WalkStands, WalkBegins
<1> QED BY <1>4, <1>5, <1>6, <1>7, <1>8 DEF HistoryInvariant

\* One fetch replaced by one that stands.
LEMMA FetchesFollow ==
  ASSUME HistoryInvariant, NEW key \in QueryKeys, NEW new \in PageFetch \union {NotRead},
         new # NotRead => FetchStands(record, key[1], key[2], new),
         pageFetches' = [pageFetches EXCEPT ![key] = new], record' = record
  PROVE  FetchesStand' /\ pageFetches' \in [QueryKeys -> PageFetch \union {NotRead}]
<1>1. pageFetches \in [QueryKeys -> PageFetch \union {NotRead}]
  BY DEF HistoryInvariant, HistoryTypeOK
<1>2. pageFetches' \in [QueryKeys -> PageFetch \union {NotRead}]
  BY <1>1
<1>3. ASSUME NEW k \in QueryKeys, pageFetches'[k] # NotRead PROVE FetchStands(record', k[1], k[2], pageFetches'[k])
  <2>1. CASE k = key
    BY <1>1, <1>3, <2>1
  <2>2. CASE k # key
    <3>1. pageFetches'[k] = pageFetches[k]
      BY <1>1, <2>2
    <3> QED BY <3>1, <1>3 DEF HistoryInvariant, FetchesStand
  <2> QED BY <2>1, <2>2
<1> QED BY <1>2, <1>3 DEF FetchesStand

LEMMA AskingStands ==
  Unread \in PageFetch /\ \A s, f, page : Reachable(s, f, page) => FetchStands(s, f, page, Unread)
BY PageNumbers DEF Unread, PageFetch, FetchStands, Counts

LEMMA RecordEntryKeeps ==
  ASSUME HistoryInvariant, NEW label \in Labels, NEW place \in {1, 2}, RecordEntry(label, place)
  PROVE  HistoryInvariant'
<1> DEFINE t == InsertAt(record, place, [id |-> Len(record) + 1, label |-> label])
<1>1. /\ Len(record) < MaxEntries /\ place <= Len(record) + 1
      /\ record' = t /\ chosen' = chosen /\ askedPage' = askedPage /\ answers' = answers
      /\ pageFetches' = pageFetches /\ way' = way
  BY DEF RecordEntry
<1>2. Whole(record) /\ Len(record) \in Nat /\ place \in 1..(Len(record) + 1)
  BY <1>1, HistoryFacts
<1>3. Inserts(record, record', place)
  BY <1>1, <1>2, InsertsOne
<1> HIDE DEF t
<1>4. Whole(record')
  BY <1>3 DEF Inserts
<1>5. HistoryTypeOK'
  BY <1>1, <1>4 DEF HistoryInvariant, HistoryTypeOK, Whole
<1>6. AnswersStand'
  <2> SUFFICES ASSUME NEW key \in QueryKeys, answers'[key] # NotRead
               PROVE  AnswerStands(record', key[1], key[2], answers'[key])
    BY DEF AnswersStand
  <2>1. /\ AnswerStands(record, key[1], key[2], answers[key]) /\ answers[key].at \in Nat /\ answers[key].counted \in Nat
        /\ answers'[key] = answers[key]
    BY <1>1, HistoryTyped
  <2>2. HoldsPage(record', key[1], key[2], answers[key].items, answers[key].at)
    BY <2>1, <1>2, <1>3, InsertionKeepsPages DEF AnswerStands
  <2>3. HoldsMore(record', key[1], key[2], answers[key].more, answers[key].counted)
    BY <2>1, <1>2, <1>3, InsertionKeepsCounts DEF AnswerStands
  <2> QED BY <2>1, <2>2, <2>3 DEF AnswerStands
<1>7. FetchesStand'
  <2> SUFFICES ASSUME NEW key \in QueryKeys, pageFetches'[key] # NotRead
               PROVE  FetchStands(record', key[1], key[2], pageFetches'[key])
    BY DEF FetchesStand
  <2>1. /\ FetchStands(record, key[1], key[2], pageFetches[key]) /\ pageFetches[key].at \in Nat /\ pageFetches[key].counted \in Nat
        /\ pageFetches'[key] = pageFetches[key]
    BY <1>1, HistoryTyped
  <2>2. "rows" \in pageFetches[key].done => HoldsPage(record', key[1], key[2], pageFetches[key].items, pageFetches[key].at)
    BY <2>1, <1>2, <1>3, InsertionKeepsPages DEF FetchStands
  <2>3. "count" \in pageFetches[key].done => HoldsTotal(record', key[1], pageFetches[key].total, pageFetches[key].counted)
    BY <2>1, <1>2, <1>3, InsertionKeepsCounts DEF FetchStands
  <2>4. Reachable(record', key[1], key[2])
    BY <2>1, <1>2, <1>3, KeysFit, InsertionKeepsReachable DEF FetchStands
  <2> QED BY <2>1, <2>2, <2>3, <2>4 DEF FetchStands
<1>8. ShownStands'
  <2>1. askedPage \in AskedPages /\ way.from \in Nat /\ way.floor \in Nat /\ ShownPage' = ShownPage /\ OffsetOf(askedPage) \in Nat
    BY <1>1, HistoryFacts, HistoryTyped, PageNumbers DEF ShownPage
  <2>2. Reachable(record', chosen, askedPage)
    BY <2>1, <1>2, <1>3, InsertionKeepsReachable DEF HistoryInvariant, ShownStands
  <2>3. WalkStands(record, chosen, askedPage, answers[ShownPage], way)
    BY DEF HistoryInvariant, ShownStands
  <2>4. Caught(record, chosen, way.seen, way.from, OffsetOf(askedPage), way.floor)
        => Caught(record', chosen, way.seen, way.from, OffsetOf(askedPage), way.floor)
    BY <2>1, <1>2, <1>3, InsertionKeepsCaught
  <2>5. WalkStands(record', chosen, askedPage, answers[ShownPage], way)
    BY <2>3, <2>4 DEF WalkStands
  <2> QED BY <2>1, <2>2, <2>5, <1>1 DEF ShownStands
<1> QED BY <1>4, <1>5, <1>6, <1>7, <1>8 DEF HistoryInvariant

LEMMA ReadItemsKeeps ==
  ASSUME HistoryInvariant, NEW key \in QueryKeys, ReadItems(key)
  PROVE  HistoryInvariant'
<1> DEFINE fetch == pageFetches[key]
           new == [fetch EXCEPT !.done = fetch.done \union {"rows"}, !.items = PageOf(key[1], key[2]), !.at = Len(record)]
<1>1. /\ fetch # NotRead /\ pageFetches' = [pageFetches EXCEPT ![key] = new]
      /\ record' = record /\ chosen' = chosen /\ askedPage' = askedPage /\ answers' = answers /\ way' = way
  BY DEF ReadItems
<1>2. fetch \in PageFetch /\ FetchStands(record, key[1], key[2], fetch)
  BY <1>1, HistoryTyped
<1>3. PageOf(key[1], key[2]) \subseteq EntryIds /\ Len(record) \in Counts
  BY RecordRead DEF HistoryInvariant, HistoryTypeOK
<1>4. new \in PageFetch
  BY <1>2, <1>3 DEF PageFetch
<1>5. /\ new.items = PageOf(key[1], key[2]) /\ new.at = Len(record) /\ new.total = fetch.total /\ new.counted = fetch.counted
      /\ "count" \in new.done <=> "count" \in fetch.done
  BY <1>2 DEF PageFetch
<1> HIDE DEF new
<1>6. HoldsPage(record, key[1], key[2], new.items, new.at)
  BY <1>2, <1>5, KeysFit, PagesReadHold DEF FetchStands
<1>7. FetchStands(record, key[1], key[2], new)
  BY <1>2, <1>5, <1>6 DEF FetchStands
<1>8. FetchesStand' /\ pageFetches' \in [QueryKeys -> PageFetch \union {NotRead}]
  BY <1>1, <1>4, <1>7, FetchesFollow
<1> QED BY <1>1, <1>8 DEF HistoryInvariant, HistoryTypeOK, Whole, AnswersStand, ShownStands, ShownPage

LEMMA CountTotalKeeps ==
  ASSUME HistoryInvariant, NEW key \in QueryKeys, CountTotal(key)
  PROVE  HistoryInvariant'
<1> DEFINE fetch == pageFetches[key]
           new == [fetch EXCEPT !.done = fetch.done \union {"count"}, !.total = Total(key[1]), !.counted = Len(record)]
<1>1. /\ fetch # NotRead /\ pageFetches' = [pageFetches EXCEPT ![key] = new]
      /\ record' = record /\ chosen' = chosen /\ askedPage' = askedPage /\ answers' = answers /\ way' = way
  BY DEF CountTotal
<1>2. fetch \in PageFetch /\ FetchStands(record, key[1], key[2], fetch)
  BY <1>1, HistoryTyped
<1>3. Total(key[1]) \in Counts /\ Total(key[1]) = Rank(record, key[1], Len(record), Len(record)) /\ Len(record) \in Counts
  BY RecordRead DEF HistoryInvariant, HistoryTypeOK
<1>4. new \in PageFetch
  BY <1>2, <1>3 DEF PageFetch
<1>5. /\ new.items = fetch.items /\ new.at = fetch.at /\ new.total = Total(key[1]) /\ new.counted = Len(record)
      /\ "rows" \in new.done <=> "rows" \in fetch.done
  BY <1>2 DEF PageFetch
<1> HIDE DEF new
<1>6. HoldsTotal(record, key[1], new.total, new.counted)
  BY <1>3, <1>5, HistoryFacts DEF HoldsTotal
<1>7. FetchStands(record, key[1], key[2], new)
  BY <1>2, <1>5, <1>6 DEF FetchStands
<1>8. FetchesStand' /\ pageFetches' \in [QueryKeys -> PageFetch \union {NotRead}]
  BY <1>1, <1>4, <1>7, FetchesFollow
<1> QED BY <1>1, <1>8 DEF HistoryInvariant, HistoryTypeOK, Whole, AnswersStand, ShownStands, ShownPage

\* What has been looked at stays caught, and more of it.
LEMMA LookingKeeps ==
  ASSUME NEW s, NEW f, NEW page, NEW old, NEW answer, answer # NotRead, NEW before,
         before \in [seen : SUBSET EntryIds, from : Counts, floor : 0..(MaxEntries + 1)],
         answer \in PageAnswer,
         page = 1 => before.floor = 0,
         page > 1 /\ before.floor <= MaxEntries => Caught(s, f, before.seen, before.from, OffsetOf(page), before.floor)
  PROVE  /\ WalkStands(s, f, page, answer, Looked(before, answer, page))
         /\ Looked(before, answer, page) \in [seen : SUBSET EntryIds, from : Counts, floor : 0..(MaxEntries + 1)]
<1> DEFINE after == Looked(before, answer, page)
<1>1. /\ after.seen = before.seen \union answer.items /\ after.floor = before.floor
      /\ after.from = (IF page = 1 THEN answer.at ELSE before.from)
      /\ after \in [seen : SUBSET EntryIds, from : Counts, floor : 0..(MaxEntries + 1)]
  BY DEF Looked, PageAnswer
<1> HIDE DEF after
<1>2. page > 1 /\ after.floor <= MaxEntries => Caught(s, f, after.seen, after.from, OffsetOf(page), after.floor)
  BY <1>1 DEF Caught
<1>3. WalkStands(s, f, page, answer, after)
  BY <1>1, <1>2 DEF WalkStands
<1> QED BY <1>1, <1>3 DEF after

LEMMA AnswerArrivesKeeps ==
  ASSUME HistoryInvariant, NEW key \in QueryKeys, AnswerArrives(key)
  PROVE  HistoryInvariant'
<1> DEFINE fetch == pageFetches[key]
           answer == AnswerOf(fetch, key[2])
<1>1. /\ fetch # NotRead /\ fetch.done = {"rows", "count"}
      /\ answers' = [answers EXCEPT ![key] = answer]
      /\ way' = (IF key = ShownPage THEN Looked(way, answer, askedPage) ELSE way)
      /\ pageFetches' = [pageFetches EXCEPT ![key] = NotRead]
      /\ record' = record /\ chosen' = chosen /\ askedPage' = askedPage
  BY DEF AnswerArrives
<1>2. fetch \in PageFetch /\ FetchStands(record, key[1], key[2], fetch)
  BY <1>1, HistoryTyped
<1>3. answer \in PageAnswer
  BY <1>2 DEF AnswerOf, PageFetch, PageAnswer, HasMore
<1>4. AnswerStands(record, key[1], key[2], answer)
  BY <1>1, <1>2 DEF AnswerOf, AnswerStands, FetchStands, HoldsTotal, HoldsMore
<1> HIDE DEF answer
<1>5. answer # NotRead
  BY <1>3, HistoryAssumption
<1>6. FetchesStand' /\ pageFetches' \in [QueryKeys -> PageFetch \union {NotRead}]
  BY <1>1, FetchesFollow
<1>7. answers \in [QueryKeys -> PageAnswer \union {NotRead}]
  BY DEF HistoryInvariant, HistoryTypeOK
<1>8. answers' \in [QueryKeys -> PageAnswer \union {NotRead}]
  BY <1>1, <1>3, <1>7
<1>9. answers'[key] = answer /\ \A k \in QueryKeys : k # key => answers'[k] = answers[k]
  BY <1>1, <1>7
<1>10. AnswersStand'
  BY <1>1, <1>4, <1>9 DEF HistoryInvariant, AnswersStand
<1>11. /\ way \in [seen : SUBSET EntryIds, from : Counts, floor : 0..(MaxEntries + 1)]
       /\ WalkStands(record, chosen, askedPage, answers[ShownPage], way) /\ Reachable(record, chosen, askedPage)
  BY DEF HistoryInvariant, HistoryTypeOK, ShownStands
<1>12. /\ WalkStands(record, chosen, askedPage, answers'[ShownPage], way')
       /\ way' \in [seen : SUBSET EntryIds, from : Counts, floor : 0..(MaxEntries + 1)]
  <2>1. CASE key = ShownPage
    <3>1. /\ WalkStands(record, chosen, askedPage, answer, Looked(way, answer, askedPage))
          /\ Looked(way, answer, askedPage) \in [seen : SUBSET EntryIds, from : Counts, floor : 0..(MaxEntries + 1)]
      BY <1>3, <1>5, <1>11, LookingKeeps DEF WalkStands
    <3> QED BY <3>1, <2>1, <1>1, <1>9
  <2>2. CASE key # ShownPage
    BY <2>2, <1>1, <1>9, <1>11, HistoryFacts
  <2> QED BY <2>1, <2>2
<1>13. ShownStands'
  <2>1. ShownPage' = ShownPage
    BY <1>1 DEF ShownPage
  <2> QED BY <2>1, <1>1, <1>11, <1>12 DEF ShownStands
<1> QED BY <1>1, <1>6, <1>8, <1>10, <1>12, <1>13 DEF HistoryInvariant, HistoryTypeOK, Whole

LEMMA FetchFailsKeeps ==
  ASSUME HistoryInvariant, NEW key \in QueryKeys, FetchFails(key)
  PROVE  HistoryInvariant'
<1>1. /\ pageFetches' = [pageFetches EXCEPT ![key] = NotRead]
      /\ record' = record /\ chosen' = chosen /\ askedPage' = askedPage /\ answers' = answers /\ way' = way
  BY DEF FetchFails
<1>2. FetchesStand' /\ pageFetches' \in [QueryKeys -> PageFetch \union {NotRead}]
  BY <1>1, FetchesFollow
<1> QED BY <1>1, <1>2 DEF HistoryInvariant, HistoryTypeOK, Whole, AnswersStand, ShownStands, ShownPage

LEMMA RefetchedKeeps ==
  ASSUME HistoryInvariant, Refetched
  PROVE  HistoryInvariant'
<1>1. /\ pageFetches' = [pageFetches EXCEPT ![ShownPage] = Unread]
      /\ record' = record /\ chosen' = chosen /\ askedPage' = askedPage /\ answers' = answers /\ way' = way
  BY DEF Refetched
<1>2. ShownPage \in QueryKeys /\ ShownPage[1] = chosen /\ ShownPage[2] = askedPage
  BY HistoryFacts DEF ShownPage
<1>3. FetchStands(record, ShownPage[1], ShownPage[2], Unread)
  BY <1>2, AskingStands DEF HistoryInvariant, ShownStands
<1>4. FetchesStand' /\ pageFetches' \in [QueryKeys -> PageFetch \union {NotRead}]
  BY <1>1, <1>2, <1>3, AskingStands, FetchesFollow
<1> QED BY <1>1, <1>4 DEF HistoryInvariant, HistoryTypeOK, Whole, AnswersStand, ShownStands, ShownPage

\* A page mounted by one who came a way that stands so far.
LEMMA MountKeeps ==
  ASSUME HistoryInvariant, NEW f \in Choosable, NEW page \in AskedPages, NEW before, NEW aged \in BOOLEAN,
         before \in [seen : SUBSET EntryIds, from : Counts, floor : 0..(MaxEntries + 1)],
         page = 1 => before.floor = 0 /\ before.from = 0,
         page > 1 /\ before.floor <= MaxEntries => Caught(record, f, before.seen, before.from, OffsetOf(page), before.floor),
         Reachable(record, f, page), Mount(<<f, page>>, before, aged),
         record' = record, answers' = answers, chosen' = f, askedPage' = page
  PROVE  HistoryInvariant'
<1> DEFINE key == <<f, page>>
<1>1. key \in QueryKeys /\ key[1] = f /\ key[2] = page
  BY DEF QueryKeys
<1>2. /\ way' = (IF answers[key] = NotRead THEN before ELSE Looked(before, answers[key], key[2]))
      /\ pageFetches' = (IF key \notin InFlight /\ (answers[key] = NotRead \/ aged)
                           THEN [pageFetches EXCEPT ![key] = Unread] ELSE pageFetches)
  BY DEF Mount
<1> HIDE DEF key
<1>3. FetchesStand' /\ pageFetches' \in [QueryKeys -> PageFetch \union {NotRead}]
  <2>1. CASE pageFetches' = pageFetches
    BY <2>1 DEF HistoryInvariant, HistoryTypeOK, FetchesStand
  <2>2. CASE pageFetches' = [pageFetches EXCEPT ![key] = Unread]
    <3>1. FetchStands(record, key[1], key[2], Unread)
      BY <1>1, AskingStands
    <3> QED BY <2>2, <3>1, <1>1, AskingStands, FetchesFollow
  <2> QED BY <1>2, <2>1, <2>2
<1>4. /\ WalkStands(record, f, page, answers[key], way')
      /\ way' \in [seen : SUBSET EntryIds, from : Counts, floor : 0..(MaxEntries + 1)]
  <2>1. CASE answers[key] = NotRead
    BY <2>1, <1>2 DEF WalkStands
  <2>2. CASE answers[key] # NotRead
    <3>1. answers[key] \in PageAnswer
      BY <2>2, <1>1, HistoryTyped
    <3> QED BY <3>1, <2>2, <1>1, <1>2, LookingKeeps
  <2> QED BY <2>1, <2>2
<1>5. ShownPage' = key
  BY DEF ShownPage, key
<1>6. ShownStands'
  BY <1>4, <1>5 DEF ShownStands
<1> QED BY <1>3, <1>4, <1>6 DEF HistoryInvariant, HistoryTypeOK, Whole, AnswersStand

LEMMA ChooseKeeps ==
  ASSUME HistoryInvariant, NEW filter \in Choosable, NEW aged \in BOOLEAN, Choose(filter, aged)
  PROVE  HistoryInvariant'
<1>1. /\ chosen' = filter /\ askedPage' = 1 /\ Mount(<<filter, 1>>, WalkBegins, aged)
      /\ record' = record /\ answers' = answers
  BY DEF Choose, PageOfNewFilter
<1>2. WalkBegins \in [seen : SUBSET EntryIds, from : Counts, floor : 0..(MaxEntries + 1)]
  BY PageNumbers DEF WalkBegins, Counts
<1>3. 1 \in AskedPages /\ WalkBegins.floor = 0 /\ WalkBegins.from = 0 /\ Reachable(record, filter, 1)
  BY PageNumbers DEF AskedPages, WalkBegins, Reachable
<1> QED BY <1>1, <1>2, <1>3, MountKeeps

LEMMA LoadOlderKeeps ==
  ASSUME HistoryInvariant, NEW aged \in BOOLEAN, LoadOlder(aged)
  PROVE  HistoryInvariant'
<1> DEFINE answer == answers[ShownPage]
           before == [way EXCEPT !.floor = FloorAfter(answer.at)]
<1>1. /\ answer # NotRead /\ answer.more /\ askedPage' = askedPage + 1
      /\ Mount(<<chosen, askedPage + 1>>, before, aged)
      /\ record' = record /\ answers' = answers /\ chosen' = chosen
  BY DEF LoadOlder
<1>2. /\ ShownPage \in QueryKeys /\ ShownPage[1] = chosen /\ ShownPage[2] = askedPage
      /\ Whole(record) /\ Len(record) \in Nat /\ Len(record) <= MaxEntries /\ chosen \in Choosable /\ askedPage \in AskedPages
  BY HistoryFacts DEF ShownPage
<1>3. /\ answer \in PageAnswer /\ AnswerStands(record, chosen, askedPage, answer) /\ answer.at \in Nat /\ answer.counted \in Nat
      /\ way.floor \in Nat
  BY <1>1, <1>2, HistoryTyped
<1>4. /\ WalkStands(record, chosen, askedPage, answer, way) /\ way.floor \in 0..(MaxEntries + 1) /\ way.from \in Counts
      /\ way \in [seen : SUBSET EntryIds, from : Counts, floor : 0..(MaxEntries + 1)]
  BY DEF HistoryInvariant, ShownStands, HistoryTypeOK
<1>5. /\ before.seen = way.seen /\ before.from = way.from
      /\ before.floor = (IF answer.at < way.floor THEN MaxEntries + 1 ELSE answer.at)
  BY <1>4 DEF FloorAfter
<1>6. answer.at <= Len(record) /\ answer.counted <= Len(record)
  BY <1>3 DEF AnswerStands, HoldsPage, HoldsMore
<1>7. before \in [seen : SUBSET EntryIds, from : Counts, floor : 0..(MaxEntries + 1)]
  <2>1. FloorAfter(answer.at) \in 0..(MaxEntries + 1)
    BY <1>2, <1>3, <1>6, PageNumbers DEF FloorAfter
  <2> QED BY <2>1, <1>4
<1> HIDE DEF before, answer
<1>8. askedPage \in Nat /\ askedPage >= 1 /\ askedPage * PerPage \in Nat /\ askedPage * PerPage >= askedPage
      /\ OffsetOf(askedPage + 1) = askedPage * PerPage
  BY <1>2, PageNumbers
<1>9. /\ askedPage * PerPage < Rank(record, chosen, Len(record), Len(record))
      /\ Rank(record, chosen, Len(record), Len(record)) \in Nat /\ Rank(record, chosen, Len(record), Len(record)) <= Len(record)
  <2>1. askedPage * PerPage < Rank(record, chosen, Len(record), answer.counted)
    BY <1>1, <1>3 DEF AnswerStands, HoldsMore, HasMore
  <2>2. Len(record) \in 0..Len(record) /\ Len(record) \in Len(record)..Len(record)
    BY <1>2
  <2>3. /\ Rank(record, chosen, Len(record), answer.counted) \in Nat /\ Rank(record, chosen, Len(record), Len(record)) \in Nat
        /\ Rank(record, chosen, Len(record), answer.counted) <= Rank(record, chosen, Len(record), Len(record))
    BY <2>2, <1>2, <1>3, <1>6, RanksGrow
  <2>4. Rank(record, chosen, Len(record), Len(record)) <= Len(record)
    BY <2>2, <1>2, RanksOfAll, IdsAreFew
  <2> QED BY <2>1, <2>3, <2>4, <1>8
<1>10. askedPage + 1 \in AskedPages /\ askedPage + 1 > 1
  <2>1. PICK last \in Nat : last = askedPage * PerPage /\ last >= askedPage
    BY <1>8
  <2>2. last < Len(record)
    BY <2>1, <1>2, <1>9
  <2>3. askedPage + 1 <= MaxEntries
    BY <2>1, <2>2, <1>2, <1>8, PageNumbers
  <2> QED BY <2>3, <1>8, PageNumbers DEF AskedPages
<1>11. Reachable(record, chosen, askedPage + 1)
  BY <1>8, <1>9 DEF Reachable
<1>12. ASSUME before.floor <= MaxEntries
       PROVE  Caught(record, chosen, before.seen, before.from, OffsetOf(askedPage + 1), before.floor)
  <2>1. answer.at >= way.floor /\ before.floor = answer.at
    BY <1>3, <1>5, <1>12, PageNumbers
  <2>2. Caught(record, chosen, way.seen, way.from, askedPage * PerPage, answer.at)
    BY <2>1, <1>2, <1>3, <1>4, PagesCatch
  <2> QED BY <2>1, <2>2, <1>5, <1>8
<1> QED BY <1>1, <1>2, <1>7, <1>8, <1>10, <1>11, <1>12, MountKeeps

LEMMA HistorySteps == HistoryInvariant /\ [HistoryNext]_historyVars => HistoryInvariant'
<1> SUFFICES ASSUME HistoryInvariant, [HistoryNext]_historyVars PROVE HistoryInvariant'
  OBVIOUS
<1>1. ASSUME NEW label \in Labels, NEW place \in {1, 2}, RecordEntry(label, place) PROVE HistoryInvariant'
  BY <1>1, RecordEntryKeeps
<1>2. ASSUME NEW key \in QueryKeys, ReadItems(key) \/ CountTotal(key) \/ AnswerArrives(key) \/ FetchFails(key)
      PROVE  HistoryInvariant'
  BY <1>2, ReadItemsKeeps, CountTotalKeeps, AnswerArrivesKeeps, FetchFailsKeeps
<1>3. CASE Refetched
  BY <1>3, RefetchedKeeps
<1>4. ASSUME NEW aged \in BOOLEAN, LoadOlder(aged) PROVE HistoryInvariant'
  BY <1>4, LoadOlderKeeps
<1>5. ASSUME NEW aged \in BOOLEAN, NEW filter \in Choosable, Choose(filter, aged) PROVE HistoryInvariant'
  BY <1>5, ChooseKeeps
<1>6. CASE UNCHANGED historyVars
  BY <1>6 DEF historyVars, HistoryInvariant, HistoryTypeOK, Whole, AnswersStand, FetchesStand, ShownStands, ShownPage
<1> QED BY <1>1, <1>2, <1>3, <1>4, <1>5, <1>6 DEF HistoryNext

\* What stands in both records at any time: the rows of every answer and of every fetch, the
\* counts, and what the operator has seen on the way.
THEOREM HistoryStands == HistorySpec => []HistoryInvariant
<1> QED BY HistoryStarts, HistorySteps, PTL DEF HistorySpec

\* At the end of the record nothing was skipped.
LEMMA EndsHoldAll == HistoryInvariant => NothingIsSkipped
<1> SUFFICES ASSUME HistoryInvariant, answers[ShownPage] # NotRead, ~answers[ShownPage].more,
                    answers[ShownPage].counted >= answers[ShownPage].at, answers[ShownPage].at >= way.floor,
                    NEW x \in MatchingIds(chosen, Len(record)), x \in 1..way.from
             PROVE  x \in way.seen
  BY DEF NothingIsSkipped
<1> DEFINE answer == answers[ShownPage]
<1>1. /\ ShownPage \in QueryKeys /\ ShownPage[1] = chosen /\ ShownPage[2] = askedPage
      /\ Whole(record) /\ Len(record) \in Nat /\ askedPage \in AskedPages
  BY HistoryFacts DEF ShownPage
<1>2. /\ answer \in PageAnswer /\ AnswerStands(record, chosen, askedPage, answer) /\ answer.at \in Nat /\ answer.counted \in Nat
      /\ way.from \in Nat /\ WalkStands(record, chosen, askedPage, answer, way)
      /\ way.floor \in 0..(MaxEntries + 1) /\ way.from \in Counts
  BY <1>1, HistoryTyped DEF HistoryInvariant, ShownStands, HistoryTypeOK
<1>3. ~answer.more /\ answer.counted >= answer.at /\ answer.at >= way.floor
  OBVIOUS
<1> HIDE DEF answer
<1>4. Caught(record, chosen, way.seen, way.from, askedPage * PerPage, answer.at)
  BY <1>1, <1>2, <1>3, PagesCatch
<1>5. PICK i \in 1..Len(record) : Through(record, chosen, i) /\ x = record[i].id
  <2>1. MatchingIds(chosen, Len(record)) = IdsTo(record, chosen, Len(record))
    <3>1. Len(record) \in 0..Len(record)
      BY <1>1
    <3> QED BY <3>1, RecordRead
  <2> QED BY <2>1 DEF IdsTo
<1>6. Rank(record, chosen, i, answer.at) <= Rank(record, chosen, Len(record), answer.counted)
      /\ Rank(record, chosen, i, answer.at) \in Nat /\ Rank(record, chosen, Len(record), answer.counted) \in Nat
  <2>1. i \in 0..Len(record) /\ Len(record) \in i..Len(record) /\ answer.at <= answer.counted
    BY <1>1, <1>2, <1>3
  <2> QED BY <2>1, <1>1, <1>2, RanksGrow
<1>7. ~(askedPage * PerPage < Rank(record, chosen, Len(record), answer.counted))
  BY <1>2, <1>3 DEF AnswerStands, HoldsMore, HasMore
<1>8. askedPage * PerPage \in Nat
  BY <1>1, PageNumbers
<1>9. Rank(record, chosen, i, answer.at) <= askedPage * PerPage
  BY <1>6, <1>7, <1>8
<1>10. record[i].id <= way.from
  BY <1>5, <1>2
<1> QED BY <1>4, <1>5, <1>9, <1>10 DEF Caught

LEMMA OlderPagesHold == HistoryInvariant => OlderPagesHoldRows
BY DEF HistoryInvariant, AnswersStand, AnswerStands, HoldsPage, OlderPagesHoldRows

\* One who comes to the end of a record, while it grows and its rows move down, has seen every
\* row it had, and "Load older" leads to rows.
THEOREM HistoryPromiseHolds == HistorySpec => []HistoryPromise
<1>1. HistoryInvariant => HistoryPromise
  BY EndsHoldAll, OlderPagesHold DEF HistoryPromise, HistoryInvariant
<1> QED BY <1>1, HistoryStands, PTL

-----------------------------------------------------------------------------
(*****************************************************************************)
(* The structure of a table. As long as nobody changes the catalog, what     *)
(* has been read of it is what it says; and what it says of the columns,     *)
(* the keys and those who refer to them is right, whatever is declared.      *)
(*****************************************************************************)
DescribedRightly(parts, table) ==
  /\ DescribesColumns(parts["columns"], table)
  /\ {i.columns : i \in parts["indexes"]} = {c.columns : c \in On("p", table) \union On("u", table)}
  /\ DescribesKeys(parts["foreignKeys"], table)
  /\ \A other \in exists : (\E c \in On("f", other) : c.references = table) <=> other \in parts["referencedBy"]

\* What has been read is what the catalog says, as long as nobody changes it.
Current(parts, table, since) ==
  since = ddl => table \in exists /\ \A part \in DOMAIN parts : parts[part] = Read(part, table)

Detail(step, relation, since, parts) == [step |-> step, relation |-> relation, since |-> since, parts |-> parts]
Showing(status, relation, since, parts) == [status |-> status, relation |-> relation, since |-> since, parts |-> parts]

CatalogInvariant ==
  /\ CatalogTypeOK /\ IsFiniteSet(constraints)
  /\ detail = Detail(detail.step, detail.relation, detail.since, detail.parts)
  /\ detail.since \in 0..ddl /\ DOMAIN detail.parts \subseteq Parts
  /\ detail.step = "asked" => detail.parts = <<>>
  /\ detail.step = "reading" => Current(detail.parts, detail.relation, detail.since)
  /\ shown = Showing(shown.status, shown.relation, shown.since, shown.parts)
  /\ shown.since \in 0..ddl
  /\ shown.status = "ok" => DOMAIN shown.parts = Parts /\ Current(shown.parts, shown.relation, shown.since)

----------------------------------------------------------------------------
LEMMA DeclaredRightly ==
  ASSUME CatalogInvariant, NEW c \in constraints
  PROVE  /\ c.table \in exists /\ exists \subseteq Relations
         /\ c.columns \in Seq(STRING) /\ c.columns # <<>> /\ Range(c.columns) \subseteq Range(ColumnsOf[c.table])
         /\ c.kind = "f" => /\ c.references \in Relations /\ c.referenced \in Seq(STRING) /\ Len(c.referenced) = Len(c.columns)
                            /\ Range(c.referenced) \subseteq Range(ColumnsOf[c.references])
<1>1. c \in Declarable /\ c \in Constraint /\ c.table \in exists /\ exists \subseteq Relations
  BY CatalogAssumption DEF CatalogInvariant, CatalogTypeOK
<1>2. c.columns \in Seq(STRING) /\ c.referenced \in Seq(STRING)
  BY <1>1 DEF Constraint
<1> QED BY <1>1, <1>2, CatalogAssumption

LEMMA OfIsOn == \A kind, table, column : Of(kind, table, column) \subseteq On(kind, table) /\ On(kind, table) \subseteq constraints
BY DEF Of, On

LEMMA AlwaysPartners == \A set : OrNone(set) # {} /\ \A p \in OrNone(set) : p = {} \/ \E c \in set : p = {c}
BY DEF OrNone

LEMMA AlonePartners ==
  ASSUME NEW set, IsFiniteSet(set), ~(Cardinality(set) > 1), NEW p \in OrNone(set), NEW q \in OrNone(set)
  PROVE  p = q
<1>1. Cardinality(set) \in Nat
  BY FS_CardinalityType
<1>2. CASE set = {}
  BY <1>2 DEF OrNone
<1>3. CASE set # {}
  <2>1. Cardinality(set) = 1
    BY <1>1, <1>3, FS_EmptySet
  <2>2. PICK c : set = {c}
    BY <2>1, FS_Singleton
  <2> QED BY <2>2 DEF OrNone
<1> QED BY <1>2, <1>3

\* A key of one column is linked rightly.
LEMMA SimpleLinks ==
  ASSUME CatalogInvariant, NEW table, NEW column, NEW fk \in Of("f", table, column), ~Composite(fk)
  PROVE  <<fk.references, Head(fk.referenced)>> = Referred(fk, column)
<1>1. fk \in constraints /\ fk.kind = "f" /\ column \in Range(fk.columns)
  BY DEF Of, On
<1>2. fk.columns \in Seq(STRING) /\ fk.columns # <<>> /\ fk.referenced \in Seq(STRING) /\ Len(fk.referenced) = Len(fk.columns)
  BY <1>1, DeclaredRightly
<1>3. Len(fk.columns) = 1 /\ DOMAIN fk.columns = 1..1
  <2>1. Len(fk.columns) \in Nat /\ DOMAIN fk.columns = 1..Len(fk.columns)
    BY <1>2, LenProperties
  <2>2. Len(fk.columns) # 0
    BY <1>2, EmptySeq
  <2>3. ~(Len(fk.columns) > 1)
    BY DEF Composite
  <2>4. Len(fk.columns) = 1
    <3>1. PICK n \in Nat : n = Len(fk.columns)
      BY <2>1
    <3>2. n # 0 /\ ~(n > 1)
      BY <3>1, <2>2, <2>3, Zenon
    <3>3. n = 1
      BY <3>2
    <3> QED BY <3>1, <3>3
  <2> QED BY <2>1, <2>4
<1>4. fk.columns[1] = column
  BY <1>1, <1>3 DEF Range
<1>5. (CHOOSE i \in DOMAIN fk.columns : fk.columns[i] = column) = 1
  BY <1>3, <1>4
<1>6. Head(fk.referenced) = fk.referenced[1]
  BY <1>2, <1>3, HeadTailProperties
<1> QED BY <1>5, <1>6 DEF Referred

IsRow(r, table, column, uq, fk) ==
  /\ column \in Range(ColumnsOf[table]) /\ uq \in OrNone(Of("u", table, column)) /\ fk \in OrNone(Of("f", table, column))
  /\ r = ColumnRow(table, column, uq, fk)

LEMMA RowFields ==
  ASSUME NEW r, NEW table, NEW column, NEW uq, NEW fk, IsRow(r, table, column, uq, fk)
  PROVE  /\ column \in Range(ColumnsOf[table]) /\ uq \in OrNone(Of("u", table, column)) /\ fk \in OrNone(Of("f", table, column))
         /\ r.name = column /\ r.isPrimaryKey = (Of("p", table, column) # {})
         /\ r.isUnique = (Of("u", table, column) # {} \/ Of("p", table, column) # {})
         /\ fk = {} => r.link = <<>>
         /\ \A k : fk = {k} => r.link = <<k.references, Head(k.referenced)>>
BY DEF ColumnRow, IsRow

LEMMA ColumnsDescribed ==
  ASSUME CatalogInvariant, NEW table
  PROVE  DescribesColumns(ListColumns(table), table)
<1> DEFINE answer == ListColumns(table)
<1>1. \A r : r \in answer <=> \E column, uq, fk : IsRow(r, table, column, uq, fk)
  BY DEF ListColumns, IsRow
<1> HIDE DEF answer
<1>2. {r.name : r \in answer} = Range(ColumnsOf[table])
  <2>1. ASSUME NEW r \in answer PROVE r.name \in Range(ColumnsOf[table])
    BY <1>1, RowFields
  <2>2. ASSUME NEW column \in Range(ColumnsOf[table]) PROVE \E r \in answer : r.name = column
    <3>1. PICK uq \in OrNone(Of("u", table, column)) : TRUE
      BY AlwaysPartners
    <3>2. PICK fk \in OrNone(Of("f", table, column)) : TRUE
      BY AlwaysPartners
    <3>3. IsRow(ColumnRow(table, column, uq, fk), table, column, uq, fk)
      BY DEF IsRow
    <3> QED BY <3>3, <1>1, RowFields
  <2> QED BY <2>1, <2>2
<1>3. ASSUME NEW r \in answer, NEW s \in answer, r.name = s.name, ~Repeats(table, r.name) PROVE r = s
  <2>1. PICK column, uq, fk : IsRow(r, table, column, uq, fk)
    BY <1>1
  <2>2. PICK other, uq2, fk2 : IsRow(s, table, other, uq2, fk2)
    BY <1>1
  <2>3. column = other /\ r.name = column
    BY <1>3, <2>1, <2>2, RowFields
  <2>4. \A kind : IsFiniteSet(Of(kind, table, column))
    BY OfIsOn, FS_Subset DEF CatalogInvariant
  <2>5. uq = uq2 /\ fk = fk2
    BY <1>3, <2>1, <2>2, <2>3, <2>4, AlonePartners DEF Repeats, IsRow
  <2> QED BY <2>1, <2>2, <2>3, <2>5 DEF IsRow
<1>4. ASSUME NEW r \in answer
      PROVE  /\ r.isPrimaryKey <=> Of("p", table, r.name) # {}
             /\ <<r.name>> \in {c.columns : c \in On("p", table) \union On("u", table)} => r.isUnique
             /\ r.isUnique => Of("p", table, r.name) \union Of("u", table, r.name) # {}
  <2>1. PICK column, uq, fk : IsRow(r, table, column, uq, fk)
    BY <1>1
  <2>2. /\ r.name = column /\ r.isPrimaryKey = (Of("p", table, column) # {})
        /\ r.isUnique = (Of("u", table, column) # {} \/ Of("p", table, column) # {})
    BY <2>1, RowFields
  <2>3. ASSUME NEW c \in On("p", table) \union On("u", table), c.columns = <<r.name>> PROVE r.isUnique
    <3>1. r.name \in Range(c.columns)
      <4>1. 1 \in DOMAIN <<r.name>> /\ <<r.name>>[1] = r.name
        OBVIOUS
      <4> QED BY <2>3, <4>1 DEF Range
    <3>2. c \in Of("p", table, r.name) \/ c \in Of("u", table, r.name)
      BY <3>1 DEF Of
    <3> QED BY <3>2, <2>2
  <2> QED BY <2>2, <2>3
<1>5. ASSUME NEW r \in answer, NEW fk \in Of("f", table, r.name), ~Composite(fk)
      PROVE  \E s \in answer : s.name = r.name /\ s.link = Referred(fk, r.name)
  <2>1. r.name \in Range(ColumnsOf[table])
    BY <1>2
  <2>2. {fk} \in OrNone(Of("f", table, r.name))
    BY DEF OrNone
  <2>3. PICK uq \in OrNone(Of("u", table, r.name)) : TRUE
    BY AlwaysPartners
  <2>4. IsRow(ColumnRow(table, r.name, uq, {fk}), table, r.name, uq, {fk})
    BY <2>1, <2>2, <2>3 DEF IsRow
  <2>5. ColumnRow(table, r.name, uq, {fk}).name = r.name /\ ColumnRow(table, r.name, uq, {fk}).link = Referred(fk, r.name)
    BY <1>5, <2>4, SimpleLinks, RowFields
  <2> QED BY <1>1, <2>4, <2>5
<1>6. ASSUME NEW r \in answer, r.link # <<>>
      PROVE  \E fk \in Of("f", table, r.name) : r.link = Referred(fk, r.name) \/ Composite(fk)
  <2>1. PICK column, uq, fk : IsRow(r, table, column, uq, fk)
    BY <1>1
  <2>2. r.name = column /\ fk # {}
    BY <1>6, <2>1, RowFields
  <2>3. PICK k \in Of("f", table, column) : fk = {k}
    BY <2>1, <2>2, AlwaysPartners DEF IsRow
  <2>4. r.link = <<k.references, Head(k.referenced)>>
    BY <2>1, <2>3, RowFields
  <2> QED BY <2>2, <2>3, <2>4, SimpleLinks
<1>7. \A r, s \in answer : r.name = s.name /\ r # s => Repeats(table, r.name)
  BY <1>3
<1> QED BY <1>2, <1>4, <1>5, <1>6, <1>7 DEF DescribesColumns, answer

----------------------------------------------------------------------------
\* The columns of a key have finitely many numbers, and each its own.
LEMMA NumbersDiffer ==
  ASSUME NEW table \in Relations
  PROVE  \A column \in Range(ColumnsOf[table]) :
           Number(table, column) \in Nat /\ ColumnsOf[table][Number(table, column)] = column
<1> SUFFICES ASSUME NEW column \in Range(ColumnsOf[table])
             PROVE  Number(table, column) \in Nat /\ ColumnsOf[table][Number(table, column)] = column
  OBVIOUS
<1>1. DOMAIN ColumnsOf[table] = 1..Len(ColumnsOf[table]) /\ Len(ColumnsOf[table]) \in Nat
  BY CatalogAssumption, LenProperties
<1>2. \E i \in DOMAIN ColumnsOf[table] : ColumnsOf[table][i] = column
  BY DEF Range
<1>3. Number(table, column) \in DOMAIN ColumnsOf[table] /\ ColumnsOf[table][Number(table, column)] = column
  BY <1>2 DEF Number
<1> QED BY <1>1, <1>3

LEMMA RangesFinite ==
  ASSUME NEW columns \in Seq(STRING)
  PROVE  IsFiniteSet(Range(columns)) /\ Cardinality(Range(columns)) \in Nat
<1>1. Len(columns) \in Nat /\ DOMAIN columns = 1..Len(columns)
  BY LenProperties
<1>2. IsFiniteSet(DOMAIN columns)
  BY <1>1, FS_Interval
<1> DEFINE f == [i \in DOMAIN columns |-> columns[i]]
<1>3. f \in Surjection(DOMAIN columns, Range(columns))
  BY DEF Range, Surjection
<1>4. IsFiniteSet(Range(columns))
  BY <1>2, <1>3, FS_Surjection
<1> QED BY <1>4, FS_CardinalityType

\* Put in order, they are the same columns.
LEMMA OrderedAreTheSame ==
  ASSUME NEW table \in Relations, NEW columns \in Seq(STRING), Range(columns) \subseteq Range(ColumnsOf[table])
  PROVE  Range(ByNumber(table, columns)) = Range(columns)
<1> DEFINE S == Range(columns)
           n == Cardinality(S)
           rank == [c \in S |-> Cardinality(NumberedTo(table, S, c))]
<1>1. IsFiniteSet(S) /\ n \in Nat
  BY RangesFinite
<1>2. \A c \in S : Number(table, c) \in Nat /\ ColumnsOf[table][Number(table, c)] = c
  BY NumbersDiffer
<1> HIDE DEF S, n
<1>3. ASSUME NEW c \in S
      PROVE  /\ c \in NumberedTo(table, S, c) /\ IsFiniteSet(NumberedTo(table, S, c))
             /\ rank[c] \in 1..n
  <2>1. c \in NumberedTo(table, S, c) /\ NumberedTo(table, S, c) \subseteq S
    BY <1>2 DEF NumberedTo
  <2>2. IsFiniteSet(NumberedTo(table, S, c)) /\ Cardinality(NumberedTo(table, S, c)) <= n
    BY <1>1, <2>1, FS_Subset DEF n
  <2>3. Cardinality(NumberedTo(table, S, c)) \in Nat /\ Cardinality(NumberedTo(table, S, c)) # 0
    BY <2>1, <2>2, FS_CardinalityType, FS_EmptySet
  <2>4. rank[c] = Cardinality(NumberedTo(table, S, c))
    OBVIOUS
  <2> HIDE DEF rank
  <2> QED BY <2>1, <2>2, <2>3, <2>4, <1>1
<1>4. ASSUME NEW c \in S, NEW d \in S, rank[c] = rank[d] PROVE c = d
  <2>1. Cardinality(NumberedTo(table, S, c)) = Cardinality(NumberedTo(table, S, d))
    BY <1>4
  <2>2. ASSUME NEW a \in S, NEW b \in S, Number(table, a) <= Number(table, b),
               Cardinality(NumberedTo(table, S, a)) = Cardinality(NumberedTo(table, S, b))
        PROVE  a = b
    <3>1. NumberedTo(table, S, a) \subseteq NumberedTo(table, S, b)
      BY <1>2, <2>2 DEF NumberedTo
    <3>2. NumberedTo(table, S, a) = NumberedTo(table, S, b)
      BY <3>1, <2>2, <1>3, FS_Subset
    <3>3. b \in NumberedTo(table, S, a)
      BY <3>2, <1>3
    <3>4. Number(table, a) = Number(table, b)
      BY <3>3, <1>2, <2>2 DEF NumberedTo
    <3> QED BY <3>4, <1>2
  <2> QED BY <2>1, <2>2, <1>2
<1>5. rank \in Injection(S, 1..n)
  <2>1. rank = [c \in S |-> rank[c]]
    OBVIOUS
  <2> HIDE DEF rank
  <2>2. rank \in [S -> 1..n]
    BY <2>1, <1>3
  <2> QED BY <2>2, <1>4 DEF Injection, IsInjective
<1>6. IsFiniteSet(1..n) /\ Cardinality(1..n) = n
  <2>1. PICK m \in Int : m = n /\ m >= 0
    BY <1>1
  <2>2. IsFiniteSet(1..m) /\ Cardinality(1..m) = IF 1 > m THEN 0 ELSE m - 1 + 1
    BY FS_Interval
  <2> QED BY <2>1, <2>2
<1>7. rank \in Surjection(S, 1..n)
  BY <1>5, <1>6, FS_Injection DEF n
<1>8. \A i \in 1..n : \E c \in S : Cardinality(NumberedTo(table, S, c)) = i
  BY <1>7 DEF Surjection
<1> DEFINE ordered == [i \in 1..n |-> CHOOSE c \in S : Cardinality(NumberedTo(table, S, c)) = i]
<1>9. ByNumber(table, columns) = ordered
  BY DEF ByNumber, S, n
<1>10. ASSUME NEW i \in 1..n PROVE ordered[i] \in S /\ Cardinality(NumberedTo(table, S, ordered[i])) = i
  BY <1>8
<1>11. \A c \in S : rank[c] = Cardinality(NumberedTo(table, S, c))
  OBVIOUS
<1>12. DOMAIN ordered = 1..n
  OBVIOUS
<1> HIDE DEF ordered, rank
<1>13. ASSUME NEW c \in S PROVE \E i \in 1..n : ordered[i] = c
  <2>1. rank[c] \in 1..n
    BY <1>3
  <2>2. ordered[rank[c]] \in S /\ rank[ordered[rank[c]]] = rank[c]
    BY <2>1, <1>10, <1>11
  <2> QED BY <2>1, <2>2, <1>4
<1> QED BY <1>9, <1>10, <1>12, <1>13 DEF Range, S

LEMMA KeysDescribed ==
  ASSUME CatalogInvariant, NEW table \in Relations
  PROVE  DescribesKeys(ListForeignKeys(table), table)
<1> DEFINE row(c) == [columns |-> ByNumber(table, c.columns), references |-> c.references,
                      referenced |-> ByNumber(c.references, c.referenced)]
           keys == On("f", table)
           answer == ListForeignKeys(table)
           f == [c \in keys |-> row(c)]
<1>1. answer = {row(c) : c \in keys}
  BY DEF ListForeignKeys
<1>2. IsFiniteSet(keys) /\ keys \subseteq constraints
  BY OfIsOn, FS_Subset DEF CatalogInvariant
<1>3. Cardinality(answer) <= Cardinality(keys)
  <2>1. f \in Surjection(keys, answer)
    BY <1>1 DEF Surjection
  <2> HIDE DEF f, answer
  <2> QED BY <2>1, <1>2, FS_Surjection
<1>4. ASSUME NEW fk \in keys
      PROVE  \E k \in answer : /\ k.references = fk.references /\ Range(k.columns) = Range(fk.columns)
                               /\ ~Composite(fk) => k.referenced = fk.referenced
  <2>1. fk \in constraints /\ fk.kind = "f" /\ fk.table = table
    BY <1>2 DEF On
  <2>2. /\ fk.columns \in Seq(STRING) /\ fk.columns # <<>> /\ Range(fk.columns) \subseteq Range(ColumnsOf[table])
        /\ fk.references \in Relations /\ fk.referenced \in Seq(STRING) /\ Len(fk.referenced) = Len(fk.columns)
        /\ Range(fk.referenced) \subseteq Range(ColumnsOf[fk.references])
    BY <2>1, DeclaredRightly
  <2>3. row(fk) \in answer
    BY <1>1
  <2>4. Range(ByNumber(table, fk.columns)) = Range(fk.columns)
    BY <2>2, OrderedAreTheSame
  <2>5. ASSUME ~Composite(fk) PROVE ByNumber(fk.references, fk.referenced) = fk.referenced
    <3>1. Len(fk.columns) # 0
      BY <2>2, EmptySeq
    <3>2. Len(fk.referenced) = 1
      <4>1. ~(Len(fk.columns) > 1)
        BY <2>5 DEF Composite
      <4>2. PICK n \in Nat : n = Len(fk.columns)
        BY <2>2, LenProperties
      <4>3. n # 0 /\ ~(n > 1)
        BY <4>1, <4>2, <3>1, Zenon
      <4>4. n = 1
        BY <4>3
      <4> QED BY <4>2, <4>4, <2>2
    <3>3. DOMAIN fk.referenced = 1..1 /\ fk.referenced \in [1..1 -> STRING]
      BY <3>2, <2>2, LenProperties
    <3>4. Range(fk.referenced) = {fk.referenced[1]}
      BY <3>3 DEF Range
    <3>5. Cardinality(Range(fk.referenced)) = 1
      BY <3>4, FS_Singleton
    <3> DEFINE ordered == ByNumber(fk.references, fk.referenced)
    <3>6. ordered = [i \in 1..1 |-> CHOOSE c \in Range(fk.referenced) :
                        Cardinality(NumberedTo(fk.references, Range(fk.referenced), c)) = i]
      BY <3>5 DEF ByNumber
    <3>7. Range(ordered) = Range(fk.referenced)
      BY <2>2, OrderedAreTheSame
    <3>8. ordered[1] \in Range(ordered)
      BY <3>6 DEF Range
    <3>9. ordered[1] = fk.referenced[1]
      BY <3>4, <3>7, <3>8
    <3>10. ordered = [i \in 1..1 |-> ordered[i]]
      BY <3>6
    <3> HIDE DEF ordered
    <3>11. fk.referenced = [i \in 1..1 |-> fk.referenced[i]]
      BY <3>3
    <3>12. \A i \in 1..1 : ordered[i] = fk.referenced[i]
      BY <3>9
    <3>13. ordered = fk.referenced
      BY <3>10, <3>11, <3>12
    <3> QED BY <3>13 DEF ordered
  <2> QED BY <2>3, <2>4, <2>5
<1> QED BY <1>3, <1>4 DEF DescribesKeys

LEMMA StructuresDescribed ==
  ASSUME CatalogInvariant, NEW table \in exists, NEW parts, DOMAIN parts = Parts,
         \A part \in DOMAIN parts : parts[part] = Read(part, table)
  PROVE  DescribedRightly(parts, table)
<1>1. table \in Relations
  BY DEF CatalogInvariant, CatalogTypeOK
<1>2. /\ parts["columns"] = ListColumns(table) /\ parts["indexes"] = ListIndexes(table)
      /\ parts["foreignKeys"] = ListForeignKeys(table) /\ parts["referencedBy"] = ListReferencedBy(table)
  BY DEF Parts, Read
<1>3. {i.columns : i \in ListIndexes(table)} = {c.columns : c \in On("p", table) \union On("u", table)}
  <2>1. ASSUME NEW c \in On("p", table) \union On("u", table)
        PROVE  \E i \in ListIndexes(table) : i.columns = c.columns
    <3>1. [columns |-> c.columns, isPrimary |-> c.kind = "p"] \in ListIndexes(table)
      BY DEF ListIndexes
    <3> QED BY <3>1
  <2>2. ASSUME NEW i \in ListIndexes(table)
        PROVE  \E c \in On("p", table) \union On("u", table) : i.columns = c.columns
    BY DEF ListIndexes
  <2> QED BY <2>1, <2>2
<1>4. \A other \in exists : (\E c \in On("f", other) : c.references = table) <=> other \in ListReferencedBy(table)
  BY DEF On, ListReferencedBy
<1> QED BY <1>1, <1>2, <1>3, <1>4, ColumnsDescribed, KeysDescribed DEF DescribedRightly

LEMMA QuietIsRight == CatalogInvariant => QuietStructuresAreRight
<1> SUFFICES ASSUME CatalogInvariant, shown.status = "ok", shown.since = ddl
             PROVE  DescribedRightly(shown.parts, shown.relation)
  BY DEF QuietStructuresAreRight, DescribedRightly
<1> QED BY StructuresDescribed DEF CatalogInvariant, Current

----------------------------------------------------------------------------
LEMMA CatalogStarts == CatalogInit => CatalogInvariant
<1> SUFFICES ASSUME CatalogInit PROVE CatalogInvariant
  OBVIOUS
<1>1. detail = Detail("idle", Nothing, 0, <<>>) /\ shown = Showing("none", Nothing, 0, <<>>)
  BY DEF CatalogInit, Quiet, Detail, Showing
<1>2. /\ detail.step = "idle" /\ detail.since = 0 /\ DOMAIN detail.parts = {}
      /\ shown.status = "none" /\ shown.since = 0
  <2>1. DOMAIN <<>> = {}
    OBVIOUS
  <2> QED BY <2>1, <1>1 DEF Detail, Showing
<1>3. detail = Detail(detail.step, detail.relation, detail.since, detail.parts)
  BY <1>1 DEF Detail
<1>4. shown = Showing(shown.status, shown.relation, shown.since, shown.parts)
  BY <1>1 DEF Showing
<1>5. IsFiniteSet(constraints)
  BY FS_EmptySet DEF CatalogInit
<1>6. CatalogTypeOK
  BY <1>2, CatalogAssumption DEF CatalogTypeOK, CatalogInit
<1> QED BY <1>2, <1>3, <1>4, <1>5, <1>6 DEF CatalogInvariant, CatalogInit

\* What a step that leaves the catalog alone must show.
DetailStands(d) ==
  /\ d = Detail(d.step, d.relation, d.since, d.parts)
  /\ d.step \in {"idle", "asked", "reading"} /\ d.since \in 0..ddl /\ DOMAIN d.parts \subseteq Parts
  /\ d.step = "asked" => d.parts = <<>>
  /\ d.step = "reading" => Current(d.parts, d.relation, d.since)
ShownStandsNow(s) ==
  /\ s = Showing(s.status, s.relation, s.since, s.parts)
  /\ s.status \in {"none", "ok", "notFound", "failed"} /\ s.since \in 0..ddl
  /\ s.status = "ok" => DOMAIN s.parts = Parts /\ Current(s.parts, s.relation, s.since)

LEMMA ByParts ==
  CatalogInvariant <=>
    /\ exists \subseteq Relations
    /\ constraints \subseteq Declarable /\ \A c \in constraints : c.table \in exists
    /\ ddl \in 0..MaxDdl /\ asks \in 0..MaxAsks /\ selected \in Relations \union {Nothing}
    /\ IsFiniteSet(constraints) /\ DetailStands(detail) /\ ShownStandsNow(shown)
BY DEF CatalogInvariant, CatalogTypeOK, DetailStands, ShownStandsNow

\* With the catalog unchanged, the structures read of it stay what they are.
LEMMA ReadingKeeps ==
  ASSUME CatalogInvariant, exists' = exists, constraints' = constraints, ddl' = ddl, asks' \in 0..MaxAsks,
         selected' \in Relations \union {Nothing}, DetailStands(detail'), ShownStandsNow(shown')
  PROVE  CatalogInvariant'
<1>1. \A part, table : Read(part, table)' = Read(part, table)
  BY DEF Read, ListColumns, ListIndexes, ListForeignKeys, ListReferencedBy, ColumnRow, Of, On
<1>2. DetailStands(detail)'
  BY <1>1 DEF DetailStands, Current
<1>3. ShownStandsNow(shown)'
  BY <1>1 DEF ShownStandsNow, Current
<1> QED BY <1>2, <1>3, ByParts DEF CatalogInvariant, CatalogTypeOK, DetailStands, ShownStandsNow

LEMMA ChangingKeeps ==
  ASSUME CatalogInvariant, NEW relations \in SUBSET Relations, NEW declared \in SUBSET Declarable,
         \A c \in declared : c.table \in relations, IsFiniteSet(declared), Change(relations, declared)
  PROVE  CatalogInvariant'
<1>1. /\ ddl < MaxDdl /\ ddl' = ddl + 1 /\ exists' = relations /\ constraints' = declared
      /\ asks' = asks /\ selected' = selected /\ detail' = detail /\ shown' = shown
  BY DEF Change
<1>2. ddl \in Nat /\ MaxDdl \in Nat /\ ddl' \in 0..MaxDdl
  BY <1>1, CatalogAssumption DEF CatalogInvariant, CatalogTypeOK
<1>3. /\ detail.since \in 0..ddl' /\ detail.since # ddl' /\ shown.since \in 0..ddl' /\ shown.since # ddl'
  BY <1>1, <1>2 DEF CatalogInvariant
<1>4. DetailStands(detail)'
  BY <1>1, <1>3, ByParts DEF DetailStands, Current
<1>5. ShownStandsNow(shown)'
  BY <1>1, <1>3, ByParts DEF ShownStandsNow, Current
<1>6. asks \in 0..MaxAsks /\ selected \in Relations \union {Nothing}
  BY ByParts
<1> QED BY <1>1, <1>2, <1>4, <1>5, <1>6 DEF CatalogInvariant, CatalogTypeOK, DetailStands, ShownStandsNow

LEMMA DdlKeeps ==
  ASSUME CatalogInvariant
  PROVE  /\ \A c \in Declarable : Declare(c) => CatalogInvariant'
         /\ \A table \in Relations : DropTable(table) \/ CreateTable(table) => CatalogInvariant'
<1>1. /\ exists \subseteq Relations /\ constraints \subseteq Declarable /\ \A c \in constraints : c.table \in exists
      /\ IsFiniteSet(constraints)
  BY ByParts
<1>2. ASSUME NEW c \in Declarable, Declare(c) PROVE CatalogInvariant'
  <2>1. c.table \in exists /\ Change(exists, constraints \union {c})
    BY <1>2 DEF Declare
  <2>2. IsFiniteSet(constraints \union {c})
    BY <1>1, FS_AddElement
  <2> QED BY <1>1, <2>1, <2>2, ChangingKeeps
<1>3. ASSUME NEW table \in Relations, DropTable(table) PROVE CatalogInvariant'
  <2> DEFINE left == {c \in constraints : table \notin {c.table, c.references}}
  <2>1. Change(exists \ {table}, left)
    BY <1>3 DEF DropTable
  <2>2. left \subseteq Declarable /\ IsFiniteSet(left) /\ \A c \in left : c.table \in exists \ {table}
    BY <1>1, FS_Subset
  <2> HIDE DEF left
  <2> QED BY <1>1, <2>1, <2>2, ChangingKeeps
<1>4. ASSUME NEW table \in Relations, CreateTable(table) PROVE CatalogInvariant'
  BY <1>1, <1>4, ChangingKeeps DEF CreateTable
<1> QED BY <1>2, <1>3, <1>4

LEMMA ReplyStands ==
  ASSUME CatalogInvariant, NEW status \in {"ok", "notFound", "failed"}, Reply(status),
         status = "ok" => detail.step = "reading" /\ DOMAIN detail.parts = Parts
  PROVE  DetailStands(detail') /\ ShownStandsNow(shown')
<1>1. /\ shown' = Showing(status, detail.relation, detail.since, IF status = "ok" THEN detail.parts ELSE <<>>)
      /\ detail' = Detail("idle", Nothing, 0, <<>>)
  BY DEF Reply, Showing, Quiet, Detail
<1>2. DetailStands(detail) /\ ddl \in Nat
  BY ByParts
<1>3. DOMAIN <<>> = {}
  OBVIOUS
<1>4. DetailStands(detail')
  BY <1>1, <1>2, <1>3 DEF DetailStands, Detail
<1>5. ShownStandsNow(shown')
  <2>1. /\ shown'.status = status /\ shown'.relation = detail.relation /\ shown'.since = detail.since
        /\ status = "ok" => shown'.parts = detail.parts
    BY <1>1 DEF Showing
  <2>2. shown' = Showing(shown'.status, shown'.relation, shown'.since, shown'.parts)
    BY <1>1 DEF Showing
  <2> QED BY <1>2, <2>1, <2>2 DEF ShownStandsNow, DetailStands
<1> QED BY <1>4, <1>5

LEMMA ReadsKeep ==
  ASSUME CatalogInvariant
  PROVE  /\ AskDetail \/ ReadSummary \/ AnswerDetail \/ FailDetail => CatalogInvariant'
         /\ \A part \in Parts : ReadPart(part) => CatalogInvariant'
         /\ \A relation \in Relations : SelectRelation(relation) => CatalogInvariant'
<1>1. /\ ddl \in Nat /\ asks \in 0..MaxAsks /\ selected \in Relations \union {Nothing}
      /\ DetailStands(detail) /\ ShownStandsNow(shown) /\ MaxAsks \in Nat
  BY ByParts, CatalogAssumption
<1>2. CASE AskDetail
  <2>1. /\ asks < MaxAsks /\ asks' = asks + 1 /\ detail' = Detail("asked", selected, ddl, <<>>)
        /\ exists' = exists /\ constraints' = constraints /\ ddl' = ddl /\ selected' = selected /\ shown' = shown
    BY <1>2 DEF AskDetail, Quiet, Detail
  <2>2. DOMAIN <<>> = {} /\ ddl \in 0..ddl /\ asks' \in 0..MaxAsks
    BY <1>1, <2>1
  <2>3. DetailStands(detail')
    BY <2>1, <2>2 DEF DetailStands, Detail
  <2> QED BY <1>1, <2>1, <2>2, <2>3, ReadingKeeps
<1>3. CASE ReadSummary
  <2>1. /\ detail.step = "asked" /\ asks' = asks /\ selected' = selected
        /\ exists' = exists /\ constraints' = constraints /\ ddl' = ddl
    BY <1>3 DEF ReadSummary
  <2>2. CASE detail.relation \in exists
    <3>1. detail' = [detail EXCEPT !.step = "reading"] /\ shown' = shown
      BY <1>3, <2>2, Zenon DEF ReadSummary
    <3>2. detail.parts = <<>> /\ detail.since \in 0..ddl /\ DOMAIN <<>> = {}
      BY <1>1, <2>1 DEF DetailStands
    <3>3. PICK relation, since, parts : detail = Detail("asked", relation, since, parts)
      BY <1>1, <2>1 DEF DetailStands
    <3>4. detail' = Detail("reading", relation, since, parts)
      BY <3>1, <3>3 DEF Detail
    <3>5. relation = detail.relation /\ since = detail.since /\ parts = <<>>
      BY <3>2, <3>3 DEF Detail
    <3>6. DetailStands(detail')
      BY <2>2, <3>2, <3>4, <3>5 DEF DetailStands, Detail, Current
    <3> QED BY <1>1, <2>1, <3>1, <3>6, ReadingKeeps
  <2>3. CASE detail.relation \notin exists
    <3>1. Reply("notFound")
      BY <1>3, <2>3 DEF ReadSummary
    <3> QED BY <1>1, <2>1, <3>1, ReplyStands, ReadingKeeps
  <2> QED BY <2>2, <2>3
<1>4. CASE AnswerDetail
  BY <1>1, <1>4, ReplyStands, ReadingKeeps DEF AnswerDetail
<1>5. CASE FailDetail
  BY <1>1, <1>5, ReplyStands, ReadingKeeps DEF FailDetail
<1>6. ASSUME NEW part \in Parts, ReadPart(part) PROVE CatalogInvariant'
  <2> DEFINE more == [p \in {part} \union DOMAIN detail.parts |->
                        IF p = part THEN Read(part, detail.relation) ELSE detail.parts[p]]
  <2>1. /\ detail.step = "reading" /\ detail' = [detail EXCEPT !.parts = more]
        /\ asks' = asks /\ selected' = selected /\ shown' = shown
        /\ exists' = exists /\ constraints' = constraints /\ ddl' = ddl
    BY <1>6, Zenon DEF ReadPart
  <2>2. PICK relation, since, parts : detail = Detail("reading", relation, since, parts)
    BY <1>1, <2>1 DEF DetailStands
  <2>3. relation = detail.relation /\ since = detail.since /\ parts = detail.parts
    BY <2>2 DEF Detail
  <2>4. DOMAIN more = {part} \union DOMAIN parts
    BY <2>3
  <2>5. \A p \in DOMAIN more : more[p] = IF p = part THEN Read(part, relation) ELSE parts[p]
    BY <2>3
  <2>6. detail' = Detail("reading", relation, since, more)
    <3> HIDE DEF more
    <3> QED BY <2>1, <2>2 DEF Detail
  <2> HIDE DEF more
  <2>7. since \in 0..ddl /\ DOMAIN parts \subseteq Parts /\ Current(parts, relation, since)
    BY <1>1, <2>1, <2>3 DEF DetailStands
  <2>8. Current(more, relation, since)
    BY <2>4, <2>5, <2>7 DEF Current
  <2>9. DetailStands(detail')
    BY <2>4, <2>6, <2>7, <2>8 DEF DetailStands, Detail
  <2> QED BY <1>1, <2>1, <2>9, ReadingKeeps
<1>7. ASSUME NEW relation \in Relations, SelectRelation(relation) PROVE CatalogInvariant'
  BY <1>1, <1>7, ReadingKeeps DEF SelectRelation
<1> QED BY <1>2, <1>3, <1>4, <1>5, <1>6, <1>7

LEMMA CatalogSteps == CatalogInvariant /\ [CatalogNext]_catalogVars => CatalogInvariant'
<1> SUFFICES ASSUME CatalogInvariant, [CatalogNext]_catalogVars PROVE CatalogInvariant'
  OBVIOUS
<1>1. CASE CatalogNext
  BY <1>1, DdlKeeps, ReadsKeep DEF CatalogNext
<1>2. CASE UNCHANGED catalogVars
  <2>1. /\ asks' = asks /\ selected' = selected /\ detail' = detail /\ shown' = shown
        /\ exists' = exists /\ constraints' = constraints /\ ddl' = ddl
    BY <1>2 DEF catalogVars
  <2>2. asks \in 0..MaxAsks /\ selected \in Relations \union {Nothing} /\ DetailStands(detail) /\ ShownStandsNow(shown)
    BY ByParts
  <2> QED BY <2>1, <2>2, ReadingKeeps
<1> QED BY <1>1, <1>2

\* A structure on the screen that nobody overtook is the table's, for every schema: its columns,
\* indexes and keys, and who refers to it.
THEOREM CatalogPromiseHolds == CatalogSpec => []CatalogPromise
<1>1. CatalogInvariant => CatalogPromise
  BY QuietIsRight DEF CatalogPromise, CatalogInvariant
<1> QED BY <1>1, CatalogStarts, CatalogSteps, PTL DEF CatalogSpec

-----------------------------------------------------------------------------
(*****************************************************************************)
(* The pages of the data browser. What a request or an answer holds is a     *)
(* page of the table as it was at a version; a row ordered by a value has,   *)
(* in whatever order the statement answers, one alike to it at the first     *)
(* place after those that precede it. So an operator who turns pages while   *)
(* nobody writes sees one alike of every row before the page.                *)
(*****************************************************************************)
LEMMA IntervalsAreFinite == \A n \in Nat : IsFiniteSet(1..n) /\ Cardinality(1..n) = n
<1> SUFFICES ASSUME NEW n \in Nat PROVE IsFiniteSet(1..n) /\ Cardinality(1..n) = n
  OBVIOUS
<1>1. n \in Int /\ n >= 0
  OBVIOUS
<1>2. IsFiniteSet(1..n) /\ Cardinality(1..n) = IF 1 > n THEN 0 ELSE n - 1 + 1
  BY <1>1, FS_Interval
<1> QED BY <1>1, <1>2

Stored == Seq([id : Nat, val : Vals])

LEMMA StoredRows ==
  ASSUME NEW stored \in Stored
  PROVE  /\ Len(stored) \in Nat /\ DOMAIN stored = 1..Len(stored)
         /\ \A i \in DOMAIN stored : stored[i].id \in Nat /\ stored[i].val \in Nat
<1>1. Len(stored) \in Nat /\ DOMAIN stored = 1..Len(stored) /\ \A i \in 1..Len(stored) : stored[i] \in [id : Nat, val : Vals]
  BY LenProperties, ElementOfSeq DEF Stored
<1> QED BY <1>1, BrowserAssumption

LEMMA MatchingIsFinite ==
  ASSUME NEW v, NEW stored \in Stored
  PROVE  /\ Matching(v, stored) \subseteq DOMAIN stored
         /\ IsFiniteSet(Matching(v, stored)) /\ Cardinality(Matching(v, stored)) \in Nat
<1>1. Matching(v, stored) \subseteq 1..Len(stored) /\ Len(stored) \in Nat
  BY StoredRows DEF Matching
<1>2. IsFiniteSet(1..Len(stored))
  BY <1>1, IntervalsAreFinite
<1>3. IsFiniteSet(Matching(v, stored))
  BY <1>1, <1>2, FS_Subset
<1> QED BY <1>3, FS_CardinalityType DEF Matching

\* Rows are ordered by numbers, one way or the other.
LEMMA PrecedesIsAnOrder ==
  ASSUME NEW v, NEW stored \in Stored,
         NEW i \in DOMAIN stored, NEW j \in DOMAIN stored, NEW k \in DOMAIN stored
  PROVE  /\ ~Precedes(v, stored, i, i)
         /\ Precedes(v, stored, i, j) /\ Precedes(v, stored, j, k) => Precedes(v, stored, i, k)
         /\ ~Precedes(v, stored, i, j) /\ ~Precedes(v, stored, j, k) => ~Precedes(v, stored, i, k)
         /\ ~Precedes(v, stored, i, j) /\ ~Precedes(v, stored, j, i) =>
              OrderValue(v, stored, i) = OrderValue(v, stored, j)
<1>1. ASSUME NEW m \in DOMAIN stored PROVE OrderValue(v, stored, m) \in Nat
  <2>1. m \in Nat /\ stored[m].id \in Nat /\ stored[m].val \in Nat
    BY StoredRows
  <2>2. OrderValue(v, stored, m) \in {m, stored[m].id, stored[m].val}
    BY DEF OrderValue, Cell
  <2> QED BY <2>1, <2>2
<1>2. PICK a \in Nat, b \in Nat, c \in Nat :
        a = OrderValue(v, stored, i) /\ b = OrderValue(v, stored, j) /\ c = OrderValue(v, stored, k)
  BY <1>1
<1>3. CASE v.orderBy # "" /\ v.descending
  <2>1. \A x, y : Precedes(v, stored, x, y) <=> OrderValue(v, stored, x) > OrderValue(v, stored, y)
    BY <1>3, Zenon DEF Precedes
  <2> QED BY <1>2, <2>1
<1>4. CASE ~(v.orderBy # "" /\ v.descending)
  <2>1. \A x, y : Precedes(v, stored, x, y) <=> OrderValue(v, stored, x) < OrderValue(v, stored, y)
    BY <1>4, Zenon DEF Precedes
  <2> QED BY <1>2, <2>1
<1> QED BY <1>3, <1>4

\* Before the rows alike to one stand those that precede it.
Ahead(v, stored, i) == {j \in Matching(v, stored) : Precedes(v, stored, j, i)}
FirstPlace(v, stored, i) == Cardinality(Ahead(v, stored, i)) + 1

LEMMA Prefix ==
  ASSUME NEW S, IsFiniteSet(S), NEW n \in Nat, n = Cardinality(S), NEW s \in [1..n -> S], IsInjective(s)
  PROVE  /\ \A j \in S : \E k \in 1..n : s[k] = j
         /\ \A m \in 0..n : /\ IsFiniteSet({s[k] : k \in 1..m}) /\ Cardinality({s[k] : k \in 1..m}) = m
<1>1. s \in Injection(1..n, S)
  BY DEF Injection, IsInjective
<1>2. ASSUME NEW m \in 0..n PROVE IsFiniteSet(1..m) /\ Cardinality(1..m) = m
  BY IntervalsAreFinite
<1>3. s \in Surjection(1..n, S)
  BY <1>1, <1>2, FS_Injection
<1>4. ASSUME NEW m \in 0..n
      PROVE  IsFiniteSet({s[k] : k \in 1..m}) /\ Cardinality({s[k] : k \in 1..m}) = m
  <2> DEFINE T == {s[k] : k \in 1..m}
             f == [k \in 1..m |-> s[k]]
  <2>1. f \in Surjection(1..m, T)
    BY DEF Surjection
  <2>2. \A k \in 1..m : k \in 1..n
    BY <1>4
  <2>3. f \in Injection(1..m, T)
    <3>1. f \in [1..m -> T]
      OBVIOUS
    <3>2. \A a, b \in 1..m : f[a] = f[b] => a = b
      BY <1>1, <2>2 DEF Injection, IsInjective
    <3> HIDE DEF f, T
    <3> QED BY <3>1, <3>2 DEF Injection, IsInjective
  <2> HIDE DEF f, T
  <2>4. IsFiniteSet(T) /\ (Cardinality(T) = Cardinality(1..m))
    BY <2>1, <2>3, <1>2, FS_Surjection
  <2> QED BY <2>4, <1>2 DEF T
<1> QED BY <1>3, <1>4 DEF Surjection

\* In whatever order the statement answers, the first of those places has a row alike to it.
LEMMA AlikeAtFirstPlace ==
  ASSUME NEW v, NEW stored \in Stored, NEW i \in Matching(v, stored), NEW order \in Orders(v, stored)
  PROVE  /\ FirstPlace(v, stored, i) \in 1..Cardinality(Matching(v, stored))
         /\ order[FirstPlace(v, stored, i)] \in Matching(v, stored)
         /\ OrderValue(v, stored, order[FirstPlace(v, stored, i)]) = OrderValue(v, stored, i)
<1> DEFINE S == Matching(v, stored)
           n == Cardinality(S)
           A == Ahead(v, stored, i)
           m == Cardinality(A)
           p == m + 1
           first(k) == {order[h] : h \in 1..k}
<1>1. IsFiniteSet(S) /\ n \in Nat /\ S \subseteq DOMAIN stored
  BY MatchingIsFinite
<1>2. /\ order \in [1..n -> S] /\ IsInjective(order)
      /\ \A a, b \in 1..n : a < b => ~Precedes(v, stored, order[b], order[a])
  BY DEF Orders
<1>3. /\ \A j \in S : \E k \in 1..n : order[k] = j
      /\ \A k \in 0..n : IsFiniteSet(first(k)) /\ Cardinality(first(k)) = k
  <2>1. PICK size \in Nat : size = n
    BY <1>1
  <2>2. order \in [1..size -> S] /\ size = Cardinality(S) /\ IsInjective(order) /\ IsFiniteSet(S)
    BY <1>1, <1>2, <2>1
  <2> HIDE DEF S, n
  <2>3. /\ \A j \in S : \E k \in 1..size : order[k] = j
        /\ \A k \in 0..size : IsFiniteSet({order[h] : h \in 1..k}) /\ Cardinality({order[h] : h \in 1..k}) = k
    BY <2>2, Prefix
  <2> QED BY <2>1, <2>3
<1>4. A \subseteq S /\ i \in S /\ i \notin A
  BY <1>1, PrecedesIsAnOrder DEF Ahead
<1>5. IsFiniteSet(A) /\ m \in Nat /\ IsFiniteSet(A \union {i}) /\ Cardinality(A \union {i}) = m + 1
  <2>1. IsFiniteSet(A)
    BY <1>1, <1>4, FS_Subset
  <2>2. IsFiniteSet(A \union {i}) /\ Cardinality(A \union {i}) = IF i \in A THEN Cardinality(A) ELSE Cardinality(A) + 1
    BY <2>1, FS_AddElement
  <2> QED BY <2>1, <2>2, <1>4, FS_CardinalityType
<1>6. p \in 1..n
  <2>1. (A \union {i}) \in SUBSET S
    BY <1>4
  <2>2. Cardinality(A \union {i}) <= Cardinality(S)
    BY <2>1, <1>1, FS_Subset
  <2> QED BY <2>2, <1>5, <1>1
<1>7. order[p] \in S
  BY <1>2, <1>6
<1>8. ~Precedes(v, stored, order[p], i)
  <2> SUFFICES ASSUME Precedes(v, stored, order[p], i) PROVE FALSE
    OBVIOUS
  <2>1. ASSUME NEW h \in 1..p PROVE order[h] \in A
    <3>1. h \in 1..n /\ order[h] \in S
      <4>1. p \in 1..n /\ n \in Nat /\ order \in [1..n -> S] /\ h \in 1..p
        BY <1>1, <1>2, <1>6
      <4> HIDE DEF p, n, S
      <4>2. h \in 1..n
        BY <4>1
      <4> QED BY <4>1, <4>2
    <3>2. h = p \/ ~Precedes(v, stored, order[p], order[h])
      BY <1>2, <1>6, <3>1
    <3>3. order[p] \in DOMAIN stored /\ order[h] \in DOMAIN stored /\ i \in DOMAIN stored
      BY <1>1, <1>4, <1>7, <3>1
    <3>4. Precedes(v, stored, order[h], i)
      <4>1. ~Precedes(v, stored, order[p], order[h]) /\ ~Precedes(v, stored, order[h], i) => ~Precedes(v, stored, order[p], i)
        BY <3>3, PrecedesIsAnOrder
      <4> QED BY <4>1, <3>2
    <3> QED BY <3>1, <3>4 DEF Ahead
  <2>2. first(p) \subseteq A /\ p \in 0..n
    BY <2>1, <1>6
  <2>3. Cardinality(first(p)) <= Cardinality(A) /\ Cardinality(first(p)) = p
    <3> HIDE DEF first, A, p, m
    <3> QED BY <2>2, <1>3, <1>5, FS_Subset
  <2> QED BY <2>3, <1>5
<1>9. ~Precedes(v, stored, i, order[p])
  <2> SUFFICES ASSUME Precedes(v, stored, i, order[p]) PROVE FALSE
    OBVIOUS
  <2>1. ASSUME NEW j \in A \union {i} PROVE j \in first(m)
    <3>1. j \in S
      BY <1>4
    <3>2. PICK k \in 1..n : order[k] = j
      BY <1>3, <3>1
    <3>3. order[p] \in DOMAIN stored /\ j \in DOMAIN stored /\ i \in DOMAIN stored
      BY <1>1, <1>4, <1>7, <3>1
    <3>4. Precedes(v, stored, j, order[p])
      <4>1. j = i \/ Precedes(v, stored, j, i)
        BY DEF Ahead
      <4>2. Precedes(v, stored, j, i) /\ Precedes(v, stored, i, order[p]) => Precedes(v, stored, j, order[p])
        BY <3>3, PrecedesIsAnOrder
      <4> QED BY <4>1, <4>2
    <3>5. k # p
      BY <3>2, <3>3, <3>4, PrecedesIsAnOrder
    <3>6. ~(p < k)
      BY <1>2, <1>6, <3>2, <3>4
    <3>7. k \in 1..m
      BY <3>5, <3>6, <1>5, <1>6
    <3> QED BY <3>2, <3>7
  <2>2. (A \union {i}) \in SUBSET first(m)
    BY <2>1
  <2>4. m \in 0..n
    BY <1>1, <1>5, <1>6
  <2>3. Cardinality(A \union {i}) <= Cardinality(first(m)) /\ Cardinality(first(m)) = m
    <3> HIDE DEF first, A, m
    <3> QED BY <2>2, <2>4, <1>3, FS_Subset
  <2> QED BY <2>3, <1>5
<1>10. order[p] \in DOMAIN stored /\ i \in DOMAIN stored
  BY <1>1, <1>4, <1>7
<1>11. OrderValue(v, stored, order[p]) = OrderValue(v, stored, i)
  BY <1>8, <1>9, <1>10, PrecedesIsAnOrder
<1> QED BY <1>6, <1>7, <1>11 DEF FirstPlace

\* Smaller of two, larger of two.
LEMMA LesserOfTwo == \A a, b \in Int : Min({a, b}) = IF a <= b THEN a ELSE b
BY DEF Min

LEMMA GreaterOfTwo == \A a, b \in Int : Max({a, b}) = IF a >= b THEN a ELSE b
BY DEF Max

LEMMA PagesOfViews ==
  ASSUME NEW v \in View
  PROVE  /\ v.page \in Nat /\ v.page >= 1 /\ v.size \in Nat /\ v.size >= 1
         /\ PageRows(v) \in Nat /\ PageRows(v) >= 1
         /\ Offset(v) \in Nat /\ Offset(v) = (v.page - 1) * PageRows(v) /\ Offset(v) + PageRows(v) = v.page * PageRows(v)
         /\ v.size <= MaxPageRows => PageRows(v) = v.size
<1>1. /\ v.page \in Nat /\ v.page >= 1 /\ v.size \in Nat /\ v.size >= 1 /\ MaxPageRows \in Nat /\ MaxPageRows >= 1
  <2>1. v.page \in Nat \ {0} /\ v.size \in Sizes
    BY DEF View
  <2>2. \A size \in Sizes : size \in Nat \ {0}
    BY BrowserAssumption
  <2>3. MaxPageRows \in Nat \ {0}
    BY BrowserAssumption
  <2>4. \A n \in Nat \ {0} : n \in Nat /\ n >= 1
    OBVIOUS
  <2> QED BY <2>1, <2>2, <2>3, <2>4, Zenon
<1>2. PageRows(v) = IF v.size <= MaxPageRows THEN v.size ELSE MaxPageRows
  BY <1>1, LesserOfTwo DEF PageRows
<1>3. PICK p \in Nat, r \in Nat : p = v.page /\ r = PageRows(v) /\ r >= 1 /\ p >= 1
  BY <1>1, <1>2
<1>4. (p - 1) * r \in Nat /\ (p - 1) * r + r = p * r
  BY <1>3
<1> QED BY <1>1, <1>2, <1>3, <1>4 DEF Offset

\* A page of an order: its rows, and how many.
LEMMA IdsOfPages ==
  ASSUME NEW v \in View, NEW stored \in Stored, NEW order \in Orders(v, stored)
  PROVE  /\ IdsOfPage(v, stored, order) \in Seq(Nat)
         /\ Len(IdsOfPage(v, stored, order)) =
              Min({PageRows(v), Max({0, Cardinality(Matching(v, stored)) - Offset(v)})})
         /\ \A k \in 1..Cardinality(Matching(v, stored)) :
              Offset(v) < k /\ k <= Offset(v) + PageRows(v) => stored[order[k]].id \in Range(IdsOfPage(v, stored, order))
<1> DEFINE S == Matching(v, stored)
           n == Cardinality(S)
           o == Offset(v)
           r == PageRows(v)
           l == Min({Len(order), o + r})
           page == SubSeq(order, o + 1, l)
           ids == [k \in 1..Len(page) |-> stored[page[k]].id]
<1>1. n \in Nat /\ S \subseteq DOMAIN stored
  BY MatchingIsFinite
<1>2. order \in [1..n -> S] /\ order \in Seq(S) /\ Len(order) = n
  <2>1. order \in [1..n -> S]
    BY DEF Orders
  <2> HIDE DEF n, S
  <2> QED BY <1>1, <2>1
<1>3. o \in Nat /\ r \in Nat /\ r >= 1
  BY PagesOfViews
<1>4. l = IF n <= o + r THEN n ELSE o + r
  <2> HIDE DEF n, o, r
  <2> QED BY <1>1, <1>2, <1>3, LesserOfTwo
<1>5. l \in Int /\ o + 1 \in Int /\ l <= n /\ l <= o + r
  <2> HIDE DEF n, o, r, l
  <2> QED BY <1>1, <1>3, <1>4
<1>6. \A k \in o + 1 .. l : order[k] \in S
  <2> HIDE DEF n, o, r, l, S
  <2>1. \A k \in o + 1 .. l : k \in 1..n
    BY <1>1, <1>3, <1>5
  <2> QED BY <1>2, <2>1
<1>7. /\ page \in Seq(S) /\ Len(page) = IF o + 1 <= l THEN l - (o + 1) + 1 ELSE 0
      /\ \A k \in 1 .. l - (o + 1) + 1 : page[k] = order[o + 1 + k - 1]
  <2> HIDE DEF n, o, r, l, S
  <2> QED BY <1>5, <1>6, SubSeqProperties
<1>8. IdsOfPage(v, stored, order) = ids
  BY DEF IdsOfPage
<1>9. Len(page) \in Nat /\ (\A k \in 1..Len(page) : page[k] \in DOMAIN stored)
  <2> HIDE DEF page, S
  <2> QED BY <1>1, <1>7, LenProperties, ElementOfSeq
<1>10. \A k \in 1..Len(page) : stored[page[k]].id \in Nat
  <2> HIDE DEF page
  <2> QED BY <1>9, StoredRows
<1>11. ids \in Seq(Nat) /\ Len(ids) = Len(page) /\ DOMAIN ids = 1..Len(page)
  <2> HIDE DEF page
  <2> QED BY <1>9, <1>10
<1>12. Len(page) = Min({r, Max({0, n - o})})
  <2> HIDE DEF n, o, r, l, page
  <2>1. Max({0, n - o}) = IF 0 >= n - o THEN 0 ELSE n - o
    BY <1>1, <1>3, GreaterOfTwo
  <2>2. PICK x \in Int : x = Max({0, n - o})
    BY <2>1, <1>1, <1>3
  <2>3. Min({r, x}) = IF r <= x THEN r ELSE x
    BY <1>3, LesserOfTwo
  <2> QED BY <1>1, <1>3, <1>4, <1>7, <2>1, <2>2, <2>3
<1>13. ASSUME NEW k \in 1..n, o < k, k <= o + r PROVE stored[order[k]].id \in Range(ids)
  <2> HIDE DEF n, o, r, l, page, ids, S
  <2>1. k - o \in 1 .. l - (o + 1) + 1 /\ o + 1 + (k - o) - 1 = k /\ k - o \in 1..Len(page)
    BY <1>1, <1>3, <1>4, <1>7, <1>13
  <2>2. page[k - o] = order[k]
    BY <1>7, <2>1
  <2>3. ids[k - o] = stored[page[k - o]].id /\ k - o \in DOMAIN ids
    BY <2>1, <1>11 DEF ids
  <2> QED BY <2>2, <2>3 DEF Range
<1> QED BY <1>8, <1>11, <1>12, <1>13

\* Views that differ in the page or the draft are answered in the same orders.
Alike(u, v) ==
  u.table = v.table /\ u.filters = v.filters /\ u.orderBy = v.orderBy /\ u.descending = v.descending

LEMMA PrecedesAlike ==
  ASSUME NEW u, NEW v, Alike(u, v), NEW stored, NEW i, NEW j
  PROVE  /\ OrderColumn(u) = OrderColumn(v) /\ OrderValue(u, stored, i) = OrderValue(v, stored, i)
         /\ Precedes(u, stored, i, j) <=> Precedes(v, stored, i, j)
<1>1. OrderColumn(u) = OrderColumn(v)
  BY DEF Alike, OrderColumn
<1>2. OrderValue(u, stored, i) = OrderValue(v, stored, i) /\ OrderValue(u, stored, j) = OrderValue(v, stored, j)
  BY <1>1 DEF OrderValue
<1>3. u.orderBy = v.orderBy /\ u.descending = v.descending
  BY DEF Alike
<1>4. (u.orderBy # "" /\ u.descending) <=> (v.orderBy # "" /\ v.descending)
  BY <1>3, Zenon
<1>5. PICK a, b : a = OrderValue(v, stored, i) /\ b = OrderValue(v, stored, j)
  OBVIOUS
<1>6. Precedes(u, stored, i, j) <=> IF v.orderBy # "" /\ v.descending THEN a > b ELSE a < b
  <2>1. Precedes(u, stored, i, j) <=> IF u.orderBy # "" /\ u.descending THEN a > b ELSE a < b
    BY <1>2, <1>5, Zenon DEF Precedes
  <2> QED BY <1>4, <2>1, Zenon
<1>7. Precedes(v, stored, i, j) <=> IF v.orderBy # "" /\ v.descending THEN a > b ELSE a < b
  BY <1>5, Zenon DEF Precedes
<1> QED BY <1>1, <1>2, <1>6, <1>7, Zenon

LEMMA AlikeAreOrderedAlike ==
  ASSUME NEW u, NEW v, Alike(u, v), NEW stored
  PROVE  Matching(u, stored) = Matching(v, stored) /\ Orders(u, stored) = Orders(v, stored)
<1>1. \A row : Matches(u, row) = Matches(v, row)
  BY DEF Alike, Matches
<1>2. Matching(u, stored) = Matching(v, stored)
  BY <1>1 DEF Matching
<1>3. \A i, j : Precedes(u, stored, i, j) <=> Precedes(v, stored, i, j)
  BY PrecedesAlike
<1> QED BY <1>2, <1>3 DEF Orders

LEMMA PlacesAlike ==
  ASSUME NEW u, NEW v, Alike(u, v), NEW stored, NEW i
  PROVE  FirstPlace(u, stored, i) = FirstPlace(v, stored, i) /\ \A j : OrderValue(u, stored, j) = OrderValue(v, stored, j)
<1>1. \A j : Precedes(u, stored, j, i) <=> Precedes(v, stored, j, i)
  BY PrecedesAlike
<1>2. \A j : OrderValue(u, stored, j) = OrderValue(v, stored, j)
  BY PrecedesAlike
<1>3. Ahead(u, stored, i) = Ahead(v, stored, i)
  BY <1>1, AlikeAreOrderedAlike DEF Ahead
<1> QED BY <1>2, <1>3 DEF FirstPlace

LEMMA KeysAreAlike ==
  ASSUME NEW v \in View
  PROVE  /\ Key(v) \in View /\ Alike(Key(v), v) /\ Key(v).page = v.page /\ Key(v).size = v.size /\ Key(v).table = v.table
         /\ PageRows(Key(v)) = PageRows(v) /\ Offset(Key(v)) = Offset(v)
<1>1. /\ Key(v) \in View /\ Alike(Key(v), v) /\ Key(v).page = v.page /\ Key(v).size = v.size /\ Key(v).table = v.table
  BY DEF Key, View, Alike
<1> QED BY <1>1 DEF PageRows, Offset

----------------------------------------------------------------------------
\* What was read stands, of a table and its version, as long as nobody has written since.
PageStands(f, stored, ver) ==
  f.step = "selected" =>
    /\ f.at \in 0..ver
    /\ f.at = ver => \E order \in Orders(f.key, stored) : f.ids = IdsOfPage(f.key, stored, order)

AnswerTells(key, a, stored, ver) ==
  /\ a.at # {} /\ a.at \subseteq 0..ver
  /\ a.at = {ver} =>
       /\ \E order \in Orders(key, stored) : a.ids = IdsOfPage(key, stored, order)
       /\ ~a.estimate => a.total = Cardinality(Matching(key, stored))

\* A walk has seen, of the rows before its page, one alike to each of those that match.
WalkCovers(v, w, stored, ver) ==
  /\ w.at \subseteq 0..ver
  /\ w.whole /\ v.page > 1 => w.at # {}
  /\ w.whole /\ w.at \subseteq {ver} =>
       \A i \in Matching(v, stored) :
         FirstPlace(v, stored, i) <= Offset(v) =>
           \E j \in Matching(v, stored) :
             OrderValue(v, stored, j) = OrderValue(v, stored, i) /\ stored[j].id \in w.seen

Walk == [seen : SUBSET Nat, at : SUBSET Nat, whole : BOOLEAN]

CountFits(key, a) ==
  Cardinality(a.at) = 1 /\ ~a.estimate =>
    Len(a.ids) = Min({PageRows(key), Max({0, a.total - Offset(key)})})

BrowserInvariant ==
  /\ BrowserTypeOK
  /\ \A f \in fetches : PageStands(f, rows[f.key.table], version[f.key.table])
  /\ \A entry \in cache : \A a \in entry.answer :
       /\ AnswerTells(entry.key, a, rows[entry.key.table], version[entry.key.table])
       /\ CountFits(entry.key, a)
  /\ view.table # NoTable => WalkCovers(view, walk, rows[view.table], version[view.table])

LEMMA FirstPlaces ==
  ASSUME NEW v, NEW stored \in Stored, NEW i
  PROVE  FirstPlace(v, stored, i) \in Nat /\ FirstPlace(v, stored, i) >= 1
<1>1. Ahead(v, stored, i) \subseteq Matching(v, stored)
  BY DEF Ahead
<1>2. IsFiniteSet(Ahead(v, stored, i))
  BY <1>1, MatchingIsFinite, FS_Subset
<1>3. Cardinality(Ahead(v, stored, i)) \in Nat
  BY <1>2, FS_CardinalityType
<1> QED BY <1>3 DEF FirstPlace

\* A write makes what was read before something of an earlier version.
LEMMA FetchesAge ==
  ASSUME NEW f, NEW stored, NEW later, NEW ver \in Nat, PageStands(f, stored, ver)
  PROVE  PageStands(f, later, ver + 1)
BY DEF PageStands

LEMMA AnswersAge ==
  ASSUME NEW key, NEW a, NEW stored, NEW later, NEW ver \in Nat, AnswerTells(key, a, stored, ver)
  PROVE  AnswerTells(key, a, later, ver + 1)
<1>1. a.at # {} /\ a.at \subseteq 0..ver
  BY DEF AnswerTells
<1>2. a.at \subseteq 0..ver + 1 /\ ver + 1 \notin a.at
  BY <1>1
<1> QED BY <1>1, <1>2 DEF AnswerTells

LEMMA WalksAge ==
  ASSUME NEW v \in View, NEW w, NEW stored, NEW later \in Stored, NEW ver \in Nat, WalkCovers(v, w, stored, ver)
  PROVE  WalkCovers(v, w, later, ver + 1)
<1>1. w.at \subseteq 0..ver /\ (w.whole /\ v.page > 1 => w.at # {})
  BY DEF WalkCovers
<1>2. w.at \subseteq 0..ver + 1 /\ ver + 1 \notin w.at
  BY <1>1
<1>3. ASSUME w.whole, w.at \subseteq {ver + 1}, NEW i \in Matching(v, later)
      PROVE  ~(FirstPlace(v, later, i) <= Offset(v))
  <2>1. w.at = {}
    BY <1>2, <1>3
  <2>2. v.page = 1 /\ PageRows(v) \in Nat /\ Offset(v) = (v.page - 1) * PageRows(v)
    BY <2>1, <1>1, <1>3, PagesOfViews
  <2>3. Offset(v) = 0
    BY <2>2
  <2> QED BY <2>3, FirstPlaces
<1> QED BY <1>1, <1>2, <1>3 DEF WalkCovers

\* Another arrangement starts at the first page, or has not the whole to answer for.
LEMMA WalksStart ==
  ASSUME NEW v \in View, NEW stored \in Stored, NEW ver \in Nat
  PROVE  WalkCovers(v, [seen |-> {}, at |-> {}, whole |-> v.page = 1], stored, ver)
<1>1. ASSUME v.page = 1, NEW i \in Matching(v, stored) PROVE ~(FirstPlace(v, stored, i) <= Offset(v))
  <2>1. PageRows(v) \in Nat /\ Offset(v) = (v.page - 1) * PageRows(v)
    BY PagesOfViews
  <2>2. Offset(v) = 0
    BY <1>1, <2>1
  <2> QED BY <2>2, FirstPlaces
<1>2. PICK w : w = [seen |-> {}, at |-> {}, whole |-> v.page = 1]
  OBVIOUS
<1>3. w.at = {} /\ (w.whole <=> v.page = 1)
  BY <1>2
<1>4. ~(w.whole /\ v.page > 1)
  BY <1>3
<1>5. WalkCovers(v, w, stored, ver)
  BY <1>1, <1>3, <1>4 DEF WalkCovers
<1> QED BY <1>2, <1>5

\* Turning on adds the page's rows; turning back asks for no more than before.
LEMMA WalksGoOn ==
  ASSUME NEW v \in View, NEW u \in View, NEW stored \in Stored, NEW ver \in Nat, NEW w \in Walk, NEW x \in Walk,
         WalkCovers(v, w, stored, ver), Alike(u, v), PageRows(u) = PageRows(v), u.page = v.page + 1,
         NEW a \in Answer, NEW key \in View, Alike(key, v), PageRows(key) = PageRows(v), Offset(key) = Offset(v),
         AnswerTells(key, a, stored, ver),
         x.seen \subseteq Nat, w.seen \union Range(a.ids) \subseteq x.seen,
         w.at \union a.at \subseteq x.at, x.at \subseteq 0..ver, x.whole <=> w.whole
  PROVE  WalkCovers(u, x, stored, ver)
<1>1. a.at # {} /\ x.at # {}
  BY DEF AnswerTells
<1>2. ASSUME x.whole, x.at \subseteq {ver}, NEW i \in Matching(u, stored), FirstPlace(u, stored, i) <= Offset(u)
      PROVE  \E j \in Matching(u, stored) : OrderValue(u, stored, j) = OrderValue(u, stored, i) /\ stored[j].id \in x.seen
  <2>1. /\ Matching(u, stored) = Matching(v, stored) /\ Matching(key, stored) = Matching(v, stored)
        /\ Orders(key, stored) = Orders(v, stored)
    BY AlikeAreOrderedAlike
  <2>2. FirstPlace(u, stored, i) = FirstPlace(v, stored, i) /\ \A j : OrderValue(u, stored, j) = OrderValue(v, stored, j)
    BY PlacesAlike
  <2>3. i \in Matching(v, stored)
    BY <2>1, <1>2
  <2>4. CASE FirstPlace(v, stored, i) <= Offset(v)
    <3>1. PICK j \in Matching(v, stored) : OrderValue(v, stored, j) = OrderValue(v, stored, i) /\ stored[j].id \in w.seen
      BY <1>2, <2>3, <2>4 DEF WalkCovers
    <3> QED BY <2>1, <2>2, <3>1
  <2>5. CASE ~(FirstPlace(v, stored, i) <= Offset(v))
    <3>1. a.at = {ver}
      BY <1>1, <1>2
    <3>2. PICK order \in Orders(key, stored) : a.ids = IdsOfPage(key, stored, order)
      BY <3>1 DEF AnswerTells
    <3>3. /\ FirstPlace(v, stored, i) \in 1..Cardinality(Matching(v, stored))
          /\ order[FirstPlace(v, stored, i)] \in Matching(v, stored)
          /\ OrderValue(v, stored, order[FirstPlace(v, stored, i)]) = OrderValue(v, stored, i)
      BY <2>1, <2>3, <3>2, AlikeAtFirstPlace
    <3>4. FirstPlace(v, stored, i) <= Offset(key) + PageRows(key) /\ Offset(key) < FirstPlace(v, stored, i)
      <4>1. /\ Offset(u) = (u.page - 1) * PageRows(u) /\ Offset(v) + PageRows(v) = v.page * PageRows(v)
            /\ v.page \in Nat /\ Offset(v) \in Nat
        BY PagesOfViews
      <4>2. u.page - 1 = v.page
        BY <4>1
      <4>3. Offset(u) = Offset(v) + PageRows(v)
        BY <4>1, <4>2
      <4> QED BY <4>1, <4>3, <1>2, <2>2, <2>5, FirstPlaces
    <3>5. stored[order[FirstPlace(v, stored, i)]].id \in Range(a.ids)
      BY <2>1, <3>2, <3>3, <3>4, IdsOfPages
    <3> QED BY <2>1, <2>2, <3>3, <3>5
  <2> QED BY <2>4, <2>5
<1> QED BY <1>1, <1>2 DEF WalkCovers

LEMMA WalksGoBack ==
  ASSUME NEW v \in View, NEW u \in View, NEW stored \in Stored, NEW ver \in Nat, NEW w \in Walk, NEW x \in Walk,
         WalkCovers(v, w, stored, ver), Alike(u, v), PageRows(u) = PageRows(v), u.page = v.page - 1,
         w.seen \subseteq x.seen, w.at \subseteq x.at, x.at \subseteq 0..ver, x.whole <=> w.whole
  PROVE  WalkCovers(u, x, stored, ver)
<1>1. /\ u.page \in Nat /\ v.page \in Nat /\ Offset(u) + PageRows(u) = u.page * PageRows(u)
      /\ Offset(v) = (v.page - 1) * PageRows(v) /\ PageRows(v) \in Nat /\ Offset(u) \in Nat
  BY PagesOfViews
<1>2. Offset(v) = Offset(u) + PageRows(v)
  BY <1>1
<1>3. x.whole /\ u.page > 1 => x.at # {}
  <2>1. u.page > 1 => v.page > 1
    BY <1>1
  <2>2. w.whole /\ v.page > 1 => w.at # {}
    BY DEF WalkCovers
  <2> QED BY <2>1, <2>2
<1>4. ASSUME x.whole, x.at \subseteq {ver}, NEW i \in Matching(u, stored), FirstPlace(u, stored, i) <= Offset(u)
      PROVE  \E j \in Matching(u, stored) : OrderValue(u, stored, j) = OrderValue(u, stored, i) /\ stored[j].id \in x.seen
  <2>1. Matching(u, stored) = Matching(v, stored)
    BY AlikeAreOrderedAlike
  <2>2. FirstPlace(u, stored, i) = FirstPlace(v, stored, i) /\ \A j : OrderValue(u, stored, j) = OrderValue(v, stored, j)
    BY PlacesAlike
  <2>3. FirstPlace(v, stored, i) \in Nat
    BY FirstPlaces
  <2>4. FirstPlace(v, stored, i) <= Offset(v)
    BY <1>1, <1>2, <1>4, <2>2, <2>3
  <2>5. PICK j \in Matching(v, stored) : OrderValue(v, stored, j) = OrderValue(v, stored, i) /\ stored[j].id \in w.seen
    BY <1>4, <2>1, <2>4 DEF WalkCovers
  <2> QED BY <2>1, <2>2, <2>5
<1> QED BY <1>3, <1>4 DEF WalkCovers

----------------------------------------------------------------------------
\* The last page reaches the last row.
LEMMA LastPages ==
  ASSUME NEW n \in Nat, NEW s \in Nat, s >= 1, NEW p \in Nat, p >= Max({1, (n + s - 1) \div s})
  PROVE  n <= p * s
<1> DEFINE m == n + s - 1
           q == m \div s
<1>1. m \in Nat
  OBVIOUS
<1>2. q \in Nat /\ m < (q + 1) * s
  <2> HIDE DEF m
  <2> QED BY <1>1
<1> HIDE DEF q
<1>3. Max({1, q}) = IF 1 >= q THEN 1 ELSE q
  BY <1>2, GreaterOfTwo
<1>4. p >= q
  BY <1>2, <1>3 DEF q
<1>5. q * s <= p * s
  BY <1>2, <1>4
<1>6. n <= q * s
  BY <1>2
<1> QED BY <1>5, <1>6, <1>2

\* The whole of a walk that nobody's write came into: one alike of every row.
LEMMA WalksSeeAll ==
  ASSUME NEW v \in View, NEW stored \in Stored, NEW ver \in Nat, NEW w \in Walk, WalkCovers(v, w, stored, ver),
         NEW a \in Answer, AnswerTells(Key(v), a, stored, ver),
         v.page >= Max({1, (a.total + v.size - 1) \div v.size}), w.whole, ~a.estimate,
         w.at \union a.at = {ver}, v.size <= MaxPageRows, NEW i \in Matching(v, stored)
  PROVE  \E j \in Matching(v, stored) :
           OrderValue(v, stored, j) = OrderValue(v, stored, i) /\ stored[j].id \in w.seen \union Range(a.ids)
<1>1. /\ Alike(Key(v), v) /\ Key(v) \in View /\ PageRows(Key(v)) = PageRows(v) /\ Offset(Key(v)) = Offset(v)
  BY KeysAreAlike
<1>2. a.at = {ver} /\ w.at \subseteq {ver}
  BY DEF AnswerTells
<1>3. PICK order \in Orders(Key(v), stored) : a.ids = IdsOfPage(Key(v), stored, order)
  BY <1>2 DEF AnswerTells
<1>4. a.total = Cardinality(Matching(v, stored))
  BY <1>1, <1>2, AlikeAreOrderedAlike DEF AnswerTells
<1>5. order \in Orders(v, stored) /\ Matching(Key(v), stored) = Matching(v, stored)
  BY <1>1, <1>3, AlikeAreOrderedAlike
<1>6. /\ FirstPlace(v, stored, i) \in 1..Cardinality(Matching(v, stored))
      /\ order[FirstPlace(v, stored, i)] \in Matching(v, stored)
      /\ OrderValue(v, stored, order[FirstPlace(v, stored, i)]) = OrderValue(v, stored, i)
  BY <1>5, AlikeAtFirstPlace
<1>7. CASE FirstPlace(v, stored, i) <= Offset(v)
  BY <1>2, <1>7 DEF WalkCovers
<1>8. CASE ~(FirstPlace(v, stored, i) <= Offset(v))
  <2>1. /\ v.page \in Nat /\ v.size \in Nat /\ v.size >= 1 /\ PageRows(v) = v.size
        /\ Offset(v) + PageRows(v) = v.page * PageRows(v) /\ Offset(v) \in Nat
    BY PagesOfViews
  <2>2. Cardinality(Matching(v, stored)) \in Nat
    BY MatchingIsFinite
  <2>3. Cardinality(Matching(v, stored)) <= Offset(v) + PageRows(v)
    BY <1>4, <2>1, <2>2, LastPages
  <2>4. Offset(Key(v)) < FirstPlace(v, stored, i) /\ FirstPlace(v, stored, i) <= Offset(Key(v)) + PageRows(Key(v))
    BY <1>1, <1>6, <1>8, <2>1, <2>2, <2>3
  <2>5. stored[order[FirstPlace(v, stored, i)]].id \in Range(a.ids)
    BY <1>1, <1>3, <1>5, <1>6, <2>4, IdsOfPages
  <2> QED BY <1>6, <2>5
<1> QED BY <1>7, <1>8

LEMMA TablesTyped ==
  ASSUME BrowserTypeOK, NEW t \in Tables
  PROVE  rows[t] \in Stored /\ version[t] \in Nat /\ analysed[t] \in Nat
<1>1. {analysed, version} \subseteq [Tables -> Nat] /\ rows \in [Tables -> Stored]
  BY DEF BrowserTypeOK, Stored
<1> QED BY <1>1

LEMMA ViewsTyped ==
  ASSUME NEW v \in View, v.table # NoTable
  PROVE  v.table \in Tables
BY DEF View

\* What is shown is what some entry of the cache says of the view.
LEMMA ShownTells ==
  ASSUME BrowserInvariant, NEW a \in Shown
  PROVE  /\ view \in View /\ view.table \in Tables /\ view.table # NoTable /\ a \in Answer
         /\ AnswerTells(Key(view), a, rows[view.table], version[view.table])
<1>1. PICK entry \in cache : entry.key = Key(view) /\ a \in entry.answer
  BY DEF Shown, ShownOf, Entries
<1>2. view \in View /\ entry \in CacheEntry /\ entry.key.table # NoTable
  BY DEF BrowserInvariant, BrowserTypeOK
<1>3. view.table # NoTable /\ Key(view).table = view.table
  BY <1>1, <1>2, KeysAreAlike
<1>4. AnswerTells(Key(view), a, rows[Key(view).table], version[Key(view).table])
  BY <1>1 DEF BrowserInvariant
<1> QED BY <1>1, <1>2, <1>3, <1>4, ViewsTyped DEF CacheEntry

LEMMA NoneIsLeftOut ==
  ASSUME BrowserInvariant
  PROVE  NoRowIsLeftOut
<1> SUFFICES ASSUME NEW a \in Shown, view.page >= TotalPages(a), walk.whole, ~a.estimate,
                    walk.at \union a.at = {version[view.table]}, view.size <= MaxPageRows,
                    NEW i \in Matching(view, rows[view.table]),
                    rows[view.table][i].id \notin walk.seen \union Range(a.ids)
             PROVE  /\ OrderColumn(view) \notin {"", "id"}
                    /\ \E j \in Matching(view, rows[view.table]) :
                         /\ rows[view.table][j].id \in walk.seen \union Range(a.ids)
                         /\ rows[view.table][j].val = rows[view.table][i].val
  BY DEF NoRowIsLeftOut
<1>1. /\ view \in View /\ view.table \in Tables /\ view.table # NoTable /\ a \in Answer
      /\ AnswerTells(Key(view), a, rows[view.table], version[view.table])
  BY ShownTells
<1>2. rows[view.table] \in Stored /\ version[view.table] \in Nat
  BY <1>1, TablesTyped DEF BrowserInvariant
<1>3. walk \in Walk /\ WalkCovers(view, walk, rows[view.table], version[view.table])
  BY <1>1 DEF BrowserInvariant, BrowserTypeOK, Walk
<1>4. view.page >= Max({1, (a.total + view.size - 1) \div view.size})
  BY DEF TotalPages
<1>5. PICK j \in Matching(view, rows[view.table]) :
        /\ OrderValue(view, rows[view.table], j) = OrderValue(view, rows[view.table], i)
        /\ rows[view.table][j].id \in walk.seen \union Range(a.ids)
  BY <1>1, <1>2, <1>3, <1>4, WalksSeeAll
<1>6. OrderColumn(view) # ""
  BY <1>5 DEF OrderValue
<1>7. OrderColumn(view) # "id"
  BY <1>5, <1>6 DEF OrderValue, Cell
<1>8. rows[view.table][j].val = rows[view.table][i].val
  BY <1>5, <1>6, <1>7 DEF OrderValue, Cell
<1> QED BY <1>5, <1>6, <1>7, <1>8

LEMMA CountsFit == BrowserInvariant => CountsAreOfTheRowsShown
BY DEF BrowserInvariant, CountFits, CountsAreOfTheRowsShown

----------------------------------------------------------------------------
\* A request that is settled, with an answer or without.
LEMMA SettledStand ==
  ASSUME BrowserInvariant, NEW f \in fetches, NEW answer \in SUBSET Answer, NEW error \in Refusal \union {""},
         \A a \in answer : /\ AnswerTells(f.key, a, rows[f.key.table], version[f.key.table])
                           /\ CountFits(f.key, a),
         Settle(f, answer, error), UNCHANGED <<rows, analysed, version, view, moves, walk>>
  PROVE  BrowserInvariant'
<1> DEFINE old == UNION {entry.answer : entry \in Entries(f.key)}
           new == IF error = "" THEN answer ELSE old
           settled == [key |-> f.key, answer |-> new, error |-> error]
<1>1. cache' = (cache \ Entries(f.key)) \union {settled} /\ fetches' = fetches \ {f}
  BY DEF Settle
<1>2. BrowserTypeOK /\ f \in Fetching /\ f.key.table # NoTable /\ f.key \in View
  BY DEF BrowserInvariant, BrowserTypeOK, Fetching
<1>3. ASSUME NEW a \in new
      PROVE  /\ a \in Answer /\ AnswerTells(f.key, a, rows[f.key.table], version[f.key.table])
             /\ CountFits(f.key, a)
  <2>1. CASE error = ""
    BY <1>3, <2>1
  <2>2. CASE error # ""
    <3>1. PICK entry \in cache : entry.key = f.key /\ a \in entry.answer
      BY <1>3, <2>2 DEF Entries
    <3>2. entry \in CacheEntry
      BY <1>2 DEF BrowserTypeOK
    <3> QED BY <3>1, <3>2 DEF BrowserInvariant, CacheEntry
  <2> QED BY <2>1, <2>2
<1> HIDE DEF new
<1>4. settled \in CacheEntry /\ settled.key = f.key /\ settled.answer = new
  BY <1>2, <1>3 DEF CacheEntry
<1> HIDE DEF settled
<1>5. \A entry \in cache' : entry \in CacheEntry /\ entry.key.table # NoTable
  BY <1>1, <1>2, <1>4 DEF BrowserTypeOK
<1>6. \A e, g \in cache' : e.key = g.key => e = g
  BY <1>1, <1>2, <1>4 DEF BrowserTypeOK, Entries
<1>7. BrowserTypeOK'
  <2>1. /\ \A g \in fetches' : g \in Fetching /\ g.key.table # NoTable
        /\ \A g, h \in fetches' : g.key = h.key => g = h
    BY <1>1, <1>2 DEF BrowserTypeOK
  <2> QED BY <1>2, <1>5, <1>6, <2>1 DEF BrowserTypeOK
<1>8. ASSUME NEW entry \in cache', NEW a \in entry.answer
      PROVE  /\ AnswerTells(entry.key, a, rows[entry.key.table], version[entry.key.table])
             /\ CountFits(entry.key, a)
  <2>1. CASE entry \in cache
    BY <1>8, <2>1 DEF BrowserInvariant
  <2>2. CASE entry = settled
    BY <1>3, <1>4, <1>8, <2>2
  <2> QED BY <1>1, <1>8, <2>1, <2>2
<1>9. \A g \in fetches' : PageStands(g, rows[g.key.table], version[g.key.table])
  BY <1>1 DEF BrowserInvariant
<1>10. view.table # NoTable => WalkCovers(view, walk, rows[view.table], version[view.table])
  BY DEF BrowserInvariant
<1> QED BY <1>7, <1>8, <1>9, <1>10 DEF BrowserInvariant

LEMMA FetchStep ==
  ASSUME BrowserInvariant, Fetch
  PROVE  BrowserInvariant'
<1>1. PICK new : new = [key |-> Key(view), step |-> "sent"]
  OBVIOUS
<1>2. fetches' = fetches \union {new} /\ (\A f \in fetches : f.key # Key(view)) /\ view.table # NoTable
  BY <1>1 DEF Fetch
<1>3. BrowserTypeOK /\ view \in View /\ moves \in 0..MaxMoves /\ MaxMoves \in Nat
  BY BrowserAssumption DEF BrowserInvariant, BrowserTypeOK
<1>4. Key(view) \in View /\ Key(view).table # NoTable
  BY <1>2, <1>3, KeysAreAlike
<1>5. new \in Fetching /\ new.key = Key(view) /\ new.step = "sent"
  BY <1>1, <1>4 DEF Fetching
<1>6. UNCHANGED <<rows, analysed, version, view, cache, walk>> /\ moves' \in 0..MaxMoves
  BY <1>3 DEF Fetch
<1>7. /\ \A g \in fetches' : g \in Fetching /\ g.key.table # NoTable
      /\ \A g, h \in fetches' : g.key = h.key => g = h
  BY <1>2, <1>3, <1>4, <1>5 DEF BrowserTypeOK
<1>8. BrowserTypeOK'
  BY <1>3, <1>6, <1>7 DEF BrowserTypeOK
<1>9. \A g \in fetches' : PageStands(g, rows[g.key.table], version[g.key.table])
  BY <1>2, <1>5 DEF BrowserInvariant, PageStands
<1> QED BY <1>6, <1>8, <1>9 DEF BrowserInvariant

LEMMA SelectStep ==
  ASSUME BrowserInvariant, NEW f \in fetches, Select(f)
  PROVE  BrowserInvariant'
<1> DEFINE t == f.key.table
<1>1. PICK order \in Orders(f.key, rows[t]) :
        fetches' = (fetches \ {f}) \union {[key |-> f.key, step |-> "selected", at |-> version[t],
                                            ids |-> IdsOfPage(f.key, rows[t], order)]}
  BY DEF Select
<1>2. PICK new : new = [key |-> f.key, step |-> "selected", at |-> version[t], ids |-> IdsOfPage(f.key, rows[t], order)]
  OBVIOUS
<1>3. fetches' = (fetches \ {f}) \union {new}
  BY <1>1, <1>2
<1>4. BrowserTypeOK /\ f \in Fetching /\ f.key.table # NoTable /\ f.key \in View
  BY DEF BrowserInvariant, BrowserTypeOK, Fetching
<1>5. t \in Tables /\ rows[t] \in Stored /\ version[t] \in Nat
  BY <1>4, ViewsTyped, TablesTyped
<1>6. IdsOfPage(f.key, rows[t], order) \in Seq(Nat)
  BY <1>4, <1>5, IdsOfPages
<1>7. /\ new \in Fetching /\ new.key = f.key /\ new.step = "selected" /\ new.at = version[t]
      /\ new.ids = IdsOfPage(f.key, rows[t], order)
  BY <1>2, <1>4, <1>5, <1>6 DEF Fetching
<1>8. PageStands(new, rows[t], version[t])
  BY <1>5, <1>7 DEF PageStands
<1>9. UNCHANGED <<rows, analysed, version, view, cache, moves, walk>>
  BY DEF Select
<1>10. /\ \A g \in fetches' : g \in Fetching /\ g.key.table # NoTable
       /\ \A g, h \in fetches' : g.key = h.key => g = h
  BY <1>3, <1>4, <1>7 DEF BrowserTypeOK
<1>11. BrowserTypeOK'
  BY <1>4, <1>9, <1>10 DEF BrowserTypeOK
<1>12. \A g \in fetches' : PageStands(g, rows[g.key.table], version[g.key.table])
  BY <1>3, <1>7, <1>8 DEF BrowserInvariant
<1> QED BY <1>9, <1>11, <1>12 DEF BrowserInvariant

LEMMA ResolveStep ==
  ASSUME BrowserInvariant, NEW f \in fetches, ResolveTotal(f)
  PROVE  BrowserInvariant'
<1> DEFINE t == f.key.table
           a == [ids |-> f.ids, estimate |-> EstimateServes(f.key), at |-> {f.at, version[t]},
                 total |-> IF EstimateServes(f.key) THEN analysed[t] ELSE Count(f.key)]
<1>1. f.step = "selected" /\ Settle(f, {a}, "") /\ UNCHANGED <<rows, analysed, version, view, moves, walk>>
  BY DEF ResolveTotal
<1>2. BrowserTypeOK /\ f \in Fetching /\ f.key.table # NoTable /\ f.key \in View
  BY DEF BrowserInvariant, BrowserTypeOK, Fetching
<1>3. t \in Tables /\ rows[t] \in Stored /\ version[t] \in Nat /\ analysed[t] \in Nat
  BY <1>2, ViewsTyped, TablesTyped
<1>4. f.at \in Nat /\ f.ids \in Seq(Nat)
  BY <1>1, <1>2 DEF Fetching
<1>5. Count(f.key) = Cardinality(Matching(f.key, rows[t])) /\ Count(f.key) \in Nat
  BY <1>3, MatchingIsFinite DEF Count
<1>6. EstimateServes(f.key) \in BOOLEAN
  BY DEF EstimateServes
<1>7. a \in Answer
  BY <1>3, <1>4, <1>5, <1>6 DEF Answer
<1>8. /\ a.ids = f.ids /\ a.at = {f.at, version[t]} /\ (a.estimate <=> EstimateServes(f.key))
      /\ ~a.estimate => a.total = Cardinality(Matching(f.key, rows[t]))
  BY <1>5
<1> HIDE DEF a
<1>9. /\ f.at \in 0..version[t]
      /\ f.at = version[t] => \E order \in Orders(f.key, rows[t]) : f.ids = IdsOfPage(f.key, rows[t], order)
  <2>1. PageStands(f, rows[t], version[t])
    BY DEF BrowserInvariant
  <2> QED BY <1>1, <2>1, Zenon DEF PageStands
<1>10. AnswerTells(f.key, a, rows[t], version[t])
  <2>1. a.at # {} /\ a.at \subseteq 0..version[t]
    BY <1>3, <1>8, <1>9
  <2>2. a.at = {version[t]} => f.at = version[t]
    BY <1>8
  <2> QED BY <1>8, <1>9, <2>1, <2>2, Zenon DEF AnswerTells
<1>11. CountFits(f.key, a)
  <2> SUFFICES ASSUME Cardinality(a.at) = 1, ~a.estimate
               PROVE  Len(a.ids) = Min({PageRows(f.key), Max({0, a.total - Offset(f.key)})})
    BY DEF CountFits
  <2>1. f.at = version[t]
    <3>1. IsFiniteSet(a.at)
      <4>1. IsFiniteSet({f.at})
        BY FS_Singleton
      <4>2. IsFiniteSet({f.at} \union {version[t]})
        BY <4>1, FS_AddElement
      <4> QED BY <4>2, <1>8
    <3>2. PICK x : a.at = {x}
      BY <3>1, FS_Singleton
    <3> QED BY <3>2, <1>8
  <2>2. PICK order \in Orders(f.key, rows[t]) : f.ids = IdsOfPage(f.key, rows[t], order)
    BY <1>9, <2>1, Zenon
  <2>3. a.total = Cardinality(Matching(f.key, rows[t])) /\ a.ids = IdsOfPage(f.key, rows[t], order)
    BY <1>8, <2>2, Zenon
  <2>4. Len(IdsOfPage(f.key, rows[t], order)) =
          Min({PageRows(f.key), Max({0, Cardinality(Matching(f.key, rows[t])) - Offset(f.key)})})
    BY <1>2, <1>3, <2>2, IdsOfPages
  <2> QED BY <2>3, <2>4
<1>12. {a} \in SUBSET Answer /\ "" \in Refusal \union {""}
  BY <1>7
<1> QED BY <1>1, <1>10, <1>11, <1>12, SettledStand

LEMMA EmptyHandedStep ==
  ASSUME BrowserInvariant, NEW f \in fetches, RefuseFetch(f) \/ FailFetch(f)
  PROVE  BrowserInvariant'
<1>1. PICK error \in Refusal : Settle(f, {}, error) /\ UNCHANGED <<rows, analysed, version, view, moves, walk>>
  BY DEF RefuseFetch, FailFetch, Refusal
<1>2. {} \in SUBSET Answer /\ error \in Refusal \union {""}
  OBVIOUS
<1> QED BY <1>1, <1>2, SettledStand

\* A step of the operator to another view: what it keeps, and what is left to show of it.
LEMMA ViewedStand ==
  ASSUME BrowserInvariant, view' \in View, walk' \in Walk, moves' \in 0..MaxMoves,
         UNCHANGED <<rows, analysed, version, cache, fetches>>,
         view'.table \in Tables => WalkCovers(view', walk', rows[view'.table], version[view'.table])
  PROVE  BrowserInvariant'
<1>1. BrowserTypeOK'
  BY DEF BrowserInvariant, BrowserTypeOK, Walk
<1>2. view'.table # NoTable => WalkCovers(view', walk', rows[view'.table], version[view'.table])
  BY ViewsTyped
<1> QED BY <1>1, <1>2 DEF BrowserInvariant

LEMMA ArrangeStep ==
  ASSUME BrowserInvariant, NEW v \in View, Arrange(v)
  PROVE  BrowserInvariant'
<1>1. /\ moves < MaxMoves /\ moves' = moves + 1 /\ view' = v /\ UNCHANGED <<rows, analysed, version, cache, fetches>>
      /\ walk' = [seen |-> {}, at |-> {}, whole |-> v.page = 1]
  BY DEF Arrange
<1>2. moves' \in 0..MaxMoves
  BY <1>1, BrowserAssumption DEF BrowserInvariant, BrowserTypeOK
<1>3. walk' \in Walk
  BY <1>1 DEF Walk
<1>4. ASSUME v.table \in Tables PROVE WalkCovers(v, walk', rows[v.table], version[v.table])
  <2>1. rows[v.table] \in Stored /\ version[v.table] \in Nat
    BY <1>4, TablesTyped DEF BrowserInvariant
  <2> QED BY <1>1, <2>1, WalksStart
<1> QED BY <1>1, <1>2, <1>3, <1>4, ViewedStand

----------------------------------------------------------------------------
LEMMA PlainViews ==
  ASSUME NEW v \in View
  PROVE  /\ v.table \in Tables \union {NoTable} /\ v.size \in Sizes /\ v.orderBy \in ColumnNames \union {""}
         /\ v.descending \in BOOLEAN /\ v.filters \in Seq(Filter) /\ v.page \in Nat \ {0}
         /\ v.draft \in Filter \union {NoDraft}
         /\ \A n \in Nat \ {0} : [v EXCEPT !.page = n] \in View /\ [v EXCEPT !.page = n].page = n
         /\ \A n \in Nat \ {0} : Alike([v EXCEPT !.page = n], v) /\ [v EXCEPT !.page = n].size = v.size
                                 /\ [v EXCEPT !.page = n].table = v.table
BY DEF View, Alike

\* The draft that goes with the operator to another table.
LEMMA DraftsCarried ==
  ASSUME NEW draft \in Filter \union {NoDraft}, NEW carried \in BOOLEAN, draft = NoDraft => carried = FALSE
  PROVE  [draft EXCEPT !.carried = carried] \in Filter \union {NoDraft}
<1>1. CASE draft = NoDraft
  <2>1. PICK column : column = ""
    OBVIOUS
  <2>2. draft = [column |-> column, carried |-> FALSE]
    BY <1>1, <2>1 DEF NoDraft
  <2>3. draft \in [column : {column}, carried : BOOLEAN] /\ draft.column = column
    BY <2>2
  <2>4. [draft EXCEPT !.carried = carried] = [column |-> draft.column, carried |-> carried]
    BY <2>3
  <2>5. carried = FALSE
    BY <1>1
  <2> QED BY <2>1, <2>3, <2>4, <2>5, Zenon DEF NoDraft
<1>2. CASE draft \in Filter
  BY <1>2 DEF Filter
<1> QED BY <1>1, <1>2

LEMMA PickStep ==
  ASSUME BrowserInvariant, NEW t \in Tables, PickTable(t)
  PROVE  BrowserInvariant'
<1>1. view \in View
  BY DEF BrowserInvariant, BrowserTypeOK
<1>2. PICK carried \in BOOLEAN : carried = (view.draft # NoDraft /\ (view.draft.carried \/ t # view.table))
  OBVIOUS
<1>3. PICK draft : draft = [view.draft EXCEPT !.carried = carried]
  OBVIOUS
<1>4. Arrange([Picked(view, t) EXCEPT !.draft = draft])
  BY <1>2, <1>3 DEF PickTable
<1>5. draft \in Filter \union {NoDraft}
  BY <1>1, <1>2, <1>3, PlainViews, DraftsCarried
<1>6. [Picked(view, t) EXCEPT !.draft = draft] \in View
  <2>1. <<>> \in Seq(Filter) /\ 1 \in Nat \ {0}
    OBVIOUS
  <2> QED BY <1>1, <1>5, <2>1 DEF Picked, View
<1> QED BY <1>4, <1>6, ArrangeStep

LEMMA LeaveStep ==
  ASSUME BrowserInvariant, PickSchema
  PROVE  BrowserInvariant'
<1>1. view \in View
  BY DEF BrowserInvariant, BrowserTypeOK
<1>2. PICK carried \in BOOLEAN : carried = (view.draft # NoDraft)
  OBVIOUS
<1>3. PICK draft : draft = [view.draft EXCEPT !.carried = carried]
  OBVIOUS
<1>4. Arrange([view EXCEPT !.table = NoTable, !.filters = <<>>, !.page = 1, !.draft = draft])
  BY <1>2, <1>3 DEF PickSchema
<1>5. draft \in Filter \union {NoDraft}
  BY <1>1, <1>2, <1>3, PlainViews, DraftsCarried
<1>6. [view EXCEPT !.table = NoTable, !.filters = <<>>, !.page = 1, !.draft = draft] \in View
  <2>1. <<>> \in Seq(Filter) /\ 1 \in Nat \ {0}
    OBVIOUS
  <2> QED BY <1>1, <1>5, <2>1 DEF View
<1> QED BY <1>4, <1>6, ArrangeStep

LEMMA ViewIsTyped == BrowserInvariant => view \in View /\ view.filters \in Seq(Filter)
BY DEF BrowserInvariant, BrowserTypeOK, View

LEMMA OneIsAPage == 1 \in Nat \ {0}
OBVIOUS

\* The other arrangements.
LEMMA SortStep ==
  ASSUME BrowserInvariant, NEW column \in ColumnNames \union {""}, SortBy(column)
  PROVE  BrowserInvariant'
<1>1. [view EXCEPT !.orderBy = column, !.page = 1] \in View
  BY ViewIsTyped, OneIsAPage DEF View
<1> QED BY <1>1, ArrangeStep DEF SortBy

LEMMA DirectionStep ==
  ASSUME BrowserInvariant, Direction
  PROVE  BrowserInvariant'
<1>1. PICK down \in BOOLEAN : down = ~view.descending
  OBVIOUS
<1>2. [view EXCEPT !.descending = down] \in View
  BY ViewIsTyped DEF View
<1>3. Arrange([view EXCEPT !.descending = down])
  BY <1>1 DEF Direction
<1> QED BY <1>2, <1>3, ArrangeStep

LEMMA ResizeStep ==
  ASSUME BrowserInvariant, NEW size \in Sizes, Resize(size)
  PROVE  BrowserInvariant'
<1>1. [view EXCEPT !.size = size, !.page = 1] \in View
  BY ViewIsTyped, OneIsAPage DEF View
<1> QED BY <1>1, ArrangeStep DEF Resize

LEMMA FilterStep ==
  ASSUME BrowserInvariant, AddFilter
  PROVE  BrowserInvariant'
<1>1. PICK filters : filters = Append(view.filters, view.draft)
  OBVIOUS
<1>2. view.draft \in Filter
  BY ViewIsTyped, PlainViews DEF AddFilter
<1>3. filters \in Seq(Filter)
  BY <1>1, <1>2, ViewIsTyped, AppendProperties
<1>4. [view EXCEPT !.filters = filters, !.draft = NoDraft, !.page = 1] \in View
  BY <1>3, ViewIsTyped, OneIsAPage DEF View
<1>5. Arrange([view EXCEPT !.filters = filters, !.draft = NoDraft, !.page = 1])
  BY <1>1, Zenon DEF AddFilter
<1> QED BY <1>4, <1>5, ArrangeStep

LEMMA UnfilterStep ==
  ASSUME BrowserInvariant, NEW i \in 1..Len(view.filters), RemoveFilter(i)
  PROVE  BrowserInvariant'
<1>1. PICK filters : filters = RemoveAt(view.filters, i)
  OBVIOUS
<1>2. filters \in Seq(Filter)
  BY <1>1, ViewIsTyped, RemoveAtKeepsOthers
<1>3. [view EXCEPT !.filters = filters, !.page = 1] \in View
  BY <1>2, ViewIsTyped, OneIsAPage DEF View
<1>4. Arrange([view EXCEPT !.filters = filters, !.page = 1])
  BY <1>1, Zenon DEF RemoveFilter
<1> QED BY <1>3, <1>4, ArrangeStep

LEMMA MovesGoOn ==
  ASSUME BrowserInvariant, moves < MaxMoves, moves' = moves + 1
  PROVE  moves' \in 0..MaxMoves
<1>1. moves \in 0..MaxMoves /\ MaxMoves \in Nat
  BY BrowserAssumption DEF BrowserInvariant, BrowserTypeOK
<1> QED BY <1>1

LEMMA WalksOfAlikes ==
  ASSUME NEW u, NEW v, NEW w, NEW stored, NEW ver, Alike(u, v), Offset(u) = Offset(v), u.page = v.page,
         WalkCovers(v, w, stored, ver)
  PROVE  WalkCovers(u, w, stored, ver)
<1>1. Matching(u, stored) = Matching(v, stored)
  BY AlikeAreOrderedAlike
<1>2. \A i : FirstPlace(u, stored, i) = FirstPlace(v, stored, i)
  BY PlacesAlike
<1>3. \A j : OrderValue(u, stored, j) = OrderValue(v, stored, j)
  BY PrecedesAlike
<1> QED BY <1>1, <1>2, <1>3 DEF WalkCovers

LEMMA DraftStep ==
  ASSUME BrowserInvariant, NEW column \in ColumnNames \union {""}, Draft(column)
  PROVE  BrowserInvariant'
<1>1. PICK draft : draft = [column |-> column, carried |-> FALSE]
  OBVIOUS
<1>2. /\ view' = [view EXCEPT !.draft = draft] /\ column \in Columns[view.table] /\ Shown # {}
      /\ moves < MaxMoves /\ moves' = moves + 1 /\ UNCHANGED <<rows, analysed, version, cache, fetches, walk>>
  BY <1>1 DEF Draft
<1>3. view \in View /\ view.table \in Tables /\ view.table # NoTable
  BY <1>2, ShownTells
<1>4. draft \in Filter
  BY <1>1, <1>2, <1>3 DEF Filter, ColumnNames
<1>5. PICK v \in View : v = view' /\ Alike(v, view) /\ v.page = view.page /\ v.size = view.size /\ v.table = view.table
  <2>1. [view EXCEPT !.draft = draft] \in View
    BY <1>3, <1>4 DEF View
  <2>2. PICK v \in View : v = [view EXCEPT !.draft = draft]
    BY <2>1
  <2>3. Alike(v, view) /\ v.page = view.page /\ v.size = view.size /\ v.table = view.table
    BY <2>2, <1>3 DEF View, Alike
  <2> QED BY <1>2, <2>2, <2>3
<1>6. moves' \in 0..MaxMoves
  <2>1. moves < MaxMoves /\ moves' = moves + 1
    BY DEF Draft
  <2> QED BY <2>1, MovesGoOn
<1>7. walk' \in Walk
  BY <1>2 DEF BrowserInvariant, BrowserTypeOK, Walk
<1>8. WalkCovers(view, walk, rows[view.table], version[view.table])
  BY <1>3 DEF BrowserInvariant
<1>9. Alike(v, view) /\ Offset(v) = Offset(view) /\ v.page = view.page
  BY <1>5 DEF Offset, PageRows
<1>10. WalkCovers(v, walk, rows[view.table], version[view.table])
  BY <1>8, <1>9, WalksOfAlikes
<1>11. view' \in View /\ view'.table = view.table
  BY <1>5
<1>12. WalkCovers(view', walk', rows[view'.table], version[view'.table])
  BY <1>2, <1>5, <1>10
<1> QED BY <1>2, <1>6, <1>7, <1>11, <1>12, ViewedStand

\* What is shown joins the walk.
LEMMA TurnsJoin ==
  ASSUME BrowserInvariant, NEW v, Turn(v)
  PROVE  /\ walk' \in Walk /\ moves' \in 0..MaxMoves /\ view' = v /\ UNCHANGED <<rows, analysed, version, cache, fetches>>
         /\ walk.seen \subseteq walk'.seen /\ walk.at \subseteq walk'.at /\ (walk'.whole <=> walk.whole)
         /\ \A a \in Shown : Range(a.ids) \subseteq walk'.seen /\ a.at \subseteq walk'.at
         /\ \A ver : walk.at \subseteq ver /\ (\A a \in Shown : a.at \subseteq ver) => walk'.at \subseteq ver
<1>1. /\ moves < MaxMoves /\ moves' = moves + 1 /\ view' = v /\ UNCHANGED <<rows, analysed, version, cache, fetches>>
      /\ walk' = [walk EXCEPT !.seen = @ \union ShownIds(Shown), !.at = @ \union ShownAt(Shown)]
  BY DEF Turn
<1>2. moves' \in 0..MaxMoves
  BY <1>1, BrowserAssumption DEF BrowserInvariant, BrowserTypeOK
<1>3. walk \in Walk
  BY DEF BrowserInvariant, BrowserTypeOK, Walk
<1>4. ShownIds(Shown) \subseteq Nat /\ ShownAt(Shown) \subseteq Nat
  <2>1. ASSUME NEW a \in Shown PROVE Range(a.ids) \subseteq Nat /\ a.at \subseteq Nat
    <3>1. a.ids \in Seq(Nat) /\ a.at \subseteq Nat
      BY ShownTells DEF Answer
    <3>2. DOMAIN a.ids = 1..Len(a.ids) /\ \A k \in 1..Len(a.ids) : a.ids[k] \in Nat
      BY <3>1, LenProperties, ElementOfSeq
    <3> QED BY <3>1, <3>2 DEF Range
  <2> QED BY <2>1 DEF ShownIds, ShownAt
<1>5. /\ walk'.seen = walk.seen \union ShownIds(Shown) /\ walk'.at = walk.at \union ShownAt(Shown)
      /\ walk'.whole = walk.whole /\ walk' \in Walk
  BY <1>1, <1>3, <1>4 DEF Walk
<1> QED BY <1>1, <1>2, <1>5 DEF ShownIds, ShownAt

LEMMA TurnStep ==
  ASSUME BrowserInvariant, TurnOn \/ TurnBack
  PROVE  BrowserInvariant'
<1>1. PICK a \in Shown : TRUE
  BY DEF TurnOn, TurnBack
<1>2. /\ view \in View /\ view.table \in Tables /\ view.table # NoTable /\ a \in Answer
      /\ AnswerTells(Key(view), a, rows[view.table], version[view.table])
  BY <1>1, ShownTells
<1>3. rows[view.table] \in Stored /\ version[view.table] \in Nat
  BY <1>2, TablesTyped DEF BrowserInvariant
<1>4. walk \in Walk /\ WalkCovers(view, walk, rows[view.table], version[view.table])
  BY <1>2 DEF BrowserInvariant, BrowserTypeOK, Walk
<1>5. PICK page : Turn([view EXCEPT !.page = page]) /\ page \in Nat \ {0} /\ (page = view.page + 1 \/ page = view.page - 1)
  <2>1. view.page \in Nat \ {0}
    BY <1>2, PlainViews
  <2>4. view.page + 1 \in Nat \ {0} /\ (view.page > 1 => view.page - 1 \in Nat \ {0})
    BY <2>1
  <2>2. CASE TurnOn
    BY <2>2, <2>4, Zenon DEF TurnOn
  <2>3. CASE TurnBack
    BY <2>3, <2>4, Zenon DEF TurnBack, HasPrevious
  <2> QED BY <2>2, <2>3
<1>6. PICK v \in View : /\ v = [view EXCEPT !.page = page] /\ Alike(v, view) /\ v.page = page
                        /\ v.size = view.size /\ v.table = view.table
  BY <1>2, <1>5, PlainViews
<1>7. PageRows(v) = PageRows(view)
  BY <1>6 DEF PageRows
<1>8. /\ walk' \in Walk /\ moves' \in 0..MaxMoves /\ view' = v /\ UNCHANGED <<rows, analysed, version, cache, fetches>>
      /\ walk.seen \subseteq walk'.seen /\ walk.at \subseteq walk'.at /\ (walk'.whole <=> walk.whole)
      /\ Range(a.ids) \subseteq walk'.seen /\ a.at \subseteq walk'.at
      /\ \A ver : walk.at \subseteq ver /\ (\A b \in Shown : b.at \subseteq ver) => walk'.at \subseteq ver
  BY <1>1, <1>5, <1>6, TurnsJoin
<1>9. walk'.at \subseteq 0..version[view.table]
  <2>1. \A b \in Shown : b.at \subseteq 0..version[view.table]
    BY ShownTells DEF AnswerTells
  <2>2. walk.at \subseteq 0..version[view.table]
    BY <1>4 DEF WalkCovers
  <2> QED BY <1>8, <2>1, <2>2
<1>10. PICK x \in Walk : x = walk'
  BY <1>8
<1>11. WalkCovers(v, x, rows[view.table], version[view.table])
  <2>1. CASE page = view.page + 1
    <3>1. /\ Alike(Key(view), view) /\ Key(view) \in View /\ PageRows(Key(view)) = PageRows(view)
          /\ Offset(Key(view)) = Offset(view)
      BY <1>2, KeysAreAlike
    <3>2. x.seen \subseteq Nat
      BY DEF Walk
    <3> QED BY <1>2, <1>3, <1>4, <1>6, <1>7, <1>8, <1>9, <1>10, <2>1, <3>1, <3>2, WalksGoOn
  <2>2. CASE page = view.page - 1
    BY <1>2, <1>3, <1>4, <1>6, <1>7, <1>8, <1>9, <1>10, <2>2, WalksGoBack
  <2> QED BY <1>5, <2>1, <2>2
<1> QED BY <1>6, <1>8, <1>10, <1>11, ViewedStand

----------------------------------------------------------------------------
\* The writes of others.

\* The ids of a table's rows are bounded, by its length the least at which they would not be.
LEMMA IdsAreBounded ==
  ASSUME NEW stored \in Stored
  PROVE  \E b \in Nat : \A i \in DOMAIN stored : stored[i].id <= b
<1> DEFINE Below(k) == \E b \in Nat : \A i \in 1..k : stored[i].id <= b
           T == {k \in 0..Len(stored) : ~Below(k)}
<1>1. Len(stored) \in Nat /\ DOMAIN stored = 1..Len(stored) /\ \A i \in 1..Len(stored) : stored[i].id \in Nat
  BY StoredRows
<1>2. ASSUME T # {} PROVE FALSE
  <2>1. PICK k \in T : \A m \in T : k <= m
    <3>1. T \in SUBSET Nat
      BY <1>1
    <3> HIDE DEF T
    <3> QED BY <1>2, <3>1, LeastOf
  <2>2. Below(0)
    <3>1. 0 \in Nat /\ \A i \in 1..0 : FALSE
      OBVIOUS
    <3> QED BY <3>1, Zenon
  <2>3. k \in Nat /\ k # 0 /\ k <= Len(stored) /\ ~Below(k)
    <3> HIDE DEF Below
    <3> QED BY <1>1, <2>1, <2>2
  <2>4. Below(k - 1)
    <3> HIDE DEF Below
    <3> QED BY <1>1, <2>1, <2>3
  <2>5. PICK b \in Nat : \A i \in 1..k - 1 : stored[i].id <= b
    BY <2>4
  <2>6. PICK d \in Nat : d = stored[k].id
    <3> HIDE DEF T, Below
    <3>1. k \in 1..Len(stored)
      BY <1>1, <2>3
    <3> QED BY <1>1, <3>1
  <2>7. PICK c \in Nat : b <= c /\ d <= c
    <3> HIDE DEF T, Below
    <3>1. b <= d \/ d <= b
      OBVIOUS
    <3> QED BY <3>1
  <2>8. ASSUME NEW i \in 1..k PROVE stored[i].id <= c
    <3> HIDE DEF T, Below
    <3>1. i = k \/ i \in 1..k - 1
      BY <2>3
    <3>2. i \in 1..Len(stored)
      BY <1>1, <2>3
    <3>3. PICK e \in Nat : e = stored[i].id
      BY <1>1, <3>2
    <3> QED BY <2>5, <2>6, <2>7, <3>1, <3>3
  <2> QED BY <2>3, <2>8
<1>3. Below(Len(stored))
  <2>1. Len(stored) \in 0..Len(stored)
    BY <1>1
  <2> HIDE DEF Below
  <2> QED BY <1>2, <2>1
<1> QED BY <1>1, <1>3

LEMMA NextIdIsTyped ==
  ASSUME NEW stored \in Stored
  PROVE  1 + Max({0} \union {stored[i].id : i \in DOMAIN stored}) \in Nat
<1> DEFINE ids == {0} \union {stored[i].id : i \in DOMAIN stored}
           B == {b \in Nat : \A x \in ids : x <= b}
<1>1. ids \subseteq Nat /\ 0 \in ids
  BY StoredRows
<1>2. PICK b \in Nat : \A i \in DOMAIN stored : stored[i].id <= b
  BY IdsAreBounded
<1>3. b \in B
  BY <1>2
<1> HIDE DEF ids
<1>4. PICK u \in B : \A c \in B : u <= c
  <2>1. B \in SUBSET Nat /\ B # {}
    BY <1>3
  <2> HIDE DEF B
  <2> QED BY <2>1, LeastOf
<1>5. u \in ids
  <2> SUFFICES ASSUME u \notin ids PROVE FALSE
    OBVIOUS
  <2>1. u \in Nat /\ u # 0 /\ u - 1 \in Nat
    BY <1>1, <1>4
  <2>2. \A x \in ids : x <= u - 1
    BY <1>1, <1>4, <2>1
  <2>3. u - 1 \in B
    BY <2>1, <2>2
  <2> QED BY <1>4, <2>1, <2>3
<1>6. \A x \in ids : u >= x
  BY <1>1, <1>4
<1>7. Max(ids) \in ids
  <2>1. \E x \in ids : \A y \in ids : x >= y
    BY <1>5, <1>6
  <2> QED BY <2>1 DEF Max
<1> QED BY <1>1, <1>7 DEF ids

\* Whatever is stored in a table makes what was read of it something of an earlier version.
LEMMA StoreStep ==
  ASSUME BrowserInvariant, NEW t \in Tables, NEW stored \in Stored, Store(t, stored)
  PROVE  BrowserInvariant'
<1>1. BrowserTypeOK
  BY DEF BrowserInvariant
<1>2. /\ rows' = [rows EXCEPT ![t] = stored] /\ version' = [version EXCEPT ![t] = @ + 1]
      /\ moves < MaxMoves /\ moves' = moves + 1 /\ UNCHANGED <<analysed, view, cache, fetches, walk>>
  BY DEF Store
<1>3. moves' \in 0..MaxMoves
  BY <1>2, MovesGoOn
<1>4. rows \in [Tables -> Stored] /\ version \in [Tables -> Nat] /\ analysed \in [Tables -> Nat]
  BY <1>1 DEF BrowserTypeOK, Stored
<1>5. /\ rows' \in [Tables -> Stored] /\ version' \in [Tables -> Nat] /\ rows'[t] = stored /\ version'[t] = version[t] + 1
      /\ \A s \in Tables : s # t => rows'[s] = rows[s] /\ version'[s] = version[s]
  BY <1>2, <1>4
<1>6. BrowserTypeOK'
  BY <1>1, <1>2, <1>3, <1>4, <1>5 DEF BrowserTypeOK, Stored
<1>7. ASSUME NEW f \in fetches PROVE PageStands(f, rows'[f.key.table], version'[f.key.table])
  <2>1. PageStands(f, rows[f.key.table], version[f.key.table])
    BY DEF BrowserInvariant
  <2>2. f.key \in View /\ f.key.table \in Tables
    BY <1>1, ViewsTyped DEF BrowserTypeOK, Fetching
  <2>3. CASE f.key.table = t
    BY <1>4, <1>5, <2>1, <2>3, FetchesAge
  <2>4. CASE f.key.table # t
    BY <1>5, <2>1, <2>2, <2>4
  <2> QED BY <2>3, <2>4
<1>8. ASSUME NEW entry \in cache, NEW a \in entry.answer
      PROVE  AnswerTells(entry.key, a, rows'[entry.key.table], version'[entry.key.table]) /\ CountFits(entry.key, a)
  <2>1. AnswerTells(entry.key, a, rows[entry.key.table], version[entry.key.table]) /\ CountFits(entry.key, a)
    BY <1>8 DEF BrowserInvariant
  <2>2. entry.key \in View /\ entry.key.table \in Tables
    BY <1>1, ViewsTyped DEF BrowserTypeOK, CacheEntry
  <2>3. CASE entry.key.table = t
    BY <1>4, <1>5, <2>1, <2>3, AnswersAge
  <2>4. CASE entry.key.table # t
    BY <1>5, <2>1, <2>2, <2>4
  <2> QED BY <2>3, <2>4
<1>9. ASSUME view.table # NoTable PROVE WalkCovers(view, walk, rows'[view.table], version'[view.table])
  <2>1. WalkCovers(view, walk, rows[view.table], version[view.table])
    BY <1>9 DEF BrowserInvariant
  <2>2. view \in View /\ view.table \in Tables
    BY <1>9, ViewIsTyped, ViewsTyped
  <2>3. CASE view.table = t
    BY <1>4, <1>5, <2>1, <2>2, <2>3, WalksAge
  <2>4. CASE view.table # t
    BY <1>5, <2>1, <2>2, <2>4
  <2> QED BY <2>3, <2>4
<1>10. \A f \in fetches' : PageStands(f, rows'[f.key.table], version'[f.key.table])
  BY <1>2, <1>7
<1>11. \A entry \in cache' : \A a \in entry.answer :
         AnswerTells(entry.key, a, rows'[entry.key.table], version'[entry.key.table]) /\ CountFits(entry.key, a)
  BY <1>2, <1>8
<1>12. view'.table # NoTable => WalkCovers(view', walk', rows'[view'.table], version'[view'.table])
  BY <1>2, <1>9
<1> QED BY <1>6, <1>10, <1>11, <1>12 DEF BrowserInvariant

LEMMA WriteStep ==
  ASSUME BrowserInvariant, NEW t \in Tables,
         \/ \E val \in Vals : Insert(t, val)
         \/ \E i \in 1..Len(rows[t]) : Delete(t, i) \/ Update(t, i)
  PROVE  BrowserInvariant'
<1>1. rows[t] \in Seq([id : Nat, val : Vals]) /\ rows[t] \in Stored
  BY TablesTyped DEF BrowserInvariant, Stored
<1>2. ASSUME NEW val \in Vals, Insert(t, val) PROVE BrowserInvariant'
  <2>1. [id |-> NextId(t), val |-> val] \in [id : Nat, val : Vals]
    <3>1. NextId(t) \in Nat
      BY <1>1, NextIdIsTyped DEF NextId
    <3> QED BY <3>1
  <2>2. PICK row \in [id : Nat, val : Vals] : row = [id |-> NextId(t), val |-> val]
    BY <2>1
  <2>3. <<row>> \o rows[t] \in Stored
    <3>1. <<row>> \in Seq([id : Nat, val : Vals])
      OBVIOUS
    <3> QED BY <1>1, <3>1, ConcatProperties DEF Stored
  <2>4. Store(t, <<row>> \o rows[t])
    BY <1>2, <2>2 DEF Insert
  <2> QED BY <2>3, <2>4, StoreStep
<1>3. ASSUME NEW i \in 1..Len(rows[t]), Delete(t, i) \/ Update(t, i) PROVE BrowserInvariant'
  <2>1. RemoveAt(rows[t], i) \in Seq([id : Nat, val : Vals])
    BY <1>1, RemoveAtKeepsOthers
  <2>2. rows[t][i] \in [id : Nat, val : Vals]
    BY <1>1, ElementOfSeq
  <2>3. Append(RemoveAt(rows[t], i), rows[t][i]) \in Seq([id : Nat, val : Vals])
    BY <2>1, <2>2, AppendProperties
  <2>4. Store(t, RemoveAt(rows[t], i)) \/ Store(t, Append(RemoveAt(rows[t], i), rows[t][i]))
    BY <1>3, Zenon DEF Delete, Update
  <2> QED BY <2>1, <2>3, <2>4, StoreStep DEF Stored
<1> QED BY <1>2, <1>3

LEMMA AnalyseStep ==
  ASSUME BrowserInvariant, NEW t \in Tables, Analyse(t)
  PROVE  BrowserInvariant'
<1>1. analysed' = [analysed EXCEPT ![t] = Len(rows[t])] /\ UNCHANGED <<rows, version, view, cache, fetches, moves, walk>>
  BY DEF Analyse
<1>2. BrowserTypeOK /\ Len(rows[t]) \in Nat
  BY TablesTyped, StoredRows DEF BrowserInvariant
<1>3. analysed' \in [Tables -> Nat]
  BY <1>1, <1>2 DEF BrowserTypeOK
<1>4. BrowserTypeOK'
  BY <1>1, <1>2, <1>3 DEF BrowserTypeOK
<1> QED BY <1>1, <1>4 DEF BrowserInvariant

LEMMA BrowserStarts == BrowserInit => BrowserInvariant
<1> SUFFICES ASSUME BrowserInit PROVE BrowserInvariant
  OBVIOUS
<1>1. /\ rows = FirstRows /\ analysed = [t \in Tables |-> 0] /\ version = [t \in Tables |-> 0]
      /\ view = ViewOfNothing /\ cache = {} /\ fetches = {} /\ moves = 0
      /\ walk = [seen |-> {}, at |-> {}, whole |-> TRUE]
  BY DEF BrowserInit
<1>2. Min(Sizes) \in Sizes
  <2>1. Sizes \in SUBSET Nat /\ Sizes # {}
    BY BrowserAssumption
  <2>2. \E x \in Sizes : \A y \in Sizes : x <= y
    BY <2>1, LeastOf
  <2> QED BY <2>2 DEF Min
<1>3. view \in View /\ view.table = NoTable
  <2>1. <<>> \in Seq(Filter) /\ 1 \in Nat \ {0}
    OBVIOUS
  <2> QED BY <1>1, <1>2, <2>1 DEF ViewOfNothing, View
<1>4. walk \in Walk
  BY <1>1 DEF Walk
<1>5. BrowserTypeOK
  <2>1. rows \in [Tables -> Seq([id : Nat, val : Vals])] /\ MaxMoves \in Nat
    BY <1>1, BrowserAssumption
  <2>2. {analysed, version} \subseteq [Tables -> Nat]
    BY <1>1
  <2>3. moves \in 0..MaxMoves
    BY <1>1, <2>1
  <2> QED BY <1>1, <1>3, <1>4, <2>1, <2>2, <2>3 DEF BrowserTypeOK, Walk
<1> QED BY <1>1, <1>3, <1>5 DEF BrowserInvariant

LEMMA BrowserSteps == BrowserInvariant /\ [BrowserNext]_browserVars => BrowserInvariant'
<1> SUFFICES ASSUME BrowserInvariant, [BrowserNext]_browserVars PROVE BrowserInvariant'
  OBVIOUS
<1>1. CASE UNCHANGED browserVars
  BY <1>1 DEF browserVars, BrowserInvariant, BrowserTypeOK
<1>2. CASE Fetch
  BY <1>2, FetchStep
<1>3. ASSUME NEW f \in fetches, RefuseFetch(f) \/ Select(f) \/ ResolveTotal(f) \/ FailFetch(f) PROVE BrowserInvariant'
  BY <1>3, SelectStep, ResolveStep, EmptyHandedStep
<1>4. ASSUME NEW t \in Tables, PickTable(t) \/ Analyse(t) PROVE BrowserInvariant'
  BY <1>4, PickStep, AnalyseStep
<1>5. CASE PickSchema \/ Direction \/ AddFilter \/ TurnBack \/ TurnOn
  BY <1>5, LeaveStep, DirectionStep, FilterStep, TurnStep
<1>6. ASSUME NEW column \in ColumnNames \union {""}, SortBy(column) \/ Draft(column) PROVE BrowserInvariant'
  BY <1>6, SortStep, DraftStep
<1>7. ASSUME NEW size \in Sizes, Resize(size) PROVE BrowserInvariant'
  BY <1>7, ResizeStep
<1>8. ASSUME NEW i \in 1..Len(view.filters), RemoveFilter(i) PROVE BrowserInvariant'
  BY <1>8, UnfilterStep
<1>9. ASSUME NEW t \in Tables, NEW val \in Vals, Insert(t, val) PROVE BrowserInvariant'
  BY <1>9, WriteStep
<1>10. ASSUME NEW t \in Tables, NEW i \in 1..Len(rows[t]), Delete(t, i) \/ Update(t, i) PROVE BrowserInvariant'
  BY <1>10, WriteStep
<1>11. CASE BrowserNext
  BY <1>2, <1>3, <1>4, <1>5, <1>6, <1>7, <1>8, <1>9, <1>10, <1>11, Zenon DEF BrowserNext
<1> QED BY <1>1, <1>11

\* Answers stand for the versions they were read from, and a walk that no write came into has
\* seen of every row before its page one alike, whatever the operator and others do.
THEOREM BrowserCorrect == BrowserSpec => []BrowserInvariant
BY BrowserStarts, BrowserSteps, PTL DEF BrowserSpec

\* What the browser promises holds for any tables, sizes of pages, orders, filters and writes.
THEOREM BrowserPromiseHolds == BrowserSpec => []BrowserPromise
<1>1. BrowserInvariant => BrowserTypeOK /\ NoRowIsLeftOut /\ CountsAreOfTheRowsShown
  BY NoneIsLeftOut, CountsFit DEF BrowserInvariant
<1>2. BrowserTypeOK /\ NoRowIsLeftOut /\ CountsAreOfTheRowsShown /\ OnlyCarriedDraftsAreRefused => BrowserPromise
  BY DEF BrowserPromise
<1> QED BY <1>1, <1>2, BrowserCorrect, OnlyCarriedDraftsAreRefusedHolds, PTL
=============================================================================
