------------------------------ MODULE SqlTexts ------------------------------
(***************************************************************************)
(* Texts of SQL, growing symbol by symbol, and statements, growing word by *)
(* word, with what the server makes of them beside what the classifier     *)
(* does. The server's lexer and its grammar are external; the lexer is a   *)
(* machine that takes one symbol at a time, where the classifier scans     *)
(* ahead.                                                                  *)
(***************************************************************************)
EXTENDS QueryClassifier

CONSTANTS
  Chunks,     \* runs of symbols a text is made of
  MaxChunks,
  Words,      \* words a batch of statements is made of
  MaxWords

ASSUME TextAssumption == MaxChunks \in Nat /\ MaxWords \in Nat

VARIABLES
  text,    \* the symbols so far
  chunks,  \* how many runs of symbols they are
  server,  \* the server's lexer
  batch    \* words and semicolons, in another text

textVars == <<text, chunks, server>>
batchVars == <<batch>>

\* seen: symbols the lexer holds back until it knows what they begin; tag: of the
\* dollar quote it is in; out: what it has understood.
Lexer == [mode : {"plain", "line", "block", "quoted", "dollar"}, depth : Nat, quote : STRING,
          seen : Seq(STRING), tag : Seq(STRING), out : Seq(STRING)]

TextTypeOK ==
  /\ text \in Seq(STRING) /\ chunks \in 0..MaxChunks
  /\ server \in Lexer /\ Len(server.seen) <= 2
  /\ batch \in Seq(Words) /\ Len(batch) <= MaxWords

TextInit ==
  /\ text = <<>> /\ chunks = 0
  /\ server = [mode |-> "plain", depth |-> 0, quote |-> "", seen |-> <<>>, tag |-> <<>>, out |-> <<>>]

BatchInit == batch = <<>>

----------------------------------------------------------------------------
\* The server's lexer.

Emit(lexer, symbols) == [lexer EXCEPT !.out = @ \o symbols, !.seen = <<>>]
Hold(lexer, c) == [lexer EXCEPT !.seen = Append(@, c)]

\* A symbol in the open, nothing held back.
Open(lexer, c) ==
  CASE c \in {"-", "/", "$"} -> Hold(lexer, c)
    [] c \in {"'", "\""} -> [lexer EXCEPT !.mode = "quoted", !.quote = c, !.seen = <<>>]
    [] OTHER -> Emit(lexer, <<c>>)

Plain(lexer, c) ==
  CASE lexer.seen = <<>> -> Open(lexer, c)
    [] lexer.seen = <<"-">> /\ c = "-" -> [lexer EXCEPT !.mode = "line", !.seen = <<>>]
    [] lexer.seen = <<"/">> /\ c = "*" -> [lexer EXCEPT !.mode = "block", !.depth = 1, !.seen = <<>>]
    [] Head(lexer.seen) = "$" /\ c = "$" ->
         [Emit(lexer, <<"literal">>) EXCEPT !.mode = "dollar", !.tag = Tail(lexer.seen)]
    [] lexer.seen = <<"$">> /\ c = "a" -> Hold(lexer, c)
    [] OTHER -> Open(Emit(lexer, lexer.seen), c)

Line(lexer, c) == IF c = "newline" THEN Emit([lexer EXCEPT !.mode = "plain"], <<c>>) ELSE lexer

Block(lexer, c) ==
  CASE lexer.seen = <<"/">> /\ c = "*" -> [lexer EXCEPT !.depth = @ + 1, !.seen = <<>>]
    [] lexer.seen = <<"*">> /\ c = "/" ->
         [lexer EXCEPT !.depth = @ - 1, !.seen = <<>>, !.mode = IF lexer.depth = 1 THEN "plain" ELSE @]
    [] OTHER -> [lexer EXCEPT !.seen = IF c \in {"/", "*"} THEN <<c>> ELSE <<>>]

\* A quote closes, unless the next symbol doubles it.
Quoted(lexer, c) ==
  CASE lexer.seen = <<>> -> IF c = lexer.quote THEN Hold(lexer, c) ELSE lexer
    [] c = lexer.quote -> [lexer EXCEPT !.seen = <<>>]
    [] OTHER -> Plain(Emit([lexer EXCEPT !.mode = "plain"], <<"literal">>), c)

Dollar(lexer, c) ==
  CASE c = "$" /\ lexer.seen = <<"$">> \o lexer.tag -> [lexer EXCEPT !.mode = "plain", !.seen = <<>>]
    [] c = "$" -> [lexer EXCEPT !.seen = <<"$">>]
    [] c = "a" /\ lexer.seen = <<"$">> -> Hold(lexer, c)
    [] OTHER -> [lexer EXCEPT !.seen = <<>>]

Feed(lexer, c) ==
  CASE lexer.mode = "plain" -> Plain(lexer, c)
    [] lexer.mode = "line" -> Line(lexer, c)
    [] lexer.mode = "block" -> Block(lexer, c)
    [] lexer.mode = "quoted" -> Quoted(lexer, c)
    [] OTHER -> Dollar(lexer, c)

\* Nothing is left open, and what the server then has.
Complete == server.mode \in {"plain", "line"} \/ (server.mode = "quoted" /\ server.seen # <<>>)
Understood == server.out \o (IF server.mode = "quoted" THEN <<"literal">> ELSE server.seen)

Type(chunk) ==
  /\ chunks < MaxChunks
  /\ text' = text \o chunk
  /\ chunks' = chunks + 1
  /\ server' = FoldLeft(Feed, server, chunk)

TextNext == \E chunk \in Chunks : Type(chunk)

----------------------------------------------------------------------------
\* The server's grammar, for what a statement may change.

DataVerbs == {"INSERT", "UPDATE", "DELETE", "MERGE"}
ChangeVerbs == WRITE_VERBS \union DDL_VERBS \union DESTRUCTIVE_VERBS

\* What the server runs of a statement: EXPLAIN runs what it explains with ANALYZE only,
\* and takes its options in brackets or bare.
OptionsEnd(s) == CHOOSE i \in DOMAIN s : s[i] = ")" /\ \A j \in 1..i - 1 : s[j] # ")"
Ran(s) ==
  LET Behind(i) == SubSeq(s, i + 1, Len(s))
      bracketed == At(s, 1) = "EXPLAIN(" \/ Pair(s, 1, "EXPLAIN", "(")
  IN  IF bracketed /\ \E i \in DOMAIN s : s[i] = ")" THEN
        IF \E i \in 1..OptionsEnd(s) : s[i] = "ANALYZE" THEN Behind(OptionsEnd(s)) ELSE <<>>
      ELSE IF Pair(s, 1, "EXPLAIN", "ANALYZE") THEN Behind(IF At(s, 3) = "VERBOSE" THEN 3 ELSE 2)
      ELSE IF At(s, 1) \in {"EXPLAIN", "EXPLAIN("} THEN <<>> ELSE s

\* A statement changes by its verb, and one that starts WITH by a verb that changes
\* data at the start of a bracket or behind one.
ChangesAnything(statement) ==
  LET s == Ran(statement)
      bare == SelectSeq(s, LAMBDA w : w \notin {"(", ")"})
  IN  /\ bare # <<>>
      /\ \/ bare[1] \in ChangeVerbs
         \/ bare[1] = "WITH" /\ \E i \in 2..Len(s) : s[i] \in DataVerbs /\ s[i - 1] \in {"(", ")"}

\* One statement that only reads and calls nothing forbidden.
PlainRead(s) ==
  /\ s # <<>> /\ s[1] = "SELECT"
  /\ \A i \in DOMAIN s : s[i] \in FORBIDDEN_FUNCTIONS => At(s, i + 1) # "("

Write(word) ==
  /\ Len(batch) < MaxWords
  /\ batch' = Append(batch, word)

BatchNext == \E word \in Words : Write(word)

----------------------------------------------------------------------------
\* stripLiteralsAndComments (query-classifier.ts:118) finds in every text the server
\* can read to its end what the server finds: no word is taken out of a literal or
\* a comment and none hidden in one, however they nest, overlap or follow each other.
ScannerAgreesWithServer == Complete => Strip(text) = Understood

Batch == Statements(batch)

\* classifyStatement (query-classifier.ts:228): a batch judged READ has no statement
\* the server would change anything by, except behind an EXPLAIN whose options
\* follow it without a blank, which its pattern takes for one without ANALYZE.
ReadVerdictsChangeNothing ==
  Classify(Batch) = "READ" =>
    \A n \in DOMAIN Batch : ChangesAnything(Batch[n]) => "EXPLAIN(" \in {Batch[n][i] : i \in DOMAIN Batch[n]}

\* classify (query-classifier.ts:313): whatever is written behind a complete statement
\* and its semicolon, the batch is judged no milder than that statement.
NothingSoftensAVerdict ==
  \A i \in DOMAIN batch :
    batch[i] = ";" =>
      LET before == Classify(Statements(SubSeq(batch, 1, i)))
      IN  Statements(SubSeq(batch, 1, i)) # <<>> => Severity[before] <= Severity[Classify(Batch)]

\* A plain read is not refused for what its neighbours in the batch are named: a batch
\* of plain reads is READ.
PlainReadsAreReads ==
  Batch # <<>> /\ (\A n \in DOMAIN Batch : PlainRead(Batch[n])) => Classify(Batch) = "READ"

\* What the judgement of texts promises: nothing is hidden from it, and nothing softens
\* it.
TextPromise ==
  /\ TextTypeOK
  /\ ScannerAgreesWithServer
  /\ ReadVerdictsChangeNothing
  /\ NothingSoftensAVerdict
  /\ PlainReadsAreReads
=============================================================================
