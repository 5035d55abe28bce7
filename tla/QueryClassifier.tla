--------------------------- MODULE QueryClassifier ---------------------------
(***************************************************************************)
(* providers/databases/query-classifier.ts: what a text of SQL is judged   *)
(* to be. A text is a sequence of symbols: the punctuation the scanner     *)
(* looks at is a symbol each, a word is one symbol in capitals, set off by *)
(* blanks, and strings are standard ones, without backslash escapes.       *)
(***************************************************************************)
EXTENDS Naturals, Sequences, FiniteSets, SequencesExt

Classes == {"READ", "WRITE", "DDL", "DESTRUCTIVE", "UNKNOWN"}

Severity == [READ |-> 0, WRITE |-> 1, DDL |-> 2, DESTRUCTIVE |-> 3, UNKNOWN |-> 4]

READ_VERBS == {"SELECT", "EXPLAIN", "SHOW", "WITH", "TABLE", "VALUES", "FETCH", "CLOSE", "DECLARE"}
WRITE_VERBS == {"INSERT", "UPDATE", "DELETE", "MERGE", "UPSERT", "COPY"}
DDL_VERBS == {"CREATE", "ALTER", "COMMENT", "REINDEX", "CLUSTER", "REFRESH"}
DESTRUCTIVE_VERBS == {"DROP", "TRUNCATE"}

FORBIDDEN_VERBS ==
  {<<v>> : v \in {"GRANT", "REVOKE", "SET", "RESET", "DO", "CALL", "VACUUM", "ANALYZE", "CHECKPOINT",
                  "LISTEN", "NOTIFY", "UNLISTEN", "LOCK", "PREPARE", "EXECUTE", "DEALLOCATE", "BEGIN",
                  "COMMIT", "ROLLBACK", "START", "SAVEPOINT", "SECURITY", "IMPORT", "LOAD"}}
  \union {<<"ALTER", "SYSTEM">>, <<"CREATE", "EXTENSION">>}
  \union {"CREATE", "ALTER", "DROP"} \X {"ROLE", "USER"}

FORBIDDEN_FUNCTIONS ==
  {"pg_read_file", "pg_read_binary_file", "pg_ls_dir", "pg_stat_file", "pg_write_file", "lo_import",
   "lo_export", "dblink", "pg_sleep", "pg_terminate_backend", "pg_cancel_backend", "pg_reload_conf",
   "pg_promote", "copy_from_program"}

----------------------------------------------------------------------------
\* stripLiteralsAndComments: each helper gives the index behind what starts at i.

At(text, i) == IF i \in DOMAIN text THEN text[i] ELSE "end"

Pair(text, i, a, b) == At(text, i) = a /\ At(text, i + 1) = b

\* The newline itself stays in the text.
LineEnd(text, i) ==
  LET end[j \in i..Len(text) + 1] == IF j > Len(text) \/ At(text, j) = "newline" THEN j ELSE end[j + 1]
  IN  end[i]

\* Seeded bug: the first end closes every block comment that is open.
FlatBlockEnd(text, i) ==
  LET end[j \in i..Len(text) + 2] ==
        IF j > Len(text) THEN Len(text) + 1
        ELSE IF Pair(text, j, "*", "/") THEN j + 2 ELSE end[j + 1]
  IN  end[i + 2]

BlockEnd(text, i) ==
  LET end[j \in i..Len(text) + 2, depth \in 0..Len(text)] ==
        IF j > Len(text) \/ depth = 0 THEN IF j > Len(text) THEN Len(text) + 1 ELSE j
        ELSE IF Pair(text, j, "/", "*") THEN end[j + 2, depth + 1]
        ELSE IF Pair(text, j, "*", "/") THEN end[j + 2, depth - 1]
        ELSE end[j + 1, depth]
  IN  end[i + 2, 1]

\* A doubled quote does not close.
QuoteEnd(text, i) ==
  LET quote == text[i]
      end[j \in i..Len(text) + 2] ==
        IF j > Len(text) THEN Len(text) + 1
        ELSE IF Pair(text, j, quote, quote) THEN end[j + 2]
        ELSE IF At(text, j) = quote THEN j + 1 ELSE end[j + 1]
  IN  end[i + 1]

\* The length of a dollar quote's tag at i, or 0: the model's tags have at most a letter.
TagLength(text, i) ==
  IF Pair(text, i, "$", "$") THEN 2
  ELSE IF Pair(text, i, "$", "a") /\ At(text, i + 2) = "$" THEN 3 ELSE 0

DollarEnd(text, i) ==
  LET length == TagLength(text, i)
      Closes(j) == SubSeq(text, j, j + length - 1) = SubSeq(text, i, i + length - 1)
      closings == {j \in (i + length)..(Len(text) + 1 - length) : Closes(j)}
  IN  IF closings = {} THEN Len(text) + 1
      ELSE (CHOOSE j \in closings : \A k \in closings : j <= k) + length

Strip(text) ==
  LET from[i \in 1..Len(text) + 1] ==
        IF i > Len(text) THEN <<>>
        ELSE IF Pair(text, i, "-", "-") THEN from[LineEnd(text, i)]
        ELSE IF Pair(text, i, "/", "*") THEN from[BlockEnd(text, i)]
        ELSE IF text[i] \in {"'", "\""} THEN <<"literal">> \o from[QuoteEnd(text, i)]
        ELSE IF TagLength(text, i) > 0 THEN <<"literal">> \o from[DollarEnd(text, i)]
        ELSE <<text[i]>> \o from[i + 1]
  IN  from[1]

\* splitStatements: blank statements are dropped.
Statements(stripped) ==
  LET ends == {0, Len(stripped) + 1} \union {i \in DOMAIN stripped : stripped[i] = ";"}
      Next(i) == CHOOSE j \in ends : j > i /\ \A k \in ends : k > i => j <= k
      Part(i) == SelectSeq(SubSeq(stripped, i + 1, Next(i) - 1), LAMBDA c : c # "newline")
      starts == SetToSortSeq(ends \ {Len(stripped) + 1}, <)
  IN  SelectSeq([n \in DOMAIN starts |-> Part(starts[n])], LAMBDA s : s # <<>>)

----------------------------------------------------------------------------
\* classifyStatement. "EXPLAIN(" is the verb with its bracket right behind it.

FirstWords(s, n) ==
  LET words == SelectSeq(s, LAMBDA w : w \notin {"(", ")"})
      spaced == [i \in DOMAIN words |-> IF words[i] = "EXPLAIN(" THEN "EXPLAIN" ELSE words[i]]
  IN  SubSeq(spaced, 1, IF n < Len(spaced) THEN n ELSE Len(spaced))

Mentions(s, words) == \E i \in DOMAIN s : s[i] \in words

\* Seeded bug: the name alone is enough.
NamesForbidden(s) == Mentions(s, FORBIDDEN_FUNCTIONS)

CallsForbidden(s) == \E i \in DOMAIN s : s[i] \in FORBIDDEN_FUNCTIONS /\ At(s, i + 1) = "("

\* Seeded bug: the bracketed form of EXPLAIN's options is forgotten.
BareInnerStart(s) ==
  IF At(s, 1) # "EXPLAIN" \/ At(s, 2) # "ANALYZE" THEN 0 ELSE IF At(s, 3) = "VERBOSE" THEN 4 ELSE 3

\* Where the statement that EXPLAIN ANALYZE runs begins, or 0.
InnerStart(s) ==
  IF At(s, 1) # "EXPLAIN" THEN 0
  ELSE IF At(s, 2) = "ANALYZE" THEN IF At(s, 3) = "VERBOSE" THEN 4 ELSE 3
  ELSE LET closings == {i \in DOMAIN s : s[i] = ")"}
           close == CHOOSE i \in closings : \A j \in closings : i <= j
       IN  IF At(s, 2) = "(" /\ closings # {} /\ \E i \in 3..close : s[i] = "ANALYZE" THEN close + 1 ELSE 0

ByVerb(s, verb) ==
  IF \E n \in 1..3 : FirstWords(s, n) \in FORBIDDEN_VERBS \/ CallsForbidden(s) THEN "UNKNOWN"
  ELSE IF verb \in DESTRUCTIVE_VERBS THEN "DESTRUCTIVE"
  ELSE IF verb \in DDL_VERBS THEN "DDL"
  ELSE IF verb \in WRITE_VERBS THEN "WRITE"
  ELSE IF verb = "WITH" THEN
         IF Mentions(s, {"DROP", "TRUNCATE"}) THEN "DESTRUCTIVE"
         ELSE IF Mentions(s, {"INSERT", "UPDATE", "DELETE", "MERGE"}) THEN "WRITE" ELSE "READ"
  ELSE IF verb \in READ_VERBS THEN "READ" ELSE "UNKNOWN"

Verdict(statement) ==
  LET Rest(i) == SubSeq(statement, i, Len(statement))
      of[i \in 1..Len(statement) + 1] ==
        LET s == Rest(i)
            words == FirstWords(s, 1)
            inner == InnerStart(s)
        IN  IF words = <<>> THEN "UNKNOWN"
            ELSE IF ByVerb(s, words[1]) = "READ" /\ inner > 0 THEN of[i + inner - 1]
            ELSE ByVerb(s, words[1])
  IN  of[1]

\* Seeded bug: the last statement decides.
ClassifyLast(statements) == IF statements = <<>> THEN "UNKNOWN" ELSE Verdict(statements[Len(statements)])

\* The most severe statement decides, and a text without one is not recognised.
Classify(statements) ==
  IF statements = <<>> THEN "UNKNOWN"
  ELSE LET verdicts == {Verdict(statements[n]) : n \in DOMAIN statements}
       IN  CHOOSE c \in verdicts : \A d \in verdicts : Severity[d] <= Severity[c]
=============================================================================
