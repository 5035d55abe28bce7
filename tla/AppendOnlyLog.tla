---------------------------- MODULE AppendOnlyLog ----------------------------
(***************************************************************************)
(* What the audit trail promises its readers: one log, to which events are *)
(* only ever added at the end, however many operations are recorded at     *)
(* once.                                                                   *)
(***************************************************************************)
EXTENDS Sequences

CONSTANT Contents
VARIABLE log

Init == log = <<>>

Add(content) == log' = Append(log, content)

Next == \E content \in Contents : Add(content)

Spec == Init /\ [][Next]_log
=============================================================================
