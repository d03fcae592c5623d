---------------------------- MODULE MCDebugTool ----------------------------
(* Small instances of DebugTool for TLC.                                   *)
EXTENDS DebugTool

\* RAM, a port that only takes writes, and a hole; the rest answers reads.
Ram  == {0}
Port == {9}
Hole == {12}

AnswersRead == Addresses \ (Port \cup Hole)
StoresWrite == Ram \cup Port

Zeros == [a \in Addresses |-> <<0, 0>>]

Number(a) == [form |-> "number", value |-> a, ok |-> TRUE]
BadNumber == [form |-> "number", value |-> 0, ok |-> FALSE]

Jumps == {Number(13), BadNumber}

\* Jumps are followed from a few addresses only: it bounds the addresses Backspace knows.
FewJumps == d.prev \in {0, 9, 13}

=============================================================================
