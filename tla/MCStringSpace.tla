--------------------------- MODULE MCStringSpace ---------------------------
(* Small instances of StringSpace for TLC.                                 *)
EXTENDS StringSpace

TextABc == <<"A", "b", "c", "d">>

TwoLiterals == {[ptr |-> 1, len |-> 1], [ptr |-> 2, len |-> 2]}
OneLiteral  == {[ptr |-> 1, len |-> 2]}
MadeX == {<<"x">>}
MadeXyz == {<<"x", "y", "z">>}
MadeBoth == MadeX \cup MadeXyz
MadeNone == {}
MadeTwo == MadeXyz \cup {<<"y", "z", "x">>}
FourLiteral == {[ptr |-> 1, len |-> 4]}

Unexposed == ~heap.exposed

=============================================================================
