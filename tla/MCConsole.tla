------------------------------ MODULE MCConsole ------------------------------
(* Instances of Console for TLC: the fonts.                                *)
EXTENDS Console

Font16 == [height |-> 16, max_width |-> 6]
Font8  == [height |-> 8, max_width |-> 6]

==============================================================================
