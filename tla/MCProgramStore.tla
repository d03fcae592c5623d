--------------------------- MODULE MCProgramStore ---------------------------
(* Small instances of ProgramStore for TLC.                                *)
EXTENDS ProgramStore

\* A line of one token, and one of two.
ShortAndLong == {<<1, Eol>>, <<2, 3, Eol>>}

Short == {<<1, Eol>>}

=============================================================================
