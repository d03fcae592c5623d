--------------------------- MODULE MCTerminalLine ---------------------------
(***************************************************************************)
(* TerminalLine for TLC.  The cells of the window count while they show    *)
(* the edited line and at no other time: no routine reads them, and the    *)
(* editor writes its own before EchoIsLine looks at them.                  *)
(***************************************************************************)
EXTENDS TerminalLine

LineCells ==
  IF mode = "edit" /\ t.start.row > 0
  THEN LET first == Place(t.start.row, t.start.col)
       IN  [i \in DOMAIN line |-> IF first + i - 1 < Rows * Cols THEN CellAt(first + i - 1) ELSE Blank]
  ELSE <<>>

View == <<LineCells, t.pos, t.term.row, t.term.col, t.col, t.off,
          IF mode = "edit" THEN <<t.start, line>> ELSE <<>>, t.TWidth, t.TabSiz, t.Nullct, limit, mode>>

=============================================================================
