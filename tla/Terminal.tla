------------------------------ MODULE Terminal ------------------------------
(***************************************************************************)
(* What the BetaWise console promises an applet that writes to stdout: a   *)
(* window of Rows by Cols characters with a write position.  The window    *)
(* scrolls up when output leaves its last row and down when a backspace    *)
(* leaves its first one.  Nothing here knows about display RAM, pixels or  *)
(* the LCD start-line register; module Console does, and implements this.  *)
(***************************************************************************)
EXTENDS Integers

CONSTANTS
  Rows,     \* text rows of the window, at least 1
  Cols,     \* text columns of the window, at least 1
  Glyphs,   \* the characters an applet prints
  Blank     \* an erased cell

VARIABLES
  scr,      \* [win, row, col]: the cells and the write position
  active    \* the applet owns the screen

vars == <<scr, active>>

BlankRow == [c \in 1..Cols |-> Blank]

\* The state after the screen is cleared.
Home == [win |-> [r \in 1..Rows |-> BlankRow], row |-> 1, col |-> 1]

Moved(s, r, c) == [s EXCEPT !.row = r, !.col = c]

\* Every row moves up; an erased row enters at the bottom.
ScrolledUp(win) ==
  [r \in 1..Rows |-> IF r < Rows THEN win[r + 1] ELSE BlankRow]

(***************************************************************************)
(* Every row moves down.  The row that enters at the top is not erased: it *)
(* shows what the bottom row showed, except for its last cell.             *)
(***************************************************************************)
ScrolledDown(win) ==
  [r \in 1..Rows |-> IF r > 1 THEN win[r - 1] ELSE [win[Rows] EXCEPT ![Cols] = Blank]]

LineFeed(s) ==
  IF s.row < Rows THEN Moved(s, s.row + 1, 1)
                  ELSE [win |-> ScrolledUp(s.win), row |-> Rows, col |-> 1]

CarriageReturn(s) == Moved(s, s.row, 1)

Backspace(s) ==
  CASE s.col > 1               -> Moved(s, s.row, s.col - 1)
    [] s.col = 1 /\ s.row > 1  -> Moved(s, s.row - 1, Cols)
    [] OTHER                   -> [win |-> ScrolledDown(s.win), row |-> 1, col |-> Cols]

(***************************************************************************)
(* Printing in the last column leaves the position just past it (column    *)
(* Cols + 1): the line is wrapped only when another character is printed.  *)
(***************************************************************************)
Printed(s, ch) ==
  LET at == IF s.col > Cols THEN LineFeed(s) ELSE s
  IN  [at EXCEPT !.win[at.row][at.col] = ch, !.col = @ + 1]

-----------------------------------------------------------------------------

Init == scr = Home /\ active = FALSE

Focus == ~active /\ active' = TRUE /\ scr' = Home

\* Losing the screen forgets it: it is cleared before it is shown again.
Blur == active /\ active' = FALSE /\ scr' = Home

Write ==
  /\ active
  /\ UNCHANGED active
  /\ \/ scr' = Home
     \/ \E r \in 1..Rows, c \in 1..Cols : scr' = Moved(scr, r, c)
     \/ \E ch \in Glyphs \cup {Blank} : scr' = Printed(scr, ch)
     \/ scr' = LineFeed(scr)
     \/ scr' = CarriageReturn(scr)
     \/ scr' = Backspace(scr)

Next == Focus \/ Blur \/ Write

Spec == Init /\ [][Next]_vars

=============================================================================
