------------------------------- MODULE Console -------------------------------
(***************************************************************************)
(* The BetaWise console, os3k/os3k.c, on a NEO (a device with a font, so   *)
(* g_pCurFont is not NULL once MSG_INIT was handled).                      *)
(*                                                                         *)
(* Text is drawn straight into the display RAM of the LCD.  The RAM is a   *)
(* ring of LcdHeight pixel lines; the line shown at the top of the glass   *)
(* is set by the start-line register, and the console scrolls by moving it *)
(* (g_CurLcdRoll) and erasing the row that enters.  The console state is   *)
(* one record, con, and every C function is an operator from a state to    *)
(* the state after the call, so that a function that calls another reads   *)
(* like the C code.                                                        *)
(*                                                                         *)
(*   row, col   g_CurRow, g_CurCol: the text position, 1-based             *)
(*   roll       g_CurLcdRoll, in pixel lines                               *)
(*   x, y       CURSOR_STRUCT->x, ->y: where the next glyph is drawn       *)
(*   mode       the system's cursor mode                                   *)
(*   start      the LCD start-line register                                *)
(*   pix        the LCD "all pixels on" override                           *)
(*   torn       the cursor's position or the display RAM was written while *)
(*              the cursor block was shown, so the block is left behind    *)
(*   ram        display RAM: for each page of 8 lines, for each 6 pixel    *)
(*              column, the glyph drawn there                              *)
(***************************************************************************)
EXTENDS Integers

CONSTANTS
  LcdWidth,      \* SYS_INT_GET_LCD_WIDTH
  LcdHeight,     \* SYS_INT_GET_LCD_HEIGHT: the ring of lines of the LCD RAM
  SystemFont,    \* the font SYS_INT_GET_SYSTEM_FONT_PTR delivers
  TerminalFont,  \* the font of applet 0xA1F0, or NoFont when not installed
  NoFont,        \* NULL
  Glyphs,        \* printable characters
  Blank          \* the space, and an erased cell

\* The LCD RAM is drawn in pages of 8 pixel lines.
Pages == 0..(LcdHeight \div 8 - 1)
Columns == 1..(LcdWidth \div 6)

\* FontHeader_t.  MSG_SETFOCUS divides by 6, 8 and 16 instead of by the
\* font's size ("use constant integers to avoid long division").
Fonts == [height : {8, 16}, max_width : {6}]

\* The font in use while the applet has the focus, and the text size it gives.
FocusFont == IF TerminalFont # NoFont THEN TerminalFont ELSE SystemFont
TextRows  == LcdHeight \div FocusFont.height
TextCols  == LcdWidth \div 6

\* The NEO has 264 by 64; LCD_CMD_START_LINE has six bits.
ASSUME ConsoleAssumption ==
  /\ LcdWidth \in Nat /\ LcdWidth > 0 /\ LcdWidth % 6 = 0
  /\ LcdHeight \in 1..64 /\ LcdHeight % FocusFont.height = 0
  /\ SystemFont \in Fonts
  /\ TerminalFont \in Fonts \cup {NoFont}
  /\ NoFont \notin Fonts

CURSOR_MODE_HIDE == "hide"   \* CURSOR_MODE_HIDE
CURSOR_MODE_SHOW == "show"   \* CURSOR_MODE_SHOW

\* Control characters fputc handles itself.
BEL == "bel"
BS  == "bs"
LF  == "lf"
CR  == "cr"

Chars == Glyphs \cup {Blank, BEL, BS, LF, CR}

\* What is printed as a glyph is none of them.
ASSUME CharsAssumption == {BEL, BS, LF, CR} \cap (Glyphs \cup {Blank}) = {}

VARIABLES
  phase,          \* "loaded", "background" (after MSG_INIT) or "focus"
  font,           \* g_pCurFont
  maxRow, maxCol, \* g_MaxRow, g_MaxCol
  con             \* the console and LCD state, see above

vars == <<phase, font, maxRow, maxCol, con>>

-----------------------------------------------------------------------------
(* The LCD and the system calls the console makes.                         *)

LCD_SetScreenRoll(k, roll) == [k EXCEPT !.start = roll % 64]

\* The argument is ignored: the command is always ALL_PIX_ON(true).
LCD_AllPixOn(k, enable) == [k EXCEPT !.pix = TRUE]

SetCursorMode(k, mode) == [k EXCEPT !.mode = mode]

Shown(k) == k.mode = CURSOR_MODE_SHOW

\* The pages a glyph row whose top pixel line is y covers.
Band(y) == {p \in Pages : y <= 8 * p /\ 8 * p < y + font.height}

DrawBitmap(k, x, y, ch) ==
  [k EXCEPT !.torn = @ \/ Shown(k),
            !.ram = [p \in Pages |-> IF p \in Band(y)
                                     THEN [k.ram[p] EXCEPT ![x \div 6 + 1] = ch]
                                     ELSE k.ram[p]]]

\* RasterOp(x, y, g_LcdWidth, height, NULL, ROP_WHITENESS), clipped on the right.
Whiten(k, x, y) ==
  [k EXCEPT !.torn = @ \/ Shown(k),
            !.ram = [p \in Pages |-> [c \in Columns |->
                       IF p \in Band(y) /\ c > x \div 6 THEN Blank ELSE k.ram[p][c]]]]

BlankRam == [p \in Pages |-> [c \in Columns |-> Blank]]

\* The system clears the display RAM and homes its cursor.
OS3K_ClearScreen(k) == [k EXCEPT !.ram = BlankRam, !.x = 0, !.y = 0]

-----------------------------------------------------------------------------
(* The library functions.                                                  *)

ClearScreen(k) ==
  LCD_SetScreenRoll([OS3K_ClearScreen(k) EXCEPT !.row = 1, !.col = 1, !.roll = 0], 0)

\* Mutant: the scroll does not wrap at the end of the ring.
RolledPastEnd(k, r) ==
  LET roll == IF r < 1 THEN k.roll - font.height ELSE k.roll + font.height
  IN  LCD_SetScreenRoll([k EXCEPT !.roll = roll], roll)

\* A row outside 1..g_MaxRow scrolls the LCD by one text row.
Rolled(k, r) ==
  LET up   == k.roll - font.height
      down == k.roll + font.height
      roll == IF r < 1 THEN IF up < 0 THEN up + LcdHeight ELSE up
                       ELSE IF down >= LcdHeight THEN down - LcdHeight ELSE down
  IN  LCD_SetScreenRoll([k EXCEPT !.roll = roll], roll)

\* g_CurRow, g_CurCol and CURSOR_STRUCT, for a row on the screen.
Placed(k, r, c) ==
  LET x == (c - 1) * font.max_width
      y == (r - 1) * font.height + k.roll
  IN  [k EXCEPT !.row = r, !.col = c,
                !.x = IF x = LcdWidth THEN x - 1 ELSE x,
                !.y = IF y >= LcdHeight THEN y - LcdHeight ELSE y,
                !.torn = @ \/ Shown(k)]

\* Mutant: the cursor is not hidden first.
SetCursorUnhidden(k, r, c, mode) ==
  LET edge == IF r < 1 THEN 1 ELSE maxRow
  IN  SetCursorMode(IF r < 1 \/ r > maxRow
                    THEN LET at == Placed(Rolled(k, r), edge, c) IN Whiten(at, at.x, at.y)
                    ELSE Placed(k, r, c), mode)

\* Mutant: a row that scrolls in is not erased.
SetCursorUnerased(k, r, c, mode) ==
  LET hidden == SetCursorMode(k, CURSOR_MODE_HIDE)
      edge   == IF r < 1 THEN 1 ELSE maxRow
  IN  SetCursorMode(IF r < 1 \/ r > maxRow THEN Placed(Rolled(hidden, r), edge, c)
                                           ELSE Placed(hidden, r, c), mode)

SetCursor(k, r, c, mode) ==
  LET hidden == SetCursorMode(k, CURSOR_MODE_HIDE)
      edge   == IF r < 1 THEN 1 ELSE maxRow
      placed == IF r < 1 \/ r > maxRow THEN Placed(Rolled(hidden, r), edge, c)
                                       ELSE Placed(hidden, r, c)
      erased == IF r < 1 \/ r > maxRow THEN Whiten(placed, placed.x, placed.y) ELSE placed
  IN  SetCursorMode(erased, mode)

\* '\a': flash the screen with the cursor hidden.
Bell(k) ==
  LET on  == LCD_AllPixOn(SetCursorMode(k, CURSOR_MODE_HIDE), TRUE)
      off == LCD_AllPixOn(on, FALSE)
  IN  SetCursorMode(off, k.mode)

\* Mutant: backspace at the start of a line stays on the line.
BackspaceStays(k) == SetCursor(k, k.row, IF k.col > 1 THEN k.col - 1 ELSE 1, k.mode)

Backspace(k) ==
  IF k.col > 1 THEN SetCursor(k, k.row, k.col - 1, k.mode)
               ELSE SetCursor(k, k.row - 1, maxCol, k.mode)

NewLine(k) == SetCursor(k, k.row + 1, 1, k.mode)

CarriageReturn(k) == SetCursor(k, k.row, 1, k.mode)

\* Mutant: the cursor is left hidden.
PutGlyphHides(k, ch) ==
  LET at    == IF k.x = LcdWidth - 1 THEN SetCursor(k, k.row + 1, 1, CURSOR_MODE_HIDE)
                                     ELSE SetCursorMode(k, CURSOR_MODE_HIDE)
      drawn == DrawBitmap(at, at.x, at.y, ch)
      x     == drawn.x + font.max_width
  IN  [drawn EXCEPT !.x = IF x = LcdWidth THEN x - 1 ELSE x, !.col = @ + 1]

\* Mutant: the wrap does not leave the last column's mark in x.
PutGlyphUnclamped(k, ch) ==
  LET at    == IF k.x = LcdWidth THEN SetCursor(k, k.row + 1, 1, CURSOR_MODE_HIDE)
                                 ELSE SetCursorMode(k, CURSOR_MODE_HIDE)
      drawn == DrawBitmap(at, at.x, at.y, ch)
  IN  SetCursorMode([drawn EXCEPT !.x = @ + font.max_width, !.col = @ + 1], k.mode)

\* A printable character; the line wraps when the cursor is past the last column.
PutGlyph(k, ch) ==
  LET hidden == IF k.x = LcdWidth - 1 THEN SetCursor(k, k.row + 1, 1, CURSOR_MODE_HIDE)
                                      ELSE SetCursorMode(k, CURSOR_MODE_HIDE)
      drawn  == DrawBitmap(hidden, hidden.x, hidden.y, ch)
      x      == drawn.x + font.max_width
      moved  == [drawn EXCEPT !.x = IF x = LcdWidth THEN x - 1 ELSE x,
                              !.torn = @ \/ Shown(drawn),
                              !.col = @ + 1]
  IN  SetCursorMode(moved, k.mode)

fputc(k, ch) ==
  IF ch = BEL THEN Bell(k)
  ELSE IF ch = BS THEN Backspace(k)
  ELSE IF ch = LF THEN NewLine(k)
  ELSE IF ch = CR THEN CarriageReturn(k)
  ELSE PutGlyph(k, ch)

-----------------------------------------------------------------------------
(* Messages, and the calls an applet makes while it has the focus.         *)

Init ==
  /\ phase = "loaded"
  /\ font = NoFont /\ maxRow = 0 /\ maxCol = 0
  /\ con = [row |-> 0, col |-> 0, roll |-> 0, x |-> 0, y |-> 0, mode |-> CURSOR_MODE_HIDE,
            start |-> 0, pix |-> FALSE, torn |-> FALSE, ram |-> BlankRam]

MsgInit ==
  /\ phase = "loaded"
  /\ phase' = "background"
  /\ font' = SystemFont
  /\ UNCHANGED <<maxRow, maxCol, con>>

\* Every applet of the repository that uses the console clears the screen first.
MsgSetFocus ==
  /\ phase = "background"
  /\ phase' = "focus"
  /\ font' = IF TerminalFont # NoFont THEN TerminalFont ELSE font
  /\ maxCol' = LcdWidth \div 6
  /\ maxRow' = IF font'.height = 16 THEN LcdHeight \div 16 ELSE LcdHeight \div 8
  /\ con' = ClearScreen(OS3K_ClearScreen(con))

\* Mutant: the LCD is handed back scrolled.
MsgKillFocusScrolled ==
  phase = "focus" /\ phase' = "background" /\ UNCHANGED <<con, font, maxRow, maxCol>>

MsgKillFocus ==
  /\ phase = "focus"
  /\ phase' = "background"
  /\ con' = LCD_SetScreenRoll(con, 0)
  /\ UNCHANGED <<font, maxRow, maxCol>>

InFocus == phase = "focus" /\ UNCHANGED <<phase, font, maxRow, maxCol>>

CallClearScreen == InFocus /\ con' = ClearScreen(con)

CallSetCursor ==
  /\ InFocus
  /\ \E r \in 1..maxRow, c \in 1..maxCol, mode \in {CURSOR_MODE_HIDE, CURSOR_MODE_SHOW} :
       con' = SetCursor(con, r, c, mode)

CallSetCursorMode == InFocus /\ \E mode \in {CURSOR_MODE_HIDE, CURSOR_MODE_SHOW} : con' = SetCursorMode(con, mode)

CallFputc(ch) == InFocus /\ con' = fputc(con, ch)

Next ==
  \/ MsgInit \/ MsgSetFocus \/ MsgKillFocus
  \/ CallClearScreen \/ CallSetCursor \/ CallSetCursorMode
  \/ \E ch \in Chars : CallFputc(ch)

Spec == Init /\ [][Next]_vars

-----------------------------------------------------------------------------
(* What is checked.                                                        *)

ConState ==
  [row : Nat, col : Nat, roll : 0..(LcdHeight - 1), x : Nat, y : 0..(LcdHeight - 1),
   mode : {CURSOR_MODE_HIDE, CURSOR_MODE_SHOW}, start : 0..63,
   pix : BOOLEAN, torn : BOOLEAN,
   ram : [Pages -> [Columns -> Glyphs \cup {Blank}]]]

\* The type invariant of the console's variables (os3k.c lines 3-10).
TypeOK ==
  /\ phase \in {"loaded", "background", "focus"}
  /\ font \in Fonts \cup {NoFont}
  /\ maxRow \in Nat /\ maxCol \in Nat
  /\ con \in ConState

OnLcd(k) ==
  /\ k.row \in 1..maxRow
  /\ k.col \in 1..(maxCol + 1)
  /\ k.roll % font.height = 0
  /\ k.y = ((k.row - 1) * font.height + k.roll) % LcdHeight
  /\ k.y + font.height <= LcdHeight
  /\ k.x = IF k.col = maxCol + 1 THEN LcdWidth - 1 ELSE (k.col - 1) * 6

(***************************************************************************)
(* The pixel position the next glyph is drawn at is the one of the text    *)
(* position g_CurRow, g_CurCol, through every scroll and wrap, although    *)
(* fputc advances CURSOR_STRUCT->x and g_CurCol separately and decides to  *)
(* wrap on x while backspace decides on g_CurCol; a glyph row never        *)
(* straddles the end of the LCD's ring.                                    *)
(***************************************************************************)
CursorOnLcd == phase = "focus" => OnLcd(con)

(***************************************************************************)
(* The glass shows the line g_CurLcdRoll on top while the applet has the   *)
(* focus, and line 0 whenever the system has it back, although losing the  *)
(* focus resets the register and not the variable, and taking it neither.  *)
(***************************************************************************)
RollMatchesLcd == con.start = IF phase = "focus" THEN con.roll ELSE 0

\* No call moves the cursor or draws while the cursor block is shown.
NoTornCursor == ~con.torn

\* The text on the glass: window row r is the band of RAM its top line scrolled to.
Window ==
  [r \in 1..maxRow |-> con.ram[(((r - 1) * font.height + con.roll) % LcdHeight) \div 8]]

Text == INSTANCE Terminal WITH
  Rows <- TextRows,
  Cols <- TextCols,
  active <- phase = "focus",
  scr <- IF phase = "focus"
         THEN [win |-> Window, row |-> con.row, col |-> con.col]
         ELSE [win |-> [r \in 1..TextRows |-> [c \in 1..TextCols |-> Blank]],
               row |-> 1, col |-> 1]

(***************************************************************************)
(* What a user sees of a ring of LCD lines moved under a start-line        *)
(* register is a window of text that scrolls (module Terminal).            *)
(***************************************************************************)
ShowsTerminal == Text!Spec

(***************************************************************************)
(* fputc saves the cursor mode with GetCursorMode, hides the cursor to     *)
(* draw, calls SetCursor with a mode of its own, and puts the mode back.   *)
(***************************************************************************)
OutputKeepsCursorMode == [][\A ch \in Chars : CallFputc(ch) => con'.mode = con.mode]_vars

\* What a line editor prints to rub out a character.
RubOut(k) == fputc(fputc(fputc(k, BS), Blank), BS)

\* A line of n characters is typed; n characters are rubbed out.
Typed(k, line, n) ==
  LET after[i \in 0..n] == IF i = 0 THEN k ELSE fputc(after[i - 1], line[i]) IN after[n]

RubbedOut(k, n) ==
  LET after[i \in 0..n] == IF i = 0 THEN k ELSE RubOut(after[i - 1]) IN after[n]

\* The longest line that is still on the screen as a whole wherever it began:
\* a backspace from the first cell scrolls and does not come back.
LineLength == (TextRows - 1) * TextCols + 1

SameScreen(j, k) == j.ram = k.ram /\ j.roll = k.roll

(***************************************************************************)
(* Rubbing out a typed line leaves the screen as if blanks had been typed, *)
(* and typing the line again brings back the screen, the position and the  *)
(* scroll exactly, wherever on the screen the line began and however often *)
(* it wrapped, as long as it fits on the screen.                           *)
(***************************************************************************)
RubbedOutLineRetypes ==
  phase = "focus" =>
    \A n \in 1..LineLength : \A line \in [1..n -> Glyphs] :
      \E typed \in {Typed(con, line, n)} : \E erased \in {RubbedOut(typed, n)} :
        /\ SameScreen(erased, Typed(con, [i \in 1..n |-> Blank], n))
        /\ Typed(erased, line, n) = typed

=============================================================================
