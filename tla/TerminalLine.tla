---------------------------- MODULE TerminalLine ----------------------------
(***************************************************************************)
(* EhBASIC's idea of where it writes: the terminal position TPos that      *)
(* LAB_PRNA counts, and the routines that rely on it, PRINT's comma,       *)
(* TAB(, SPC( and numbers, the new line where one is needed, WIDTH, and    *)
(* the line editor, on the text window that the console shows (module      *)
(* Terminal; applets/EhBASIC/EhBASIC.asm).                                 *)
(*                                                                         *)
(* Output is a record t, and every routine an operator from a t to the t   *)
(* after the call:                                                         *)
(*                                                                         *)
(*   pos     TPos, a byte                                                  *)
(*   term    the window and its write position                             *)
(*   col     history: characters since the line began                      *)
(*   off     history: TPos went out of step since the last CR, by a        *)
(*           character that is drawn but not counted (the nulls behind a   *)
(*           CR are), a line feed or a WIDTH within a line, or a backspace *)
(*           over a place where the count started anew                     *)
(*   start   history: where the line editor began, row 0 when that is no   *)
(*           longer on the window                                          *)
(*   TWidth, TabSiz, Nullct   what the routines read of the settings of    *)
(*           WIDTH and NULL                                                *)
(***************************************************************************)
EXTENDS Integers, Sequences

CONSTANTS
  Rows, Cols,   \* the window
  MinWidth,     \* smallest WIDTH: 16
  DefaultTab,   \* TabSiz at the start: 10
  DefaultLimit, \* Iclim at the start: 30
  MaxLine,      \* characters a line holds: Ibuffe-Ibuffs-1 = 255
  Widths, Tabs, \* arguments of WIDTH, bytes
  Columns,      \* arguments of TAB( and SPC(, bytes
  Nulls,        \* arguments of NULL, bytes
  Reach         \* bound: characters of a line that PRINT writes

ASSUME TerminalLineAssumption ==
  /\ Rows \in Nat \ {0} /\ Cols \in Nat \ {0}
  /\ MinWidth \in 1..127 /\ DefaultTab \in 1..MinWidth /\ DefaultLimit \in 0..255
  /\ MaxLine \in Nat \ {0} /\ Reach \in Nat
  /\ Widths \subseteq 0..255 /\ Tabs \subseteq 0..255 /\ Columns \subseteq 0..255 /\ Nulls \subseteq 0..255

Glyph == "a"      \* any printing character
Blank == " "
CTRL  == "ctrl"   \* a character below the space that the console draws: Ctrl-C
BS == "bs"   CR == "cr"   LF == "lf"

VARIABLES
  t,      \* see above
  Iclim,  \* set by WIDTH
  stale,  \* history: WIDTH failed after it had set the width
  mode,   \* "away", "edit" (LAB_1359) or "run"
  line    \* input buffer

limit == <<Iclim, stale>>
vars == <<t, limit, mode, line>>

Window == INSTANCE Terminal WITH Glyphs <- {Glyph, CTRL}, scr <- t.term, active <- mode # "away"

Init ==
  /\ t = [pos |-> 0, term |-> Window!Home, col |-> 0, off |-> FALSE, start |-> [row |-> 0, col |-> 1],
          TWidth |-> 0, TabSiz |-> DefaultTab, Nullct |-> 0]
  /\ Iclim = DefaultLimit /\ stale = FALSE
  /\ mode = "away" /\ line = <<>>

-----------------------------------------------------------------------------
(* Characters.                                                             *)

\* The window after a character, and the start of the edited line where it is then.
ScrolledBy(s, ch) ==
  CASE ch = LF                        -> s.row = Rows
    [] ch \in {Glyph, Blank, CTRL}    -> s.col > Cols /\ s.row = Rows
    [] ch = BS                        -> s.col = 1 /\ s.row = 1
    [] OTHER                          -> FALSE

Shown(s, ch) ==
  CASE ch = LF -> Window!LineFeed(s)
    [] ch = CR -> Window!CarriageReturn(s)
    [] ch = BS -> Window!Backspace(s)
    [] OTHER   -> Window!Printed(s, ch)

\* V_OUTP, on the way to putchar.
Out(u, ch) ==
  [u EXCEPT !.term = Shown(@, ch),
            !.start.row = IF ~ScrolledBy(u.term, ch) THEN @
                          ELSE IF ch = BS \/ @ = 0 THEN 0 ELSE @ - 1]

\* What the character does to the history.
Stepped(u, ch) ==
  CASE ch = CR            -> [u EXCEPT !.col = 0, !.off = FALSE]
    [] ch = LF            -> [u EXCEPT !.col = 0, !.off = @ \/ u.pos # 0]
    [] ch = CTRL          -> [u EXCEPT !.col = @ + 1, !.off = TRUE]
    [] ch = BS            -> [u EXCEPT !.col = @ - 1, !.off = @ \/ u.col = 0 \/ (u.pos = 0 /\ u.col # 1)]
    [] OTHER              -> [u EXCEPT !.col = @ + 1]

\* Mutant: a backspace is not counted.
ControlUncounted(u, ch) ==
  Out(Stepped([u EXCEPT !.pos = IF ch = CR THEN 0 ELSE @], ch), ch)

(* The nulls that NULL asks for behind a CR, one more than it was told. They are drawn, and the
   position becomes what the loop's counter ends with. *)
Nulled(u) ==
  LET after[k \in 0..(u.Nullct + 1)] == IF k = 0 THEN u ELSE Out(Stepped(after[k - 1], CTRL), CTRL)
  IN  IF u.Nullct = 0 THEN u ELSE [after[u.Nullct + 1] EXCEPT !.pos = 255]

\* A control character: only CR and BS change the position.
Control(u, ch) ==
  LET pos == CASE ch = BS -> (u.pos - 1) % 256 [] ch = CR -> 0 [] OTHER -> u.pos
      v   == Out(Stepped([u EXCEPT !.pos = pos], ch), ch)
  IN  IF ch = CR THEN Nulled(v) ELSE v

\* LAB_CRLF.
CRLF(u) == Control(Control(u, CR), LF)

(* A printing character. On an infinite line the position counts modulo the tab size; on
   any other the line is broken when it is full. *)
Printed(u, ch) ==
  LET v == CASE u.TWidth = 0 /\ u.pos = u.TabSiz -> [u EXCEPT !.pos = 0]
             [] u.TWidth # 0 /\ u.pos = u.TWidth -> CRLF(u)
             [] OTHER                            -> u
  IN  Out(Stepped([v EXCEPT !.pos = (@ + 1) % 256], ch), ch)

PRNA(u, ch) == IF ch \in {Glyph, Blank} THEN Printed(u, ch) ELSE Control(u, ch)

\* Characters one after another, at most a byte of them.
PrintMany(u, n, ch) ==
  LET after[k \in 0..255] == IF k = 0 THEN u ELSE PRNA(after[k - 1], ch) IN after[n]

\* What is followed of a line: up to Reach characters, with a count at most one below zero.
Fits(u) == u.col \in -1..Reach /\ u.pos \in 0..Reach \cup {255}

CRLFIfNeeded(u) == IF u.pos # 0 THEN CRLF(u) ELSE u

-----------------------------------------------------------------------------
(* The line editor.                                                        *)

\* LAB_1357, behind a prompt.
Edit(u) ==
  /\ mode' = "edit" /\ line' = <<>>
  /\ t' = [u EXCEPT !.start = [row |-> u.term.row, col |-> u.term.col]]

\* LAB_1274 and LAB_INLN: "$ " on a line of its own, or "? ".
Prompted(u) == PRNA(PRNA(u, Glyph), Blank)

\* Mutant: the buffer may be full.
TypeUnbounded(ch) ==
  /\ mode = "edit" /\ (line = <<>> => ch = Glyph)
  /\ t' = PRNA(t, ch) /\ Fits(t') /\ line' = Append(line, ch)
  /\ UNCHANGED <<limit, mode>>

\* The input line starts with a character above the space. A full one only rings the bell.
Type(ch) ==
  /\ mode = "edit" /\ (line = <<>> => ch = Glyph)
  /\ IF Len(line) = MaxLine THEN UNCHANGED <<t, line>>
                            ELSE t' = PRNA(t, ch) /\ Fits(t') /\ line' = Append(line, ch)
  /\ UNCHANGED <<limit, mode>>

\* Mutant: the cursor is not taken back over the space that erases the character.
RubOutAhead ==
  /\ mode = "edit" /\ line # <<>>
  /\ t' = PRNA(PRNA(t, BS), Blank) /\ Fits(t')
  /\ line' = SubSeq(line, 1, Len(line) - 1)
  /\ UNCHANGED <<limit, mode>>

\* LAB_134B.
RubOut ==
  /\ mode = "edit" /\ line # <<>>
  /\ t' = PRNA(PRNA(PRNA(t, BS), Blank), BS) /\ Fits(t')
  /\ line' = SubSeq(line, 1, Len(line) - 1)
  /\ UNCHANGED <<limit, mode>>

\* LAB_1866. An empty command is asked for again without a prompt (LAB_127E).
Enter ==
  /\ mode = "edit"
  /\ LET u == CRLFIfNeeded(t) IN
       \/ t' = u /\ mode' = "run" /\ UNCHANGED line
       \/ line = <<>> /\ Edit(u)
  /\ UNCHANGED limit

-----------------------------------------------------------------------------
(* Statements, and the focus.                                              *)

Output(u) == mode = "run" /\ Fits(u) /\ t' = u /\ UNCHANGED <<limit, mode, line>>

\* PRINT a character of a string.
PrintChar == \E ch \in {Glyph, CTRL, BS, CR, LF} : Output(PRNA(t, ch))

\* The end of PRINT without a semicolon.
PrintEnd == Output(CRLF(t))

\* LAB_185E: a number of n characters goes on the next line when it does not fit on this one.
PrintNumber(n) ==
  Output(PrintMany(IF t.TWidth # 0 /\ (t.TWidth - n) % 256 < t.pos THEN CRLF(t) ELSE t, n, Glyph))

\* Mutant: the position is not taken modulo the tab size.
CommaFromPosition == Output(IF t.pos >= Iclim THEN CRLF(t) ELSE PrintMany(t, t.TabSiz, Blank))

\* LAB_188B: on to the next tab mark, or the next line behind the last one.
Comma ==
  Output(IF t.pos >= Iclim THEN CRLF(t) ELSE PrintMany(t, t.TabSiz - (t.pos % t.TabSiz), Blank))

\* TAB(n).
Tab(n) == Output(IF n > t.pos THEN PrintMany(t, n - t.pos, Blank) ELSE t)

\* SPC(n).
Spc(n) == Output(PrintMany(t, n, Blank))

\* An error's message, and the prompt.
ErrorPrompt(u) == Edit(Prompted(CRLFIfNeeded(PRNA(CRLFIfNeeded(u), Glyph))))

\* The program ends, or asks for input.
Prompt == mode = "run" /\ Edit(Prompted(CRLFIfNeeded(t))) /\ Fits(t') /\ UNCHANGED limit
Input  == mode = "run" /\ Edit(Prompted(t)) /\ Fits(t') /\ UNCHANGED limit

Signed(b) == IF b > 127 THEN b - 256 ELSE b

\* Mutant: a width below the tab size leaves the tab size.
TabForUnshrunk(w) == t.TabSiz

\* The tab size that goes with a new width.
TabFor(w) == IF w # 0 /\ w < t.TabSiz THEN w ELSE t.TabSiz

\* The tab size is compared with the width as a signed byte.
TabRefused(n, w) == n = 0 \/ n > 127 \/ (w # 0 /\ n > Signed(w))

\* WExit: the width less its remainder and one tab more.
LimitFor(w, n) == (w - ((w % n) + n)) % 256

\* A width or tab size that changes within a line leaves the count out of step.
Resized(w, n) == [t EXCEPT !.TWidth = w, !.TabSiz = n, !.off = @ \/ t.pos # 0]

Done(w, n) ==
  /\ t' = Resized(w, n) /\ Iclim' = LimitFor(w, n) /\ stale' = FALSE
  /\ mode' = "run" /\ UNCHANGED line

(* An error behind the comma leaves the new width and the tab size fitted to it, and the
   limit of the old ones. *)
HalfDone(w) == ErrorPrompt(Resized(w, TabFor(w))) /\ stale' = TRUE /\ UNCHANGED Iclim

Refused == ErrorPrompt(t) /\ UNCHANGED limit

WidthRefused(w) == w # 0 /\ w < MinWidth

\* WIDTH w
SetWidth(w) ==
  /\ mode = "run"
  /\ IF WidthRefused(w) THEN Refused ELSE Done(w, TabFor(w))

\* WIDTH w,n
SetWidthAndTab(w, n) ==
  /\ mode = "run"
  /\ CASE WidthRefused(w)                       -> Refused
       [] ~WidthRefused(w) /\ TabRefused(n, w)  -> HalfDone(w)
       [] OTHER                                 -> Done(w, n)

\* WIDTH ,n
SetTab(n) ==
  /\ mode = "run"
  /\ IF TabRefused(n, t.TWidth) THEN Refused ELSE Done(t.TWidth, n)

\* NULL n
SetNull(n) == mode = "run" /\ t' = [t EXCEPT !.Nullct = n] /\ UNCHANGED <<limit, mode, line>>

\* MSG_SETFOCUS: a clear screen, and EhBASIC_Resume's greeting; TPos is what it was.
SetFocus ==
  /\ mode = "away"
  /\ LET clear == [t EXCEPT !.term = Window!Home, !.col = 0, !.off = @ \/ t.pos # 0]
     IN  Edit(Prompted(CRLF(CRLF(PRNA(clear, Glyph)))))
  /\ UNCHANGED limit

\* The key that shows the applets menu.
Leave == mode # "away" /\ mode' = "away" /\ UNCHANGED <<t, limit, line>>

Next ==
  \/ \E ch \in {Glyph, Blank, CTRL} : Type(ch)
  \/ RubOut \/ Enter
  \/ PrintChar \/ PrintEnd \/ Comma \/ Prompt \/ Input
  \/ PrintNumber(MinWidth)
  \/ \E n \in Columns : Tab(n) \/ Spc(n)
  \/ \E w \in Widths : SetWidth(w) \/ \E n \in Tabs : SetWidthAndTab(w, n)
  \/ \E n \in Tabs : SetTab(n)
  \/ \E n \in Nulls : SetNull(n)
  \/ SetFocus \/ Leave

Spec == Init /\ [][Next]_vars

-----------------------------------------------------------------------------
(* What is checked.                                                        *)

\* The type invariant of the terminal position and of WIDTH's settings.
TypeOK ==
  /\ t.pos \in 0..255 /\ t.col \in Int /\ t.off \in BOOLEAN
  /\ t.term.row \in 1..Rows /\ t.term.col \in 1..(Cols + 1)
  /\ t.start \in [row : 0..Rows, col : 1..(Cols + 1)]
  /\ t.TWidth \in 0..255 /\ t.TabSiz \in 1..127 /\ t.Nullct \in 0..255
  /\ Iclim \in 0..255 /\ stale \in BOOLEAN /\ mode \in {"away", "edit", "run"}
  /\ line \in Seq({Glyph, Blank, CTRL}) /\ Len(line) <= MaxLine

(***************************************************************************)
(* TPos says how far the line has come, on an infinite line modulo the tab *)
(* size, and it is zero in the first column only: "POS(n) will return      *)
(* position MOD tabsize" (line 3672), "check if at first column" (1906).   *)
(***************************************************************************)
PositionCounts ==
  ~t.off => /\ (t.pos = 0) = (t.col = 0)
            /\ IF t.TWidth = 0 THEN t.pos % t.TabSiz = t.col % t.TabSiz ELSE t.pos = t.col

(***************************************************************************)
(* The window shows the line that is in the input buffer, behind its       *)
(* prompt, and the cursor behind it, through typing, rubbing out and the   *)
(* window's own wraps and scrolls, as long as its start is on the window;  *)
(* on a line without WIDTH, which breaks lines by itself.                  *)
(***************************************************************************)
Place(row, col) == (row - 1) * Cols + col - 1
CellAt(p) == t.term.win[(p \div Cols) + 1][(p % Cols) + 1]

EchoIsLine ==
  mode = "edit" /\ t.TWidth = 0 /\ t.start.row > 0 =>
    LET first == Place(t.start.row, t.start.col)
    IN  /\ Place(t.term.row, t.term.col) = first + Len(line)
        /\ \A i \in DOMAIN line : CellAt(first + i - 1) = line[i]

(***************************************************************************)
(* WIDTH cannot leave "the tab size greater than the line length", not     *)
(* "via an error" either (lines 7289-7290).                                *)
(***************************************************************************)
TabFitsWidth == t.TWidth # 0 => t.TabSiz <= t.TWidth

(***************************************************************************)
(* A comma in PRINT goes to a tab mark, and on a line with a width to one  *)
(* with "at least one whole tab width between it and the end of the line"  *)
(* (lines 7321-7323), or to the next line.                                 *)
(***************************************************************************)
CommaAligns ==
  [][Comma /\ ~t.off /\ ~stale =>
       /\ t'.col % t.TabSiz = 0
       /\ t.TWidth # 0 => t'.col + t.TabSiz <= t.TWidth]_vars

(***************************************************************************)
(* What the program prints starts on a new line after Enter: the editor    *)
(* "check[s] if at first column" (line 1906) and prints CR and LF if not.  *)
(***************************************************************************)
EnterStartsLine == [][Enter => t'.term.col = 1]_vars

=============================================================================
