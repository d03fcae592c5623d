---------------------------- MODULE ConsoleProofs ----------------------------
(***************************************************************************)
(* The console's invariants, for every LCD size and font.                  *)
(*                                                                         *)
(* Neither the type of y nor CursorOnLcd is inductive alone: y stays on    *)
(* the LCD because the text position does, and the text position fits      *)
(* because g_MaxRow and g_MaxCol are those of the focus font.  IInv joins  *)
(* them with the register and the cursor mode, and every function of       *)
(* os3k.c is shown to keep Good, the part of IInv about the console state. *)
(*                                                                         *)
(* The second part is the refinement of module Terminal: Glass(k) is what  *)
(* the glass shows of a good console k, text rows lie on LCD pages of      *)
(* their own wherever the ring is rolled to, and so every function of      *)
(* os3k.c does to Glass(k) what its namesake in Terminal does.             *)
(*                                                                         *)
(* The third part is about lines: the cells of the glass are numbered, and *)
(* induction over the keys says what is in every cell after a line was     *)
(* typed, rubbed out and typed again.  It needs one more invariant, Twin:  *)
(* the pages of a text row hold the same, so that the glass tells the RAM. *)
(***************************************************************************)
EXTENDS Console, WellFoundedInduction, TLAPS

\* What MSG_SETFOCUS establishes for as long as the applet has the focus.
Sized == font = FocusFont /\ maxRow = TextRows /\ maxCol = TextCols

Good(k) == k \in ConState /\ OnLcd(k) /\ ~k.torn /\ k.start = k.roll

IInv ==
  /\ phase \in {"loaded", "background", "focus"}
  /\ maxRow \in Nat /\ maxCol \in Nat
  /\ font \in Fonts \cup {NoFont}
  /\ phase # "loaded" => font \in {SystemFont, FocusFont}
  /\ phase = "focus" => Sized /\ Good(con)
  /\ con \in ConState /\ ~con.torn
  /\ phase # "focus" => con.start = 0

-----------------------------------------------------------------------------

\* The sizes of the focus font: an exact number of rows and of columns.
LEMMA Sizes ==
  /\ FocusFont \in Fonts
  /\ LcdHeight \in 1..64 /\ LcdWidth \in Nat
  /\ TextRows \in Nat /\ TextRows >= 1 /\ TextCols \in Nat /\ TextCols >= 1
  /\ LcdHeight = FocusFont.height * TextRows
  /\ LcdWidth = 6 * TextCols
  /\ FocusFont.max_width = 6
<1>1. FocusFont \in Fonts
  BY ConsoleAssumption DEF FocusFont
<1>2. FocusFont.height \in {8, 16} /\ FocusFont.max_width = 6
  BY <1>1 DEF Fonts
<1>3. LcdHeight \in 1..64 /\ LcdHeight % FocusFont.height = 0
  BY ConsoleAssumption
<1>4. LcdHeight = FocusFont.height * TextRows /\ TextRows \in Nat /\ TextRows >= 1
  <2>1. CASE FocusFont.height = 8
    BY <2>1, <1>3 DEF TextRows
  <2>2. CASE FocusFont.height = 16
    BY <2>2, <1>3 DEF TextRows
  <2> QED BY <1>2, <2>1, <2>2
<1>5. LcdWidth = 6 * TextCols /\ TextCols \in Nat /\ TextCols >= 1
  BY ConsoleAssumption DEF TextCols
<1> QED BY <1>1, <1>2, <1>3, <1>4, <1>5

\* A line at most one ring below the top of the LCD wraps by one subtraction.
LEMMA WrapOnce ==
  ASSUME NEW h \in 1..64, NEW a \in 0..(2 * h - 1)
  PROVE  a % h = IF a >= h THEN a - h ELSE a
  OBVIOUS

\* One step of h lines up or down a ring of a whole number of such steps.
LEMMA RollStep ==
  ASSUME NEW h \in {8, 16}, NEW n \in 1..64, n % h = 0,
         NEW a \in 0..(n - 1), a % h = 0
  PROVE  /\ a + h <= n
         /\ LET up == IF a - h < 0 THEN a - h + n ELSE a - h
            IN  up \in 0..(n - 1) /\ up % h = 0
         /\ LET down == IF a + h >= n THEN a + h - n ELSE a + h
            IN  down \in 0..(n - 1) /\ down % h = 0
<1>1. CASE h = 8
  <2>1. n % 8 = 0 /\ a % 8 = 0
    BY <1>1
  <2>2. a + 8 <= n
    BY <2>1
  <2>3. (a + 8) % 8 = 0 /\ (a + 8 - n) % 8 = 0 /\ (a - 8) % 8 = 0 /\ (a - 8 + n) % 8 = 0
    BY <2>1
  <2> QED BY <1>1, <2>2, <2>3
<1>2. CASE h = 16
  <2>1. n % 16 = 0 /\ a % 16 = 0
    BY <1>2
  <2>2. a + 16 <= n
    BY <2>1
  <2>3. (a + 16) % 16 = 0 /\ (a + 16 - n) % 16 = 0 /\ (a - 16) % 16 = 0 /\ (a - 16 + n) % 16 = 0
    BY <2>1
  <2> QED BY <1>2, <2>2, <2>3
<1> QED BY <1>1, <1>2

-----------------------------------------------------------------------------
(* Every function of os3k.c keeps Good.                                    *)

\* Changing the mode of a good console leaves it good.
LEMMA ModeGood ==
  ASSUME NEW k, Good(k), NEW mode \in {CURSOR_MODE_HIDE, CURSOR_MODE_SHOW}
  PROVE  /\ Good(SetCursorMode(k, mode)) /\ ~Shown(SetCursorMode(k, CURSOR_MODE_HIDE))
         /\ SetCursorMode(k, mode).mode = mode /\ SetCursorMode(k, mode).col = k.col
  BY DEF Good, ConState, OnLcd, SetCursorMode, Shown, CURSOR_MODE_HIDE, CURSOR_MODE_SHOW

\* Writing RAM with the cursor hidden.
LEMMA DrawGood ==
  ASSUME NEW k, Good(k), ~Shown(k), NEW x, NEW y, NEW ch \in Glyphs \cup {Blank}
  PROVE  LET d == DrawBitmap(k, x, y, ch) IN
         /\ Good(d) /\ ~Shown(d)
         /\ d.x = k.x /\ d.col = k.col /\ d.row = k.row
<1> DEFINE ram == [p \in Pages |-> IF p \in Band(y) THEN [k.ram[p] EXCEPT ![x \div 6 + 1] = ch]
                                                   ELSE k.ram[p]]
<1>1. ram \in [Pages -> [Columns -> Glyphs \cup {Blank}]]
  BY DEF Good, ConState
<1>2. DrawBitmap(k, x, y, ch) = [k EXCEPT !.torn = k.torn \/ Shown(k), !.ram = ram]
  BY DEF DrawBitmap
<1> HIDE DEF ram
<1> QED BY <1>1, <1>2 DEF Good, ConState, OnLcd, Shown

LEMMA WhitenGood ==
  ASSUME NEW k, Good(k), ~Shown(k), NEW x, NEW y
  PROVE  Good(Whiten(k, x, y)) /\ Whiten(k, x, y).col = k.col
<1> DEFINE ram == [p \in Pages |-> [c \in Columns |->
                     IF p \in Band(y) /\ c > x \div 6 THEN Blank ELSE k.ram[p][c]]]
<1>1. ram \in [Pages -> [Columns -> Glyphs \cup {Blank}]]
  BY DEF Good, ConState
<1>2. Whiten(k, x, y) = [k EXCEPT !.torn = k.torn \/ Shown(k), !.ram = ram]
  BY DEF Whiten
<1> HIDE DEF ram
<1> QED BY <1>1, <1>2 DEF Good, ConState, OnLcd

\* A console whose scroll is good, wherever its cursor is.
RollGood(k) ==
  /\ k \in ConState /\ ~k.torn /\ ~Shown(k)
  /\ k.start = k.roll /\ k.roll % font.height = 0

LEMMA RolledGood ==
  ASSUME Sized, NEW k, RollGood(k), NEW r \in Nat
  PROVE  RollGood(Rolled(k, r))
<1> DEFINE h    == font.height
           up   == k.roll - font.height
           down == k.roll + font.height
           roll == IF r < 1 THEN IF up < 0 THEN up + LcdHeight ELSE up
                            ELSE IF down >= LcdHeight THEN down - LcdHeight ELSE down
<1>1. h \in {8, 16} /\ LcdHeight \in 1..64 /\ LcdHeight % h = 0
  BY Sizes, ConsoleAssumption DEF Sized, Fonts
<1>2. k.roll \in 0..(LcdHeight - 1) /\ k.roll % h = 0
  BY DEF RollGood, ConState
<1>3. roll \in 0..(LcdHeight - 1) /\ roll % h = 0
  <2> HIDE DEF h
  <2>1. up = k.roll - h /\ down = k.roll + h
    BY DEF h
  <2> HIDE DEF up, down
  <2>2. CASE r < 1
    <3>1. roll = IF k.roll - h < 0 THEN k.roll - h + LcdHeight ELSE k.roll - h
      BY <2>1, <2>2
    <3> HIDE DEF roll
    <3> QED BY <1>1, <1>2, <3>1, RollStep
  <2>3. CASE ~(r < 1)
    <3>1. roll = IF k.roll + h >= LcdHeight THEN k.roll + h - LcdHeight ELSE k.roll + h
      BY <1>1, <1>2, <2>1, <2>3
    <3> HIDE DEF roll
    <3> QED BY <1>1, <1>2, <3>1, RollStep
  <2> QED BY <2>2, <2>3
<1>4. Rolled(k, r) = [k EXCEPT !.roll = roll, !.start = roll]
  <2>1. roll % 64 = roll
    <3> HIDE DEF roll
    <3> QED BY <1>1, <1>3
  <2>2. Rolled(k, r) = LCD_SetScreenRoll([k EXCEPT !.roll = roll], roll)
    BY DEF Rolled
  <2> HIDE DEF roll
  <2> QED BY <2>1, <2>2 DEF LCD_SetScreenRoll, RollGood, ConState
<1> HIDE DEF roll
<1>5. roll \in 0..63 /\ roll % font.height = 0
  BY <1>1, <1>3
<1> QED BY <1>3, <1>4, <1>5 DEF RollGood, ConState, Shown

\* A text position on the screen is a place on the LCD.
LEMMA PlacedGood ==
  ASSUME Sized, NEW k, RollGood(k), NEW r \in 1..maxRow, NEW c \in 1..maxCol
  PROVE  Good(Placed(k, r, c)) /\ ~Shown(Placed(k, r, c)) /\ Placed(k, r, c).col = c
<1> DEFINE h == font.height
           y == (r - 1) * h + k.roll
<1>1. /\ h \in {8, 16} /\ LcdHeight \in 1..64 /\ LcdHeight = h * maxRow /\ maxRow \in Nat
      /\ font.max_width = 6 /\ LcdWidth = 6 * maxCol /\ maxCol \in Nat
  BY Sizes DEF Sized, Fonts
<1>2. k.roll \in 0..(LcdHeight - 1) /\ k.roll % h = 0
  BY DEF RollGood, ConState
<1>3. /\ y \in 0..(2 * LcdHeight - 1)
      /\ LET w == IF y >= LcdHeight THEN y - LcdHeight ELSE y
         IN  w \in 0..(LcdHeight - 1) /\ w + h <= LcdHeight
  <2>1. CASE h = 8
    BY <1>1, <1>2, <2>1
  <2>2. CASE h = 16
    BY <1>1, <1>2, <2>2
  <2> QED BY <1>1, <2>1, <2>2
<1>4. (IF y >= LcdHeight THEN y - LcdHeight ELSE y) = y % LcdHeight
  BY <1>1, <1>3, WrapOnce
<1>5. (c - 1) * 6 # LcdWidth /\ (c - 1) * 6 \in Nat /\ c \in 1..(maxCol + 1) /\ c # maxCol + 1
  BY <1>1
<1>6. Placed(k, r, c) = [k EXCEPT !.row = r, !.col = c, !.x = (c - 1) * 6,
                                  !.y = y % LcdHeight, !.torn = k.torn \/ Shown(k)]
  BY <1>1, <1>4, <1>5 DEF Placed
<1>7. y % LcdHeight \in 0..(LcdHeight - 1) /\ (y % LcdHeight) + h <= LcdHeight
  BY <1>3, <1>4
<1> DEFINE p == Placed(k, r, c)
<1>8. /\ p \in ConState /\ p.row = r /\ p.col = c /\ p.x = (c - 1) * 6
      /\ p.y = y % LcdHeight /\ p.roll = k.roll /\ p.start = k.roll
      /\ ~p.torn /\ ~Shown(p)
  <2>1. r \in Nat /\ c \in Nat
    BY <1>1
  <2> HIDE DEF y
  <2> QED BY <2>1, <1>5, <1>6, <1>7 DEF RollGood, ConState, Shown
<1>9. OnLcd(p)
  <2> HIDE DEF p
  <2> QED BY <1>2, <1>5, <1>7, <1>8 DEF OnLcd
<1> QED BY <1>8, <1>9 DEF Good

\* SetCursor keeps the geometry, also when its row scrolls the screen.
LEMMA SetCursorGood ==
  ASSUME Sized, NEW k, k \in ConState, ~k.torn, k.start = k.roll, k.roll % font.height = 0,
         NEW r \in 0..(maxRow + 1), NEW c \in 1..maxCol,
         NEW mode \in {CURSOR_MODE_HIDE, CURSOR_MODE_SHOW}
  PROVE  LET s == SetCursor(k, r, c, mode) IN Good(s) /\ s.mode = mode /\ s.col = c
<1> DEFINE hidden == SetCursorMode(k, CURSOR_MODE_HIDE)
           edge   == IF r < 1 THEN 1 ELSE maxRow
<1>1. RollGood(hidden)
  BY DEF RollGood, ConState, SetCursorMode, Shown, CURSOR_MODE_HIDE, CURSOR_MODE_SHOW
<1>2. maxRow \in Nat /\ maxRow >= 1 /\ maxCol \in Nat /\ r \in Nat
  BY Sizes DEF Sized
<1>3. CASE r < 1 \/ r > maxRow
  <2> DEFINE placed == Placed(Rolled(hidden, r), edge, c)
  <2>1. RollGood(Rolled(hidden, r))
    BY <1>1, <1>2, RolledGood
  <2>2. edge \in 1..maxRow
    BY <1>2
  <2>3. Good(placed) /\ ~Shown(placed) /\ placed.col = c
    BY <2>1, <2>2, PlacedGood
  <2>4. SetCursor(k, r, c, mode) = SetCursorMode(Whiten(placed, placed.x, placed.y), mode)
    BY <1>3 DEF SetCursor
  <2> HIDE DEF placed
  <2>5. Good(Whiten(placed, placed.x, placed.y)) /\ Whiten(placed, placed.x, placed.y).col = c
    BY <2>3, WhitenGood
  <2> QED BY <2>4, <2>5, ModeGood
<1>4. CASE r \in 1..maxRow
  <2> DEFINE placed == Placed(hidden, r, c)
  <2>1. Good(placed) /\ placed.col = c
    BY <1>1, <1>4, PlacedGood
  <2>2. SetCursor(k, r, c, mode) = SetCursorMode(placed, mode)
    BY <1>2, <1>4 DEF SetCursor
  <2> QED BY <2>1, <2>2, ModeGood
<1> QED BY <1>2, <1>3, <1>4

\* A good console meets SetCursor's precondition and has a cursor mode to restore.
LEMMA GoodFacts ==
  ASSUME NEW k, Good(k)
  PROVE  /\ k \in ConState /\ ~k.torn /\ k.start = k.roll /\ k.roll % font.height = 0
         /\ k.row \in 1..maxRow /\ k.col \in 1..(maxCol + 1)
         /\ k.mode \in {CURSOR_MODE_HIDE, CURSOR_MODE_SHOW}
  BY DEF Good, OnLcd, ConState

LEMMA BellGood ==
  ASSUME NEW k, Good(k)
  PROVE  Good(Bell(k))
  BY DEF Bell, LCD_AllPixOn, SetCursorMode, Good, OnLcd, ConState

\* A glyph is drawn at the cursor, which then marks the end of a full line.
LEMMA PutGlyphGood ==
  ASSUME Sized, NEW k, Good(k), NEW ch \in Glyphs \cup {Blank}
  PROVE  Good(PutGlyph(k, ch))
<1> DEFINE hidden == IF k.x = LcdWidth - 1 THEN SetCursor(k, k.row + 1, 1, CURSOR_MODE_HIDE)
                                           ELSE SetCursorMode(k, CURSOR_MODE_HIDE)
           drawn  == DrawBitmap(hidden, hidden.x, hidden.y, ch)
           x      == drawn.x + font.max_width
           moved  == [drawn EXCEPT !.x = IF x = LcdWidth THEN x - 1 ELSE x,
                                   !.torn = drawn.torn \/ Shown(drawn),
                                   !.col = drawn.col + 1]
<1>1. /\ maxRow \in Nat /\ maxRow >= 1 /\ maxCol \in Nat /\ maxCol >= 1
      /\ LcdWidth = 6 * maxCol /\ font.max_width = 6
  BY Sizes DEF Sized
<1>2. Good(hidden) /\ ~Shown(hidden) /\ hidden.col \in 1..maxCol
  <2>1. CASE k.x = LcdWidth - 1
    <3>1. k.row + 1 \in 0..(maxRow + 1) /\ 1 \in 1..maxCol
      BY <1>1, GoodFacts
    <3>2. hidden = SetCursor(k, k.row + 1, 1, CURSOR_MODE_HIDE)
      BY <2>1
    <3>3. Good(hidden) /\ hidden.mode = CURSOR_MODE_HIDE /\ hidden.col = 1
      BY <3>1, <3>2, GoodFacts, SetCursorGood
    <3> QED BY <1>1, <3>3 DEF Shown, CURSOR_MODE_HIDE, CURSOR_MODE_SHOW
  <2>2. CASE k.x # LcdWidth - 1
    <3>1. hidden = SetCursorMode(k, CURSOR_MODE_HIDE)
      BY <2>2
    <3>2. k.col \in 1..maxCol
      BY <1>1, <2>2 DEF Good, OnLcd
    <3>3. hidden.col = k.col
      BY <3>1 DEF SetCursorMode, Good, ConState
    <3> QED BY <3>1, <3>2, <3>3, ModeGood
  <2> QED BY <2>1, <2>2
<1> HIDE DEF hidden
<1>3. Good(drawn) /\ ~Shown(drawn) /\ drawn.x = hidden.x /\ drawn.col = hidden.col
  BY <1>2, DrawGood
<1> HIDE DEF drawn
<1>4. drawn.x = (drawn.col - 1) * 6 /\ drawn.col \in 1..maxCol /\ drawn \in ConState
  BY <1>1, <1>2, <1>3 DEF Good, OnLcd
<1>5. moved = [drawn EXCEPT !.x = IF x = LcdWidth THEN x - 1 ELSE x, !.torn = FALSE,
                            !.col = drawn.col + 1]
  BY <1>3 DEF Good, ConState
<1>6. (IF x = LcdWidth THEN x - 1 ELSE x) =
        IF drawn.col + 1 = maxCol + 1 THEN LcdWidth - 1 ELSE (drawn.col + 1 - 1) * 6
  BY <1>1, <1>4
<1>7. Good(moved)
  <2>1. moved \in ConState /\ ~moved.torn /\ moved.start = moved.roll
    <3> DEFINE nx == IF x = LcdWidth THEN x - 1 ELSE x
    <3>1. nx \in Nat /\ drawn.col + 1 \in Nat
      BY <1>1, <1>4
    <3> HIDE DEF nx
    <3>2. moved = [drawn EXCEPT !.x = nx, !.torn = FALSE, !.col = drawn.col + 1]
      BY <1>5 DEF nx
    <3> QED BY <1>3, <3>1, <3>2 DEF Good, ConState
  <2>2. OnLcd(moved)
    BY <1>1, <1>3, <1>4, <1>5, <1>6 DEF Good, OnLcd, ConState
  <2> QED BY <2>1, <2>2 DEF Good
<1>8. PutGlyph(k, ch) = SetCursorMode(moved, k.mode)
  BY DEF PutGlyph, hidden, drawn
<1> QED BY <1>7, <1>8, GoodFacts, ModeGood

\* Whatever is printed, the console stays good.
LEMMA fputcGood ==
  ASSUME Sized, NEW k, Good(k), NEW ch \in Chars
  PROVE  Good(fputc(k, ch))
<1>1. maxRow \in Nat /\ maxCol \in Nat /\ maxCol >= 1
  BY Sizes DEF Sized
<1>2. k.row \in 1..maxRow /\ k.col \in 1..(maxCol + 1)
  BY GoodFacts
<1>3. ASSUME NEW r \in 0..(maxRow + 1), NEW c \in 1..maxCol
      PROVE  Good(SetCursor(k, r, c, k.mode))
  BY GoodFacts, SetCursorGood
<1>4. Good(Backspace(k))
  <2>1. CASE k.col > 1
    BY <1>1, <1>2, <1>3, <2>1 DEF Backspace
  <2>2. CASE ~(k.col > 1)
    BY <1>1, <1>2, <1>3, <2>2 DEF Backspace
  <2> QED BY <2>1, <2>2
<1>5. Good(NewLine(k))
  BY <1>1, <1>2, <1>3 DEF NewLine
<1>6. Good(CarriageReturn(k))
  BY <1>1, <1>2, <1>3 DEF CarriageReturn
<1>7. Good(Bell(k))
  BY BellGood
<1>8. ch \notin {BEL, BS, LF, CR} => Good(PutGlyph(k, ch))
  BY PutGlyphGood DEF Chars
<1> QED BY <1>4, <1>5, <1>6, <1>7, <1>8 DEF fputc

\* A cleared screen has the cursor at its home, unscrolled.
LEMMA ClearScreenHome ==
  ASSUME NEW k, k \in ConState, ~k.torn
  PROVE  LET c == ClearScreen(k) IN
         /\ c \in ConState /\ ~c.torn
         /\ c.row = 1 /\ c.col = 1 /\ c.x = 0 /\ c.y = 0 /\ c.roll = 0 /\ c.start = 0
<1>1. 0 \in 0..(LcdHeight - 1) /\ 0 \in 0..63 /\ 0 \in Nat /\ 1 \in Nat
  BY Sizes
<1>2. BlankRam \in [Pages -> [Columns -> Glyphs \cup {Blank}]]
  BY DEF BlankRam
<1>3. ClearScreen(k) = [k EXCEPT !.ram = BlankRam, !.x = 0, !.y = 0, !.row = 1, !.col = 1,
                                 !.roll = 0, !.start = 0]
  BY DEF ClearScreen, OS3K_ClearScreen, LCD_SetScreenRoll, ConState
<1> QED BY <1>1, <1>2, <1>3 DEF ConState

\* The home position is on the LCD, whatever the focus font.
LEMMA HomeOnLcd ==
  /\ 1 \in 1..TextRows /\ 1 \in 1..(TextCols + 1) /\ TextCols + 1 # 1
  /\ 0 % FocusFont.height = 0
  /\ 0 = ((1 - 1) * FocusFont.height + 0) % LcdHeight
  /\ 0 + FocusFont.height <= LcdHeight
  /\ 0 = (1 - 1) * 6
<1>1. FocusFont.height \in {8, 16}
  BY Sizes DEF Fonts
<1>2. CASE FocusFont.height = 8
  BY <1>2, Sizes
<1>3. CASE FocusFont.height = 16
  BY <1>3, Sizes
<1> QED BY <1>1, <1>2, <1>3

LEMMA ClearScreenGood ==
  ASSUME Sized, NEW k, k \in ConState, ~k.torn
  PROVE  Good(ClearScreen(k))
  BY ClearScreenHome, HomeOnLcd DEF Sized, Good, OnLcd

-----------------------------------------------------------------------------
(* The inductive invariant.                                                *)

LEMMA InitInv == Init => IInv
<1> SUFFICES ASSUME Init PROVE IInv
  OBVIOUS
<1>1. LcdHeight \in 1..64
  BY Sizes
<1>2. BlankRam \in [Pages -> [Columns -> Glyphs \cup {Blank}]]
  BY DEF BlankRam
<1> QED BY <1>1, <1>2 DEF Init, IInv, ConState, CURSOR_MODE_HIDE, CURSOR_MODE_SHOW

LEMMA NextInv == IInv /\ [Next]_vars => IInv'
<1> SUFFICES ASSUME IInv, [Next]_vars PROVE IInv'
  OBVIOUS
<1>1. CASE MsgInit
  BY <1>1, ConsoleAssumption DEF IInv, MsgInit
<1>2. CASE MsgSetFocus
  <2>1. OS3K_ClearScreen(con) \in ConState /\ ~OS3K_ClearScreen(con).torn
    <3>1. 0 \in 0..(LcdHeight - 1) /\ 0 \in Nat
      BY Sizes
    <3>2. BlankRam \in [Pages -> [Columns -> Glyphs \cup {Blank}]]
      BY DEF BlankRam
    <3> QED BY <3>1, <3>2 DEF IInv, OS3K_ClearScreen, ConState
  <2>2. Sized'
    <3>1. font' = FocusFont
      BY <1>2 DEF MsgSetFocus, IInv, FocusFont
    <3>2. maxRow' = TextRows
      BY <1>2, <3>1, Sizes DEF MsgSetFocus, TextRows, Fonts
    <3> QED BY <1>2, <3>1, <3>2 DEF Sized, MsgSetFocus, TextCols
  <2>3. con' = ClearScreen(OS3K_ClearScreen(con))
    BY <1>2 DEF MsgSetFocus
  <2>4. /\ con' \in ConState /\ ~con'.torn /\ con'.row = 1 /\ con'.col = 1
        /\ con'.x = 0 /\ con'.y = 0 /\ con'.roll = 0 /\ con'.start = 0
    BY <2>1, <2>3, ClearScreenHome
  <2>5. Good(con)'
    BY <2>2, <2>4, HomeOnLcd DEF Sized, Good, OnLcd
  <2>6. phase' = "focus"
    BY <1>2 DEF MsgSetFocus
  <2> QED BY <2>2, <2>4, <2>5, <2>6, Sizes DEF IInv, Sized
<1>3. CASE MsgKillFocus
  BY <1>3, Sizes DEF IInv, MsgKillFocus, LCD_SetScreenRoll, ConState
<1>4. ASSUME InFocus, Good(con') PROVE IInv'
  BY <1>4 DEF IInv, InFocus, Sized, Good, OnLcd
<1>5. CASE CallClearScreen
  BY <1>4, <1>5, ClearScreenGood DEF CallClearScreen, InFocus, IInv
<1>6. CASE CallSetCursor
  <2>1. PICK r \in 1..maxRow, c \in 1..maxCol, mode \in {CURSOR_MODE_HIDE, CURSOR_MODE_SHOW} :
          con' = SetCursor(con, r, c, mode)
    BY <1>6 DEF CallSetCursor
  <2>2. Sized /\ Good(con) /\ r \in 0..(maxRow + 1)
    BY <1>6, Sizes DEF IInv, CallSetCursor, InFocus, Sized
  <2>3. Good(con')
    BY <2>1, <2>2, GoodFacts, SetCursorGood
  <2> QED BY <1>4, <1>6, <2>3 DEF CallSetCursor
<1>7. CASE CallSetCursorMode
  BY <1>4, <1>7, ModeGood DEF CallSetCursorMode, InFocus, IInv
<1>8. ASSUME NEW ch \in Chars, CallFputc(ch) PROVE IInv'
  BY <1>4, <1>8, fputcGood DEF CallFputc, InFocus, IInv
<1>9. CASE UNCHANGED vars
  BY <1>9 DEF IInv, vars, Sized, Good, OnLcd
<1> QED BY <1>1, <1>2, <1>3, <1>5, <1>6, <1>7, <1>8, <1>9 DEF Next

THEOREM Invariance == Spec => []IInv
  BY InitInv, NextInv, PTL DEF Spec

\* The console's variables stay of their types, for every LCD and font.
THEOREM TypeCorrect == Spec => []TypeOK
<1>1. IInv => TypeOK
  BY DEF IInv, TypeOK
<1> QED BY <1>1, Invariance, PTL

\* The place glyphs are drawn at follows the text position through every scroll.
THEOREM CursorStaysOnLcd == Spec => []CursorOnLcd
<1>1. IInv => CursorOnLcd
  BY DEF IInv, CursorOnLcd, Good
<1> QED BY <1>1, Invariance, PTL

\* The start-line register agrees with the scroll, and is 0 without the focus.
THEOREM RollAlwaysMatchesLcd == Spec => []RollMatchesLcd
<1>1. IInv => RollMatchesLcd
  BY DEF IInv, RollMatchesLcd, Good
<1> QED BY <1>1, Invariance, PTL

\* Nothing is drawn over a shown cursor block.
THEOREM CursorNeverTorn == Spec => []NoTornCursor
<1>1. IInv => NoTornCursor
  BY DEF IInv, NoTornCursor
<1> QED BY <1>1, Invariance, PTL

-----------------------------------------------------------------------------
(* Text on the glass: the rows of the window on the ring of LCD lines.     *)

\* The LCD line that text row r starts on, on a screen that starts on line roll.
Top(roll, r) == ((r - 1) * font.height + roll) % LcdHeight

\* What the glass shows of a console state, as module Terminal sees it.
Win(k)   == [r \in 1..maxRow |-> k.ram[Top(k.roll, r) \div 8]]
Glass(k) == [win |-> Win(k), row |-> k.row, col |-> k.col]

\* Rows of a ring of n lines, h lines each, are apart by multiples of h.
LEMMA RingRows ==
  ASSUME NEW h \in {8, 16}, NEW rows \in Nat, rows >= 1, NEW n \in 1..64, n = h * rows,
         NEW roll \in 0..(n - 1), roll % h = 0,
         NEW r \in 1..rows, NEW s \in 1..rows
  PROVE  LET R == ((r - 1) * h + roll) % n
             S == ((s - 1) * h + roll) % n
         IN  /\ R = IF (r - 1) * h + roll >= n THEN (r - 1) * h + roll - n ELSE (r - 1) * h + roll
             /\ R \div 8 \in 0..(n \div 8 - 1) /\ 8 * (R \div 8) = R
             /\ (R <= S /\ S < R + h) <=> r = s
<1> DEFINE a == (r - 1) * h + roll
           b == (s - 1) * h + roll
           R == a % n
           S == b % n
<1>1. CASE h = 8
  <2>1. a \in 0..(2 * n - 1) /\ b \in 0..(2 * n - 1) /\ a % 8 = 0 /\ b % 8 = 0 /\ n % 8 = 0
    BY <1>1
  <2>2. a - b = 8 * (r - s) /\ n = 8 * rows
    BY <1>1
  <2> HIDE DEF a, b
  <2>3. R = (IF a >= n THEN a - n ELSE a) /\ S = (IF b >= n THEN b - n ELSE b)
    BY <2>1, WrapOnce
  <2> HIDE DEF R, S
  <2>4. R \div 8 \in 0..(n \div 8 - 1) /\ 8 * (R \div 8) = R
    BY <2>1, <2>3
  <2>5. (R <= S /\ S < R + 8) <=> r = s
    BY <2>1, <2>2, <2>3
  <2> QED BY <1>1, <2>3, <2>4, <2>5 DEF a, b, R, S
<1>2. CASE h = 16
  <2>1. /\ a \in 0..(2 * n - 1) /\ b \in 0..(2 * n - 1)
        /\ a % 16 = 0 /\ b % 16 = 0 /\ n % 16 = 0
    BY <1>2
  <2>2. a - b = 16 * (r - s) /\ n = 16 * rows
    BY <1>2
  <2> HIDE DEF a, b
  <2>3. R = (IF a >= n THEN a - n ELSE a) /\ S = (IF b >= n THEN b - n ELSE b)
    BY <2>1, WrapOnce
  <2> HIDE DEF R, S
  <2>4. R \div 8 \in 0..(n \div 8 - 1) /\ 8 * (R \div 8) = R
    BY <2>1, <2>3
  <2>5. (R <= S /\ S < R + 16) <=> r = s
    BY <2>1, <2>2, <2>3
  <2> QED BY <1>2, <2>3, <2>4, <2>5 DEF a, b, R, S
<1> QED BY <1>1, <1>2

\* Rolling the ring by one row shows every row one place higher or lower.
LEMMA RollMovesRows ==
  ASSUME NEW h \in {8, 16}, NEW rows \in Nat, rows >= 1, NEW n \in 1..64, n = h * rows,
         NEW roll \in 0..(n - 1), roll % h = 0, NEW r \in 1..rows
  PROVE  LET down == IF roll + h >= n THEN roll + h - n ELSE roll + h
             up   == IF roll - h < 0 THEN roll - h + n ELSE roll - h
         IN  /\ r < rows => ((r - 1) * h + down) % n = ((r + 1 - 1) * h + roll) % n
             /\ r > 1 => ((r - 1) * h + up) % n = ((r - 1 - 1) * h + roll) % n
             /\ ((1 - 1) * h + up) % n = ((rows - 1) * h + roll) % n
<1> DEFINE down == IF roll + h >= n THEN roll + h - n ELSE roll + h
           up   == IF roll - h < 0 THEN roll - h + n ELSE roll - h
<1>0. h \in Int /\ h >= 0
  OBVIOUS
<1>1. down \in 0..(n - 1) /\ up \in 0..(n - 1) /\ down % h = 0 /\ up % h = 0
  <2>1. n % h = 0
    <3>1. CASE h = 8
      BY <3>1
    <3>2. CASE h = 16
      BY <3>2
    <3> QED BY <3>1, <3>2
  <2> HIDE DEF down, up
  <2> QED BY <2>1, RollStep DEF down, up
<1>2. ASSUME NEW a \in 0..(2 * n - 1), NEW b \in 0..(2 * n - 1), a = b \/ a = b + n \/ b = a + n
      PROVE  a % n = b % n
  <2>1. (a % n = IF a >= n THEN a - n ELSE a) /\ (b % n = IF b >= n THEN b - n ELSE b)
    BY WrapOnce
  <2> QED BY <1>2, <2>1
<1>3. ASSUME r < rows
      PROVE  ((r - 1) * h + down) % n = ((r + 1 - 1) * h + roll) % n
  <2> DEFINE a == (r - 1) * h + down
             b == (r + 1 - 1) * h + roll
  <2>1. a \in 0..(2 * n - 1) /\ b \in 0..(2 * n - 1) /\ (a = b \/ a = b + n \/ b = a + n)
    <3>1. CASE h = 8
      BY <1>3, <3>1
    <3>2. CASE h = 16
      BY <1>3, <3>2
    <3> QED BY <3>1, <3>2
  <2> HIDE DEF a, b
  <2> QED BY <1>2, <2>1 DEF a, b
<1>4. ASSUME r > 1
      PROVE  ((r - 1) * h + up) % n = ((r - 1 - 1) * h + roll) % n
  <2> DEFINE a == (r - 1) * h + up
             b == (r - 1 - 1) * h + roll
  <2>1. a \in 0..(2 * n - 1) /\ b \in 0..(2 * n - 1) /\ (a = b \/ a = b + n \/ b = a + n)
    <3>1. CASE h = 8
      BY <1>4, <3>1
    <3>2. CASE h = 16
      BY <1>4, <3>2
    <3> QED BY <3>1, <3>2
  <2> HIDE DEF a, b
  <2> QED BY <1>2, <2>1 DEF a, b
<1>5. ((1 - 1) * h + up) % n = ((rows - 1) * h + roll) % n
  <2> DEFINE a == (1 - 1) * h + up
             b == (rows - 1) * h + roll
  <2>1. a \in 0..(2 * n - 1) /\ b \in 0..(2 * n - 1) /\ (a = b \/ a = b + n \/ b = a + n)
    <3>1. CASE h = 8
      BY <3>1
    <3>2. CASE h = 16
      BY <3>2
    <3> QED BY <3>1, <3>2
  <2> HIDE DEF a, b
  <2> QED BY <1>2, <2>1 DEF a, b
<1> HIDE DEF up, down
<1> QED BY <1>3, <1>4, <1>5 DEF up, down

\* Each text row starts on an LCD page of its own, and its band holds no other row's.
LEMMA RowPages ==
  ASSUME Sized, NEW roll \in 0..(LcdHeight - 1), roll % font.height = 0,
         NEW r \in 1..maxRow, NEW s \in 1..maxRow
  PROVE  /\ Top(roll, r) \div 8 \in Pages
         /\ (Top(roll, s) \div 8 \in Band(Top(roll, r))) <=> r = s
<1> DEFINE h == font.height
           R == ((r - 1) * h + roll) % LcdHeight
           S == ((s - 1) * h + roll) % LcdHeight
<1>1. /\ h \in {8, 16} /\ LcdHeight \in 1..64 /\ maxRow \in Nat /\ maxRow >= 1
      /\ LcdHeight = h * maxRow /\ roll % h = 0
  BY Sizes DEF Sized, Fonts
<1> HIDE DEF h
<1>2. R \div 8 \in 0..(LcdHeight \div 8 - 1)
  BY ONLY <1>1, RingRows, roll \in 0..(LcdHeight - 1), r \in 1..maxRow, s \in 1..maxRow, SMT
<1>3. S \div 8 \in 0..(LcdHeight \div 8 - 1)
  BY ONLY <1>1, RingRows, roll \in 0..(LcdHeight - 1), r \in 1..maxRow, s \in 1..maxRow, SMT
<1>6. 8 * (S \div 8) = S
  BY ONLY <1>1, RingRows, roll \in 0..(LcdHeight - 1), r \in 1..maxRow, s \in 1..maxRow, SMT
<1>4. (R <= S /\ S < R + h) <=> r = s
  BY ONLY <1>1, RingRows, roll \in 0..(LcdHeight - 1), r \in 1..maxRow, s \in 1..maxRow, SMT
<1>5. R = Top(roll, r) /\ S = Top(roll, s)
  BY DEF Top, h
<1> HIDE DEF R, S
<1> QED BY <1>2, <1>3, <1>4, <1>5, <1>6 DEF Pages, Band, h

\* The columns of the LCD's RAM are those of the text.
LEMMA ColumnsAreText ==
  /\ Columns = 1..TextCols
  /\ \A c \in Columns : ((c - 1) * 6) \div 6 = c - 1
<1>1. Columns = 1..TextCols
  BY DEF Columns, TextCols
<1>2. \A c \in Columns : ((c - 1) * 6) \div 6 = c - 1
  BY Sizes, <1>1
<1> QED BY <1>1, <1>2

\* The window of a console that is set on the text grid.
LEMMA GlassType ==
  ASSUME Sized, NEW k, k \in ConState, k.roll % font.height = 0
  PROVE  /\ Win(k) \in [1..TextRows -> [1..TextCols -> Glyphs \cup {Blank}]]
         /\ \A r \in 1..maxRow : Top(k.roll, r) \div 8 \in Pages
<1>1. k.roll \in 0..(LcdHeight - 1) /\ k.ram \in [Pages -> [Columns -> Glyphs \cup {Blank}]]
  BY DEF ConState
<1>2. \A r \in 1..maxRow : Top(k.roll, r) \div 8 \in Pages
  BY <1>1, RowPages
<1>3. maxRow = TextRows
  BY DEF Sized
<1> QED BY <1>1, <1>2, <1>3, ColumnsAreText DEF Win

\* Neither the cursor mode nor where the glyphs go is seen on the glass.
LEMMA GlassSame ==
  ASSUME NEW k, NEW j, j.ram = k.ram, j.roll = k.roll
  PROVE  Win(j) = Win(k)
  BY DEF Win

LEMMA ModeShows ==
  ASSUME NEW k, k \in ConState, NEW mode
  PROVE  LET s == SetCursorMode(k, mode) IN
         /\ Glass(s) = Glass(k)
         /\ s.ram = k.ram /\ s.roll = k.roll /\ s.x = k.x /\ s.y = k.y
         /\ s.row = k.row /\ s.col = k.col
<1> DEFINE s == SetCursorMode(k, mode)
<1>1. /\ s.ram = k.ram /\ s.roll = k.roll /\ s.x = k.x /\ s.y = k.y
      /\ s.row = k.row /\ s.col = k.col
  BY DEF SetCursorMode, ConState
<1> HIDE DEF s
<1>2. Win(s) = Win(k)
  BY <1>1, GlassSame
<1> QED BY <1>1, <1>2 DEF Glass, s

\* Where SetCursor puts the glyphs that follow.
LEMMA PlacedShows ==
  ASSUME Sized, NEW k, RollGood(k), NEW r \in 1..maxRow, NEW c \in 1..maxCol
  PROVE  LET p == Placed(k, r, c) IN
         /\ p.ram = k.ram /\ p.roll = k.roll /\ p.row = r /\ p.col = c
         /\ p.x = (c - 1) * 6 /\ p.y = Top(k.roll, r)
<1> DEFINE p == Placed(k, r, c)
<1>1. p.ram = k.ram /\ p.roll = k.roll /\ p.row = r /\ p.col = c
  BY DEF Placed, RollGood, ConState
<1>2. OnLcd(p)
  BY PlacedGood DEF Good
<1>3. c # maxCol + 1
  BY Sizes DEF Sized
<1> HIDE DEF p
<1>4. p.x = (c - 1) * 6 /\ p.y = Top(k.roll, r)
  BY <1>1, <1>2, <1>3 DEF OnLcd, Top
<1> QED BY <1>1, <1>4 DEF p

\* Drawing a glyph writes one cell of the row it starts in, and no other row.
LEMMA DrawShows ==
  ASSUME Sized, NEW k, k \in ConState, k.roll % font.height = 0,
         NEW r \in 1..maxRow, NEW c \in 1..maxCol, NEW ch
  PROVE  LET d == DrawBitmap(k, (c - 1) * 6, Top(k.roll, r), ch) IN
         /\ Win(d) = [Win(k) EXCEPT ![r][c] = ch]
         /\ d.roll = k.roll
<1> DEFINE x == (c - 1) * 6
           y == Top(k.roll, r)
           d == DrawBitmap(k, x, y, ch)
<1>1. c \in Columns /\ x \div 6 + 1 = c
  BY ColumnsAreText, Sizes DEF Sized
<1> HIDE DEF x, y
<1>2. /\ d.roll = k.roll
      /\ d.ram = [p \in Pages |-> IF p \in Band(y) THEN [k.ram[p] EXCEPT ![c] = ch] ELSE k.ram[p]]
  BY <1>1 DEF DrawBitmap, ConState
<1> HIDE DEF d
<1>3. k.roll \in 0..(LcdHeight - 1) /\ k.ram \in [Pages -> [Columns -> Glyphs \cup {Blank}]]
  BY DEF ConState
<1>4. ASSUME NEW s \in 1..maxRow
      PROVE  Win(d)[s] = [Win(k) EXCEPT ![r][c] = ch][s]
  <2> DEFINE q == Top(k.roll, s) \div 8
  <2>1. q \in Pages /\ (q \in Band(y) <=> r = s)
    BY <1>3, RowPages DEF y
  <2>2. Win(d)[s] = d.ram[q] /\ Win(k)[s] = k.ram[q]
    BY <1>2 DEF Win
  <2> HIDE DEF q
  <2>3. CASE r = s
    <3>1. Win(d)[s] = [k.ram[q] EXCEPT ![c] = ch]
      BY <1>2, <2>1, <2>2, <2>3
    <3>2. [Win(k) EXCEPT ![r][c] = ch][s] = [Win(k)[s] EXCEPT ![c] = ch]
      BY <2>3 DEF Win
    <3> QED BY <2>2, <3>1, <3>2
  <2>4. CASE r # s
    <3>1. Win(d)[s] = k.ram[q]
      BY <1>2, <2>1, <2>2, <2>4
    <3>2. [Win(k) EXCEPT ![r][c] = ch][s] = Win(k)[s]
      BY <2>4 DEF Win
    <3> QED BY <2>2, <3>1, <3>2
  <2> QED BY <2>3, <2>4
<1>5. Win(d) = [s \in 1..maxRow |-> Win(d)[s]]
  BY DEF Win
<1>6. [Win(k) EXCEPT ![r][c] = ch] = [s \in 1..maxRow |-> [Win(k) EXCEPT ![r][c] = ch][s]]
  BY DEF Win
<1>7. Win(d) = [Win(k) EXCEPT ![r][c] = ch]
  BY <1>4, <1>5, <1>6
<1> QED BY <1>2, <1>7 DEF d, x, y

\* Erasing from a column on changes the end of one row, and no other row.
LEMMA WhitenShows ==
  ASSUME Sized, NEW k, k \in ConState, k.roll % font.height = 0,
         NEW r \in 1..maxRow, NEW c \in 1..maxCol
  PROVE  LET w == Whiten(k, (c - 1) * 6, Top(k.roll, r)) IN
         /\ w.roll = k.roll /\ w.row = k.row /\ w.col = k.col
         /\ \A s \in 1..maxRow :
              Win(w)[s] = IF r = s THEN [i \in 1..TextCols |-> IF i >= c THEN Blank ELSE Win(k)[s][i]]
                                   ELSE Win(k)[s]
<1> DEFINE x == (c - 1) * 6
           y == Top(k.roll, r)
           w == Whiten(k, x, y)
<1>1. x \div 6 = c - 1 /\ maxCol \in Nat
  BY ColumnsAreText, Sizes DEF Sized
<1> HIDE DEF x, y
<1>2. /\ w.roll = k.roll /\ w.row = k.row /\ w.col = k.col
      /\ w.ram = [p \in Pages |-> [i \in Columns |->
                    IF p \in Band(y) /\ i > x \div 6 THEN Blank ELSE k.ram[p][i]]]
  BY DEF Whiten, ConState
<1> HIDE DEF w
<1>3. k.roll \in 0..(LcdHeight - 1) /\ k.ram \in [Pages -> [Columns -> Glyphs \cup {Blank}]]
  BY DEF ConState
<1>4. ASSUME NEW s \in 1..maxRow
      PROVE  Win(w)[s] = IF r = s THEN [i \in 1..TextCols |-> IF i >= c THEN Blank ELSE Win(k)[s][i]]
                                  ELSE Win(k)[s]
  <2> DEFINE q == Top(k.roll, s) \div 8
  <2>1. q \in Pages /\ (q \in Band(y) <=> r = s)
    BY <1>3, RowPages DEF y
  <2>2. Win(w)[s] = w.ram[q] /\ Win(k)[s] = k.ram[q]
    BY <1>2 DEF Win
  <2> HIDE DEF q
  <2>3. w.ram[q] = [i \in Columns |-> IF r = s /\ i > x \div 6 THEN Blank ELSE k.ram[q][i]]
    BY <1>2, <2>1
  <2>4. \A i \in Columns : i > x \div 6 <=> i >= c
    BY <1>1, ColumnsAreText, Sizes
  <2>5. CASE r = s
    BY <2>2, <2>3, <2>4, <2>5, ColumnsAreText
  <2>6. CASE r # s
    <3>1. k.ram[q] \in [Columns -> Glyphs \cup {Blank}]
      BY <1>3, <2>1
    <3> QED BY <2>2, <2>3, <2>6, <3>1
  <2> QED BY <2>5, <2>6
<1> QED BY <1>2, <1>4 DEF w, x, y

-----------------------------------------------------------------------------
(* What SetCursor does to the glass.                                       *)

\* A scroll shows every row one place further and changes no cell.
LEMMA RolledShows ==
  ASSUME Sized, NEW k, RollGood(k), NEW r \in {0, maxRow + 1}
  PROVE  LET j == Rolled(k, r) IN
         /\ r > maxRow => \A s \in 1..maxRow : s < maxRow => Win(j)[s] = Win(k)[s + 1]
         /\ r < 1 => \A s \in 1..maxRow : Win(j)[s] = IF s > 1 THEN Win(k)[s - 1] ELSE Win(k)[maxRow]
<1> DEFINE h    == font.height
           roll == k.roll
           j    == Rolled(k, r)
           down == IF roll + h >= LcdHeight THEN roll + h - LcdHeight ELSE roll + h
           up   == IF roll - h < 0 THEN roll - h + LcdHeight ELSE roll - h
<1>1. /\ h \in {8, 16} /\ LcdHeight \in 1..64 /\ maxRow \in Nat /\ maxRow >= 1
      /\ LcdHeight = h * maxRow
  BY Sizes DEF Sized, Fonts
<1>2. roll \in 0..(LcdHeight - 1) /\ roll % h = 0
  BY DEF RollGood, ConState
<1>3. j.ram = k.ram /\ j.roll = IF r < 1 THEN up ELSE down
  <2> DEFINE above == k.roll - font.height
             below == k.roll + font.height
             to == IF r < 1 THEN IF above < 0 THEN above + LcdHeight ELSE above
                            ELSE IF below >= LcdHeight THEN below - LcdHeight ELSE below
  <2>1. j = LCD_SetScreenRoll([k EXCEPT !.roll = to], to)
    BY DEF Rolled
  <2>2. to = IF r < 1 THEN up ELSE down
    BY <1>1, <1>2
  <2> HIDE DEF to, j
  <2>3. j.ram = k.ram /\ j.roll = to
    BY <2>1 DEF LCD_SetScreenRoll, RollGood, ConState
  <2> QED BY <2>2, <2>3
<1> HIDE DEF j, h, roll
<1>4. \A s \in 1..maxRow : Win(j)[s] = k.ram[Top(j.roll, s) \div 8]
  BY <1>3 DEF Win
<1>5. \A s \in 1..maxRow : Win(k)[s] = k.ram[Top(k.roll, s) \div 8]
  BY DEF Win
<1>6. ASSUME NEW s \in 1..maxRow
      PROVE  /\ s < maxRow => Top(down, s) = Top(k.roll, s + 1)
             /\ s > 1 => Top(up, s) = Top(k.roll, s - 1)
             /\ Top(up, 1) = Top(k.roll, maxRow)
  <2>1. s < maxRow => ((s - 1) * h + down) % LcdHeight = ((s + 1 - 1) * h + roll) % LcdHeight
    BY ONLY <1>1, <1>2, s \in 1..maxRow, RollMovesRows, SMT
  <2>2. s > 1 => ((s - 1) * h + up) % LcdHeight = ((s - 1 - 1) * h + roll) % LcdHeight
    BY ONLY <1>1, <1>2, s \in 1..maxRow, RollMovesRows, SMT
  <2>3. ((1 - 1) * h + up) % LcdHeight = ((maxRow - 1) * h + roll) % LcdHeight
    BY ONLY <1>1, <1>2, s \in 1..maxRow, RollMovesRows, SMT
  <2> HIDE DEF up, down
  <2> QED BY <2>1, <2>2, <2>3 DEF Top, h, roll
<1> HIDE DEF up, down
<1>7. ASSUME r > maxRow, NEW s \in 1..maxRow, s < maxRow
      PROVE  Win(j)[s] = Win(k)[s + 1]
  <2>1. j.roll = down /\ s + 1 \in 1..maxRow
    BY <1>1, <1>3, <1>7
  <2>2. Win(k)[s + 1] = k.ram[Top(k.roll, s + 1) \div 8]
    BY <1>5, <2>1
  <2> QED BY <1>4, <1>6, <1>7, <2>1, <2>2
<1>8. ASSUME r < 1, NEW s \in 1..maxRow
      PROVE  Win(j)[s] = IF s > 1 THEN Win(k)[s - 1] ELSE Win(k)[maxRow]
  <2>1. j.roll = up
    BY <1>3, <1>8
  <2>2. CASE s > 1
    <3>1. s - 1 \in 1..maxRow
      BY <1>1, <2>2
    <3>2. Win(k)[s - 1] = k.ram[Top(k.roll, s - 1) \div 8]
      BY <1>5, <3>1
    <3> QED BY <1>4, <1>6, <2>1, <2>2, <3>2
  <2>3. CASE ~(s > 1)
    <3>1. s = 1 /\ maxRow \in 1..maxRow
      BY <1>1, <2>3
    <3>2. Win(k)[maxRow] = k.ram[Top(k.roll, maxRow) \div 8]
      BY <1>5, <3>1
    <3> QED BY <1>4, <1>6, <2>1, <2>3, <3>1, <3>2
  <2> QED BY <2>2, <2>3
<1> QED BY <1>7, <1>8 DEF j

\* What an edge row of SetCursor leaves on the glass.
LEMMA ScrolledShows ==
  ASSUME Sized, NEW k, RollGood(k), NEW r \in {0, maxRow + 1}, NEW edge \in 1..maxRow,
         NEW c \in 1..maxCol
  PROVE  LET p == Placed(Rolled(k, r), edge, c)
             w == Whiten(p, p.x, p.y)
         IN  /\ w.row = edge /\ w.col = c
             /\ \A s \in 1..maxRow :
                  Win(w)[s] = IF edge = s
                              THEN [i \in 1..TextCols |-> IF i >= c THEN Blank ELSE Win(Rolled(k, r))[s][i]]
                              ELSE Win(Rolled(k, r))[s]
<1> DEFINE j == Rolled(k, r)
           p == Placed(j, edge, c)
           w == Whiten(p, p.x, p.y)
<1>1. r \in Nat
  BY Sizes DEF Sized
<1>2. RollGood(j)
  BY <1>1, RolledGood
<1> HIDE DEF j
<1>3. /\ p.ram = j.ram /\ p.roll = j.roll /\ p.row = edge /\ p.col = c
      /\ p.x = (c - 1) * 6 /\ p.y = Top(j.roll, edge)
  BY <1>2, PlacedShows
<1>4. p \in ConState /\ p.roll % font.height = 0
  BY <1>2, PlacedGood DEF Good, OnLcd
<1> HIDE DEF p
<1>5. Win(p) = Win(j)
  BY <1>3, GlassSame
<1>6. w = Whiten(p, (c - 1) * 6, Top(p.roll, edge))
  BY <1>3
<1>7. /\ w.row = p.row /\ w.col = p.col
      /\ \A s \in 1..maxRow :
           Win(w)[s] = IF edge = s THEN [i \in 1..TextCols |-> IF i >= c THEN Blank ELSE Win(p)[s][i]]
                                   ELSE Win(p)[s]
  <2> HIDE DEF w
  <2> QED BY <1>4, <1>6, WhitenShows
<1> HIDE DEF w
<1> QED BY <1>3, <1>5, <1>7 DEF j, p, w

\* SetCursor on a row of the window moves the text position.
LEMMA MoveShows ==
  ASSUME Sized, NEW k, Good(k), NEW r \in 1..maxRow, NEW c \in 1..maxCol,
         NEW mode \in {CURSOR_MODE_HIDE, CURSOR_MODE_SHOW}
  PROVE  Glass(SetCursor(k, r, c, mode)) = Text!Moved(Glass(k), r, c)
<1> DEFINE hidden == SetCursorMode(k, CURSOR_MODE_HIDE)
           p      == Placed(hidden, r, c)
<1>0. k \in ConState
  BY DEF Good
<1>1. RollGood(hidden)
  BY ModeGood DEF RollGood, Good, OnLcd
<1>2. Glass(hidden) = Glass(k) /\ hidden.ram = k.ram /\ hidden.roll = k.roll
  BY <1>0, ModeShows
<1>3. SetCursor(k, r, c, mode) = SetCursorMode(p, mode)
  <2>1. ~(r < 1 \/ r > maxRow)
    BY Sizes DEF Sized
  <2> QED BY <2>1 DEF SetCursor
<1> HIDE DEF hidden
<1>4. p.ram = hidden.ram /\ p.roll = hidden.roll /\ p.row = r /\ p.col = c /\ p \in ConState
  BY <1>1, PlacedShows, PlacedGood DEF Good
<1> HIDE DEF p
<1>5. Win(p) = Win(k)
  BY <1>2, <1>4, GlassSame
<1>6. Glass(p) = [win |-> Win(k), row |-> r, col |-> c]
  BY <1>4, <1>5 DEF Glass
<1>7. Glass(SetCursorMode(p, mode)) = Glass(p)
  BY <1>4, ModeShows
<1>8. Text!Moved(Glass(k), r, c) = [win |-> Win(k), row |-> r, col |-> c]
  <2>1. Text!Moved(Glass(k), r, c) = [Glass(k) EXCEPT !.row = r, !.col = c]
    BY DEF Text!Moved
  <2> QED BY <2>1 DEF Glass
<1> QED BY <1>3, <1>6, <1>7, <1>8

\* SetCursor below the last row scrolls the window up.
LEMMA ScrollUpShows ==
  ASSUME Sized, NEW k, Good(k), NEW mode \in {CURSOR_MODE_HIDE, CURSOR_MODE_SHOW}
  PROVE  Glass(SetCursor(k, maxRow + 1, 1, mode)) =
           [win |-> Text!ScrolledUp(Win(k)), row |-> maxRow, col |-> 1]
<1> DEFINE hidden == SetCursorMode(k, CURSOR_MODE_HIDE)
           j      == Rolled(hidden, maxRow + 1)
           p      == Placed(j, maxRow, 1)
           w      == Whiten(p, p.x, p.y)
<1>0. /\ k \in ConState /\ maxRow \in Nat /\ maxRow >= 1 /\ 1 \in 1..maxCol
      /\ maxRow = TextRows /\ maxCol = TextCols
  BY Sizes DEF Good, Sized
<1>1. RollGood(hidden)
  BY ModeGood DEF RollGood, Good, OnLcd
<1>2. Win(hidden) = Win(k)
  BY <1>0, ModeShows DEF Glass
<1>3. SetCursor(k, maxRow + 1, 1, mode) = SetCursorMode(w, mode)
  BY <1>0 DEF SetCursor
<1> HIDE DEF hidden
<1>4. maxRow + 1 \in {0, maxRow + 1} /\ maxRow \in 1..maxRow /\ maxRow + 1 > maxRow
  BY <1>0
<1>5. /\ w.row = maxRow /\ w.col = 1
      /\ \A s \in 1..maxRow :
           Win(w)[s] = IF maxRow = s
                       THEN [i \in 1..TextCols |-> IF i >= 1 THEN Blank ELSE Win(j)[s][i]]
                       ELSE Win(j)[s]
  BY <1>0, <1>1, <1>4, ScrolledShows
<1>6. \A s \in 1..maxRow : s < maxRow => Win(j)[s] = Win(k)[s + 1]
  BY <1>1, <1>2, <1>4, RolledShows
<1>7. w \in ConState
  <2>1. RollGood(j)
    BY <1>0, <1>1, RolledGood
  <2> HIDE DEF j
  <2>2. Good(p) /\ ~Shown(p)
    BY <1>0, <1>4, <2>1, PlacedGood
  <2> HIDE DEF p
  <2> QED BY <2>2, WhitenGood DEF Good
<1> HIDE DEF w, j
<1>8. Win(w) = Text!ScrolledUp(Win(k))
  <2>1. \A s \in 1..maxRow : Win(w)[s] = IF s < maxRow THEN Win(k)[s + 1] ELSE Text!BlankRow
    <3> TAKE s \in 1..maxRow
    <3>1. CASE s < maxRow
      <4>1. maxRow # s
        BY <3>1
      <4> QED BY <1>5, <1>6, <3>1, <4>1
    <3>2. CASE ~(s < maxRow)
      <4>1. maxRow = s
        BY <1>0, <3>2
      <4>2. Win(w)[s] = [i \in 1..TextCols |-> IF i >= 1 THEN Blank ELSE Win(j)[s][i]]
        BY <1>5, <4>1
      <4>3. Win(w)[s] = Text!BlankRow
        BY <4>2 DEF Text!BlankRow
      <4> QED BY <3>2, <4>3
    <3> QED BY <3>1, <3>2
  <2>2. Win(w) = [s \in 1..maxRow |-> Win(w)[s]]
    BY DEF Win
  <2>3. Win(w) = [s \in 1..maxRow |-> IF s < maxRow THEN Win(k)[s + 1] ELSE Text!BlankRow]
    BY <2>1, <2>2
  <2> QED BY <1>0, <2>3 DEF Text!ScrolledUp
<1>9. Glass(SetCursorMode(w, mode)) = Glass(w)
  BY <1>7, ModeShows
<1> QED BY <1>3, <1>5, <1>8, <1>9 DEF Glass

\* SetCursor above the first row scrolls the window down, without erasing the row that enters.
LEMMA ScrollDownShows ==
  ASSUME Sized, NEW k, Good(k), NEW mode \in {CURSOR_MODE_HIDE, CURSOR_MODE_SHOW}
  PROVE  Glass(SetCursor(k, 0, maxCol, mode)) =
           [win |-> Text!ScrolledDown(Win(k)), row |-> 1, col |-> maxCol]
<1> DEFINE hidden == SetCursorMode(k, CURSOR_MODE_HIDE)
           j      == Rolled(hidden, 0)
           p      == Placed(j, 1, maxCol)
           w      == Whiten(p, p.x, p.y)
<1>0. /\ k \in ConState /\ maxRow \in Nat /\ maxRow >= 1 /\ maxCol \in 1..maxCol /\ maxCol \in Nat
      /\ maxRow = TextRows /\ maxCol = TextCols
  BY Sizes DEF Good, Sized
<1>1. RollGood(hidden)
  BY ModeGood DEF RollGood, Good, OnLcd
<1>2. Win(hidden) = Win(k)
  BY <1>0, ModeShows DEF Glass
<1>3. SetCursor(k, 0, maxCol, mode) = SetCursorMode(w, mode)
  BY <1>0 DEF SetCursor
<1> HIDE DEF hidden
<1>4. 0 \in {0, maxRow + 1} /\ 1 \in 1..maxRow /\ 0 < 1
  BY <1>0
<1>5. /\ w.row = 1 /\ w.col = maxCol
      /\ \A s \in 1..maxRow :
           Win(w)[s] = IF 1 = s
                       THEN [i \in 1..TextCols |-> IF i >= maxCol THEN Blank ELSE Win(j)[s][i]]
                       ELSE Win(j)[s]
  <2> DEFINE c == maxCol
  <2>1. c \in 1..maxCol
    BY <1>0
  <2> HIDE DEF c
  <2>2. /\ Whiten(Placed(j, 1, c), Placed(j, 1, c).x, Placed(j, 1, c).y).row = 1
        /\ Whiten(Placed(j, 1, c), Placed(j, 1, c).x, Placed(j, 1, c).y).col = c
        /\ \A s \in 1..maxRow :
             Win(Whiten(Placed(j, 1, c), Placed(j, 1, c).x, Placed(j, 1, c).y))[s] =
               IF 1 = s THEN [i \in 1..TextCols |-> IF i >= c THEN Blank ELSE Win(j)[s][i]]
                        ELSE Win(j)[s]
    BY ONLY Sized, <2>1, <1>1, <1>4, ScrolledShows
  <2> QED BY <2>2 DEF c
<1>6. \A s \in 1..maxRow : Win(j)[s] = IF s > 1 THEN Win(k)[s - 1] ELSE Win(k)[maxRow]
  BY <1>1, <1>2, <1>4, RolledShows
<1>7. w \in ConState
  <2>1. RollGood(j)
    BY <1>0, <1>1, RolledGood
  <2> HIDE DEF j
  <2>2. Good(p) /\ ~Shown(p)
    BY <1>0, <1>4, <2>1, PlacedGood
  <2> HIDE DEF p
  <2> QED BY <2>2, WhitenGood DEF Good
<1> HIDE DEF w, j
<1>8. Win(w) = Text!ScrolledDown(Win(k))
  <2> DEFINE last == [Win(k)[maxRow] EXCEPT ![maxCol] = Blank]
  <2>1. \A s \in 1..maxRow : Win(w)[s] = IF s > 1 THEN Win(k)[s - 1] ELSE last
    <3> TAKE s \in 1..maxRow
    <3>1. CASE s > 1
      <4>1. 1 # s
        BY <3>1
      <4> QED BY <1>5, <1>6, <3>1, <4>1
    <3>2. CASE ~(s > 1)
      <4>1. 1 = s
        BY <1>0, <3>2
      <4>2. Win(w)[s] = [i \in 1..TextCols |-> IF i >= maxCol THEN Blank ELSE Win(j)[s][i]]
        BY <1>5, <4>1
      <4>3. Win(j)[s] = Win(k)[maxRow]
        BY <1>6, <3>2
      <4>4. Win(k)[maxRow] \in [1..TextCols -> Glyphs \cup {Blank}]
        BY <1>0, GlassType DEF Good, OnLcd
      <4>5. \A i \in 1..TextCols : i >= maxCol <=> i = maxCol
        BY <1>0
      <4>6. Win(w)[s] = last
        BY <4>2, <4>3, <4>4, <4>5
      <4> QED BY <3>2, <4>6
    <3> QED BY <3>1, <3>2
  <2>2. Win(w) = [s \in 1..maxRow |-> Win(w)[s]]
    BY DEF Win
  <2>3. Win(w) = [s \in 1..maxRow |-> IF s > 1 THEN Win(k)[s - 1] ELSE last]
    BY <2>1, <2>2
  <2> QED BY <1>0, <2>3 DEF Text!ScrolledDown
<1>9. Glass(SetCursorMode(w, mode)) = Glass(w)
  BY <1>7, ModeShows
<1> QED BY <1>3, <1>5, <1>8, <1>9 DEF Glass

-----------------------------------------------------------------------------
(* Each branch of fputc is an operation of the window.                     *)

\* SetCursor one row further is a line feed of the window.
LEMMA LineFeedShows ==
  ASSUME Sized, NEW k, Good(k), NEW mode \in {CURSOR_MODE_HIDE, CURSOR_MODE_SHOW}
  PROVE  Glass(SetCursor(k, k.row + 1, 1, mode)) = Text!LineFeed(Glass(k))
<1>1. /\ maxRow \in Nat /\ maxRow >= 1 /\ maxRow = TextRows /\ 1 \in 1..maxCol
      /\ k.row \in 1..maxRow
  BY Sizes, GoodFacts DEF Sized
<1>2. Glass(k).row = k.row /\ Glass(k).win = Win(k)
  BY DEF Glass
<1>3. CASE k.row < maxRow
  <2>1. Text!LineFeed(Glass(k)) = Text!Moved(Glass(k), k.row + 1, 1)
    BY <1>1, <1>2, <1>3 DEF Text!LineFeed
  <2>2. k.row + 1 \in 1..maxRow
    BY <1>1, <1>3
  <2> QED BY <1>1, <2>1, <2>2, MoveShows
<1>4. CASE k.row = maxRow
  <2>1. Text!LineFeed(Glass(k)) = [win |-> Text!ScrolledUp(Win(k)), row |-> maxRow, col |-> 1]
    BY <1>1, <1>2, <1>4 DEF Text!LineFeed
  <2> QED BY <1>4, <2>1, ScrollUpShows
<1> QED BY <1>1, <1>3, <1>4

LEMMA BackspaceShows ==
  ASSUME Sized, NEW k, Good(k)
  PROVE  Glass(Backspace(k)) = Text!Backspace(Glass(k))
<1>1. /\ maxRow \in Nat /\ maxRow >= 1 /\ maxCol \in Nat /\ maxCol >= 1
      /\ maxRow = TextRows /\ maxCol = TextCols
      /\ k.row \in 1..maxRow /\ k.col \in 1..(maxCol + 1)
      /\ k.mode \in {CURSOR_MODE_HIDE, CURSOR_MODE_SHOW}
  BY Sizes, GoodFacts DEF Sized
<1>2. Glass(k).row = k.row /\ Glass(k).col = k.col /\ Glass(k).win = Win(k)
  BY DEF Glass
<1>3. CASE k.col > 1
  <2>1. Text!Backspace(Glass(k)) = Text!Moved(Glass(k), k.row, k.col - 1)
    BY <1>1, <1>2, <1>3 DEF Text!Backspace
  <2>2. Backspace(k) = SetCursor(k, k.row, k.col - 1, k.mode) /\ k.col - 1 \in 1..maxCol
    BY <1>1, <1>3 DEF Backspace
  <2> QED BY <1>1, <2>1, <2>2, MoveShows
<1>4. CASE k.col = 1 /\ k.row > 1
  <2>1. Text!Backspace(Glass(k)) = Text!Moved(Glass(k), k.row - 1, maxCol)
    BY <1>1, <1>2, <1>4 DEF Text!Backspace
  <2>2. /\ Backspace(k) = SetCursor(k, k.row - 1, maxCol, k.mode)
        /\ k.row - 1 \in 1..maxRow /\ maxCol \in 1..maxCol
    BY <1>1, <1>4 DEF Backspace
  <2> QED BY <1>1, <2>1, <2>2, MoveShows
<1>5. CASE k.col = 1 /\ k.row = 1
  <2>1. Text!Backspace(Glass(k)) = [win |-> Text!ScrolledDown(Win(k)), row |-> 1, col |-> maxCol]
    BY <1>1, <1>2, <1>5 DEF Text!Backspace
  <2>2. Backspace(k) = SetCursor(k, 0, maxCol, k.mode)
    BY <1>1, <1>5 DEF Backspace
  <2> QED BY <1>1, <2>1, <2>2, ScrollDownShows
<1> QED BY <1>1, <1>3, <1>4, <1>5

LEMMA CarriageReturnShows ==
  ASSUME Sized, NEW k, Good(k)
  PROVE  Glass(CarriageReturn(k)) = Text!CarriageReturn(Glass(k))
<1>1. /\ 1 \in 1..maxCol /\ k.row \in 1..maxRow
      /\ k.mode \in {CURSOR_MODE_HIDE, CURSOR_MODE_SHOW}
  BY Sizes, GoodFacts DEF Sized
<1>2. Text!CarriageReturn(Glass(k)) = Text!Moved(Glass(k), k.row, 1)
  BY DEF Text!CarriageReturn, Glass
<1> QED BY <1>1, <1>2, MoveShows DEF CarriageReturn

\* The bell flashes the LCD and leaves its text alone.
LEMMA BellShows ==
  ASSUME NEW k, Good(k)
  PROVE  Glass(Bell(k)) = Glass(k)
<1>1. /\ Bell(k).ram = k.ram /\ Bell(k).roll = k.roll
      /\ Bell(k).row = k.row /\ Bell(k).col = k.col
  BY DEF Bell, LCD_AllPixOn, SetCursorMode, Good, ConState
<1>2. Win(Bell(k)) = Win(k)
  BY <1>1, GlassSame
<1> QED BY <1>1, <1>2 DEF Glass

LEMMA PutGlyphShows ==
  ASSUME Sized, NEW k, Good(k), NEW ch \in Glyphs \cup {Blank}
  PROVE  Glass(PutGlyph(k, ch)) = Text!Printed(Glass(k), ch)
<1> DEFINE hidden == IF k.x = LcdWidth - 1 THEN SetCursor(k, k.row + 1, 1, CURSOR_MODE_HIDE)
                                           ELSE SetCursorMode(k, CURSOR_MODE_HIDE)
           drawn  == DrawBitmap(hidden, hidden.x, hidden.y, ch)
           x      == drawn.x + font.max_width
           nx     == IF x = LcdWidth THEN x - 1 ELSE x
           torn   == drawn.torn \/ Shown(drawn)
           moved  == [drawn EXCEPT !.x = nx, !.torn = torn, !.col = drawn.col + 1]
           at     == IF Glass(k).col > TextCols THEN Text!LineFeed(Glass(k)) ELSE Glass(k)
<1>1. /\ maxRow \in Nat /\ maxRow >= 1 /\ maxCol \in Nat /\ maxCol >= 1
      /\ maxCol = TextCols /\ LcdWidth = 6 * maxCol
      /\ k.row \in 1..maxRow /\ k.col \in 1..(maxCol + 1)
      /\ CURSOR_MODE_HIDE \in {CURSOR_MODE_HIDE, CURSOR_MODE_SHOW}
  BY Sizes, GoodFacts DEF Sized
<1>2. k.x = LcdWidth - 1 <=> k.col = maxCol + 1
  BY <1>1 DEF Good, OnLcd
<1>3. Glass(k).col = k.col
  BY DEF Glass
<1>4. Good(hidden) /\ Glass(hidden) = at /\ hidden.col \in 1..maxCol /\ ~Shown(hidden)
  <2>1. CASE k.x = LcdWidth - 1
    <3>1. hidden = SetCursor(k, k.row + 1, 1, CURSOR_MODE_HIDE)
      BY <2>1
    <3>2. k.row + 1 \in 0..(maxRow + 1) /\ 1 \in 1..maxCol
      BY <1>1
    <3>3. Good(hidden) /\ hidden.mode = CURSOR_MODE_HIDE /\ hidden.col = 1
      <4>1. k \in ConState /\ ~k.torn /\ k.start = k.roll /\ k.roll % font.height = 0
        BY GoodFacts
      <4> HIDE DEF hidden
      <4> QED BY ONLY Sized, <1>1, <3>1, <3>2, <4>1, SetCursorGood
    <3>4. Glass(hidden) = Text!LineFeed(Glass(k))
      BY <1>1, <3>1, LineFeedShows
    <3>5. at = Text!LineFeed(Glass(k))
      BY <1>1, <1>2, <1>3, <2>1
    <3> HIDE DEF hidden
    <3> QED BY <1>1, <3>3, <3>4, <3>5 DEF Shown, CURSOR_MODE_HIDE, CURSOR_MODE_SHOW
  <2>2. CASE k.x # LcdWidth - 1
    <3>1. hidden = SetCursorMode(k, CURSOR_MODE_HIDE)
      BY <2>2
    <3>2. Good(hidden) /\ hidden.col = k.col /\ ~Shown(hidden)
      BY <1>1, <3>1, ModeGood
    <3>3. Glass(hidden) = Glass(k)
      BY <3>1, ModeShows DEF Good
    <3>4. at = Glass(k) /\ k.col \in 1..maxCol
      BY <1>1, <1>2, <1>3, <2>2
    <3> HIDE DEF hidden
    <3> QED BY <3>2, <3>3, <3>4
  <2> QED BY <2>1, <2>2
<1> HIDE DEF hidden, at
<1>5. /\ hidden.x = (hidden.col - 1) * 6 /\ hidden.y = Top(hidden.roll, hidden.row)
      /\ hidden.row \in 1..maxRow /\ hidden \in ConState /\ hidden.roll % font.height = 0
  BY <1>1, <1>4 DEF Good, OnLcd, Top
<1>6. /\ Win(drawn) = [Win(hidden) EXCEPT ![hidden.row][hidden.col] = ch]
      /\ drawn.roll = hidden.roll
  <2> DEFINE r == hidden.row
             c == hidden.col
  <2>1. drawn = DrawBitmap(hidden, (c - 1) * 6, Top(hidden.roll, r), ch)
    BY <1>5
  <2>2. r \in 1..maxRow /\ c \in 1..maxCol
    BY <1>4, <1>5
  <2> HIDE DEF drawn, r, c
  <2>3. /\ Win(drawn) = [Win(hidden) EXCEPT ![r][c] = ch]
        /\ drawn.roll = hidden.roll
    BY <1>5, <2>1, <2>2, DrawShows
  <2> QED BY <2>3 DEF r, c
<1>7. drawn.row = hidden.row /\ drawn.col = hidden.col /\ drawn \in ConState
  BY <1>4, DrawGood DEF Good
<1> HIDE DEF drawn, x, nx, torn
<1>8. /\ moved.ram = drawn.ram /\ moved.roll = drawn.roll /\ moved.row = drawn.row
      /\ moved.col = drawn.col + 1
  BY <1>7 DEF ConState
<1>9. PutGlyph(k, ch) = SetCursorMode(moved, k.mode)
  BY DEF PutGlyph, hidden, drawn, x, nx, torn
<1> HIDE DEF moved
<1>10. Glass(PutGlyph(k, ch)) = [win |-> Win(drawn), row |-> hidden.row, col |-> hidden.col + 1]
  <2> DEFINE s == SetCursorMode(moved, k.mode)
  <2>1. s.ram = moved.ram /\ s.roll = moved.roll /\ s.row = moved.row /\ s.col = moved.col
    <3>1. s = [moved EXCEPT !.mode = k.mode]
      BY DEF SetCursorMode
    <3>2. moved = [drawn EXCEPT !.x = nx, !.torn = torn, !.col = drawn.col + 1]
      BY DEF moved
    <3> HIDE DEF s
    <3> QED BY <1>7, <3>1, <3>2 DEF ConState
  <2> HIDE DEF s
  <2>2. Win(s) = Win(drawn)
    BY <1>8, <2>1, GlassSame
  <2> QED BY <1>7, <1>8, <1>9, <2>1, <2>2 DEF Glass, s
<1>11. Text!Printed(Glass(k), ch) = [at EXCEPT !.win[at.row][at.col] = ch, !.col = at.col + 1]
  BY DEF Text!Printed, at
<1>12. at = [win |-> Win(hidden), row |-> hidden.row, col |-> hidden.col]
  BY <1>4 DEF Glass
<1>13. [at EXCEPT !.win[at.row][at.col] = ch, !.col = at.col + 1] =
         [win |-> [Win(hidden) EXCEPT ![hidden.row][hidden.col] = ch],
          row |-> hidden.row, col |-> hidden.col + 1]
  <2> DEFINE w == Win(hidden)
             r == hidden.row
             c == hidden.col
  <2>1. at = [win |-> w, row |-> r, col |-> c]
    BY <1>12
  <2> HIDE DEF w, r, c
  <2>2. at.win = w /\ at.row = r /\ at.col = c
    BY <2>1
  <2> DEFINE v == [at.win EXCEPT ![at.row][at.col] = ch]
             n == at.col + 1
  <2>3. [at EXCEPT !.win[at.row][at.col] = ch, !.col = at.col + 1] = [at EXCEPT !.win = v, !.col = n]
    OBVIOUS
  <2>4. v = [w EXCEPT ![r][c] = ch] /\ n = c + 1
    BY <2>2
  <2> HIDE DEF v, n
  <2>5. [[win |-> w, row |-> r, col |-> c] EXCEPT !.win = v, !.col = n] =
          [win |-> v, row |-> r, col |-> n]
    <3>1. [[win |-> w, row |-> r, col |-> c] EXCEPT !.win = v] = [win |-> v, row |-> r, col |-> c]
      OBVIOUS
    <3>2. [[win |-> v, row |-> r, col |-> c] EXCEPT !.col = n] = [win |-> v, row |-> r, col |-> n]
      OBVIOUS
    <3> QED BY <3>1, <3>2
  <2>6. [at EXCEPT !.win = v, !.col = n] =
          [[win |-> w, row |-> r, col |-> c] EXCEPT !.win = v, !.col = n]
    BY <2>1
  <2> QED BY <2>3, <2>4, <2>5, <2>6 DEF w, r, c
<1> QED BY <1>6, <1>10, <1>11, <1>13

\* Printing is a step of the window, or the bell.
LEMMA fputcShows ==
  ASSUME Sized, NEW k, Good(k), NEW ch \in Chars
  PROVE  \/ Glass(fputc(k, ch)) = Glass(k)
         \/ Glass(fputc(k, ch)) = Text!Backspace(Glass(k))
         \/ Glass(fputc(k, ch)) = Text!LineFeed(Glass(k))
         \/ Glass(fputc(k, ch)) = Text!CarriageReturn(Glass(k))
         \/ \E g \in Glyphs \cup {Blank} : Glass(fputc(k, ch)) = Text!Printed(Glass(k), g)
<1>1. CASE ch = BEL
  BY <1>1, BellShows DEF fputc
<1>2. CASE ch # BEL /\ ch = BS
  BY <1>2, BackspaceShows DEF fputc
<1>3. CASE ch \notin {BEL, BS} /\ ch = LF
  <2>1. Glass(NewLine(k)) = Text!LineFeed(Glass(k))
    BY GoodFacts, LineFeedShows DEF NewLine
  <2> QED BY <1>3, <2>1 DEF fputc
<1>4. CASE ch \notin {BEL, BS, LF} /\ ch = CR
  BY <1>4, CarriageReturnShows DEF fputc
<1>5. CASE ch \notin {BEL, BS, LF, CR}
  <2>1. ch \in Glyphs \cup {Blank}
    BY <1>5 DEF Chars
  <2>2. fputc(k, ch) = PutGlyph(k, ch)
    BY <1>5 DEF fputc
  <2> QED BY <2>1, <2>2, PutGlyphShows
<1> QED BY <1>1, <1>2, <1>3, <1>4, <1>5

\* A cleared console shows an empty window.
LEMMA ClearScreenShows ==
  ASSUME Sized, NEW k, k \in ConState, ~k.torn
  PROVE  Glass(ClearScreen(k)) = Text!Home
<1> DEFINE c == ClearScreen(k)
<1>1. c.row = 1 /\ c.col = 1 /\ c.roll = 0 /\ c.ram = BlankRam
  BY DEF ClearScreen, OS3K_ClearScreen, LCD_SetScreenRoll, ConState
<1>2. Good(c)
  BY ClearScreenGood
<1> HIDE DEF c
<1>3. \A r \in 1..maxRow : Top(c.roll, r) \div 8 \in Pages
  BY <1>2, GlassType DEF Good, OnLcd
<1>4. Win(c) = [r \in 1..TextRows |-> Text!BlankRow]
  <2>1. \A r \in 1..maxRow : c.ram[Top(c.roll, r) \div 8] = Text!BlankRow
    BY <1>1, <1>3, ColumnsAreText DEF BlankRam, Text!BlankRow
  <2>2. maxRow = TextRows
    BY DEF Sized
  <2> QED BY <2>1, <2>2 DEF Win
<1> QED BY <1>1, <1>4 DEF Glass, Text!Home, c

\* The cursor mode in force before a call of fputc is in force after it.
LEMMA fputcMode ==
  ASSUME Sized, NEW k, Good(k), NEW ch \in Chars
  PROVE  fputc(k, ch).mode = k.mode
<1>1. /\ maxRow \in Nat /\ maxCol \in Nat /\ maxCol >= 1
      /\ k.row \in 1..maxRow /\ k.col \in 1..(maxCol + 1)
      /\ k.mode \in {CURSOR_MODE_HIDE, CURSOR_MODE_SHOW}
  BY Sizes, GoodFacts DEF Sized
<1>2. ASSUME NEW r \in 0..(maxRow + 1), NEW c \in 1..maxCol
      PROVE  SetCursor(k, r, c, k.mode).mode = k.mode
  BY GoodFacts, SetCursorGood
<1>3. Backspace(k).mode = k.mode
  <2>1. CASE k.col > 1
    BY <1>1, <1>2, <2>1 DEF Backspace
  <2>2. CASE ~(k.col > 1)
    BY <1>1, <1>2, <2>2 DEF Backspace
  <2> QED BY <2>1, <2>2
<1>4. NewLine(k).mode = k.mode
  BY <1>1, <1>2 DEF NewLine
<1>5. CarriageReturn(k).mode = k.mode
  BY <1>1, <1>2 DEF CarriageReturn
<1>6. Bell(k).mode = k.mode
  BY DEF Bell, LCD_AllPixOn, SetCursorMode, Good, ConState
<1>7. ASSUME ch \in Glyphs \cup {Blank}
      PROVE  PutGlyph(k, ch).mode = k.mode
  <2>1. Good(PutGlyph(k, ch))
    BY <1>7, PutGlyphGood
  <2>2. PICK moved : PutGlyph(k, ch) = [moved EXCEPT !.mode = k.mode]
    BY DEF PutGlyph, SetCursorMode
  <2>3. "mode" \in DOMAIN PutGlyph(k, ch)
    BY <2>1 DEF Good, ConState
  <2> QED BY <2>2, <2>3
<1>8. ch \notin {BEL, BS, LF, CR} => ch \in Glyphs \cup {Blank}
  BY DEF Chars
<1> QED BY <1>3, <1>4, <1>5, <1>6, <1>7, <1>8 DEF fputc

(***************************************************************************)
(* fputc leaves the cursor as it found it, shown or hidden: through the    *)
(* bell, a wrap and a scroll, where SetCursor is called with a mode of its *)
(* own, for every LCD, font and character.                                 *)
(***************************************************************************)
THEOREM OutputAlwaysKeepsMode == Spec => OutputKeepsCursorMode
<1>1. IInv /\ [Next]_vars => [\A ch \in Chars : CallFputc(ch) => con'.mode = con.mode]_vars
  BY fputcMode DEF IInv, CallFputc, InFocus
<1> QED BY <1>1, Invariance, PTL DEF Spec, OutputKeepsCursorMode

-----------------------------------------------------------------------------
(* The console implements the text window of module Terminal.              *)

\* The refinement mapping of module Console.
Shows ==
  IF phase = "focus"
  THEN [win |-> Window, row |-> con.row, col |-> con.col]
  ELSE [win |-> [r \in 1..TextRows |-> [c \in 1..TextCols |-> Blank]], row |-> 1, col |-> 1]

\* While the applet has the focus, the mapping is what the glass shows; else it is empty.
LEMMA ShowsGlass ==
  /\ phase = "focus" => Shows = Glass(con)
  /\ phase # "focus" => Shows = Text!Home
<1>1. Window = Win(con)
  BY DEF Window, Win, Top
<1> QED BY <1>1 DEF Shows, Glass, Text!Home, Text!BlankRow

LEMMA InitShows == Init => Text!Init
<1> SUFFICES ASSUME Init PROVE Text!Init
  OBVIOUS
<1>1. phase # "focus"
  BY DEF Init
<1>2. Shows = Text!Home
  BY <1>1, ShowsGlass
<1> QED BY <1>1, <1>2 DEF Text!Init, Shows

\* While the sizes stay, the next state's mapping is the glass of the next console.
LEMMA ShowsNext ==
  ASSUME InFocus
  PROVE  Shows' = Glass(con') /\ Shows = Glass(con) /\ phase = "focus" /\ phase' = "focus"
<1>1. phase' = "focus" /\ maxRow' = maxRow /\ font' = font /\ phase = "focus"
  BY DEF InFocus
<1>2. Window' = Win(con')
  BY <1>1 DEF Window, Win, Top
<1>3. Shows' = Glass(con')
  BY <1>1, <1>2 DEF Shows, Glass
<1> QED BY <1>1, <1>3, ShowsGlass

\* On a screen that is not scrolled, every row starts on a page of the LCD.
LEMMA RowsOnPages ==
  \A r \in 1..TextRows : (((r - 1) * FocusFont.height + 0) % LcdHeight) \div 8 \in Pages
<1> TAKE r \in 1..TextRows
<1> DEFINE h == FocusFont.height
           zero == 0
<1>1. /\ h \in {8, 16} /\ LcdHeight \in 1..64 /\ TextRows \in Nat /\ TextRows >= 1
      /\ LcdHeight = h * TextRows
  BY Sizes DEF Fonts
<1>2. zero \in 0..(LcdHeight - 1) /\ zero % h = 0
  BY <1>1
<1> HIDE DEF h, zero
<1>3. (((r - 1) * h + zero) % LcdHeight) \div 8 \in 0..(LcdHeight \div 8 - 1)
  BY ONLY <1>1, <1>2, RingRows, r \in 1..TextRows, SMT
<1> QED BY <1>3 DEF h, zero, Pages

LEMMA StepShows ==
  ASSUME IInv, IInv', [Next]_vars
  PROVE  [Text!Next]_(Text!vars)
<1> DEFINE active == phase = "focus"
<1>0. /\ Text!Focus <=> ~active /\ active' = TRUE /\ Shows' = Text!Home
      /\ Text!Blur <=> active /\ active' = FALSE /\ Shows' = Text!Home
      /\ (UNCHANGED Text!vars) <=> Shows' = Shows /\ active' = active
  BY DEF Text!Focus, Text!Blur, Text!vars, Shows
<1>1. CASE MsgInit
  <2>1. phase # "focus" /\ phase' # "focus"
    BY <1>1 DEF MsgInit
  <2>2. Shows' = Shows
    BY <2>1 DEF Shows
  <2> QED BY <1>0, <2>1, <2>2
<1>2. CASE MsgSetFocus
  <2>1. phase # "focus" /\ phase' = "focus"
    BY <1>2 DEF MsgSetFocus
  <2>2. Sized' /\ Good(con)'
    BY <2>1 DEF IInv
  <2>3. con'.row = 1 /\ con'.col = 1 /\ con'.ram = BlankRam
    BY <1>2 DEF MsgSetFocus, ClearScreen, OS3K_ClearScreen, LCD_SetScreenRoll, IInv, ConState
  <2>4. Window' = [r \in 1..TextRows |-> Text!BlankRow]
    <3>1. \A r \in 1..TextRows : (((r - 1) * FocusFont.height + 0) % LcdHeight) \div 8 \in Pages
      BY RowsOnPages
    <3>2. font' = FocusFont /\ maxRow' = TextRows /\ con'.roll = 0
      BY <1>2, <2>2 DEF Sized, MsgSetFocus, ClearScreen, OS3K_ClearScreen, LCD_SetScreenRoll, IInv, ConState
    <3>4. \A r \in 1..maxRow' :
            con'.ram[(((r - 1) * font'.height + con'.roll) % LcdHeight) \div 8] = Text!BlankRow
      BY <2>3, <3>1, <3>2, ColumnsAreText DEF BlankRam, Text!BlankRow
    <3>3. maxRow' = TextRows
      BY <2>2 DEF Sized
    <3> QED BY <3>3, <3>4 DEF Window
  <2>5. Shows' = Text!Home
    BY <2>1, <2>3, <2>4 DEF Shows, Text!Home
  <2> QED BY <1>0, <2>1, <2>5 DEF Text!Next
<1>3. CASE MsgKillFocus
  <2>1. phase = "focus" /\ phase' # "focus"
    BY <1>3 DEF MsgKillFocus
  <2>2. Shows' = Text!Home
    BY <2>1 DEF Shows, Text!Home, Text!BlankRow
  <2> QED BY <1>0, <2>1, <2>2 DEF Text!Next
<1>4. ASSUME InFocus
      PROVE  /\ Sized /\ Good(con)
             /\ Glass(con') = Glass(con) => [Text!Next]_(Text!vars)
             /\ \/ Glass(con') = Text!Home
                \/ \E r \in 1..TextRows, c \in 1..TextCols : Glass(con') = Text!Moved(Glass(con), r, c)
                \/ \E g \in Glyphs \cup {Blank} : Glass(con') = Text!Printed(Glass(con), g)
                \/ Glass(con') = Text!LineFeed(Glass(con))
                \/ Glass(con') = Text!CarriageReturn(Glass(con))
                \/ Glass(con') = Text!Backspace(Glass(con))
                => Text!Next
  <2>1. Shows' = Glass(con') /\ Shows = Glass(con) /\ phase = "focus" /\ phase' = "focus"
    BY <1>4, ShowsNext
  <2>2. Sized /\ Good(con)
    BY <2>1 DEF IInv
  <2>3. Glass(con') = Glass(con) => [Text!Next]_(Text!vars)
    BY <1>0, <2>1
  <2>4. Text!Write <=>
          /\ active /\ active' = active
          /\ \/ Shows' = Text!Home
             \/ \E r \in 1..TextRows, c \in 1..TextCols : Shows' = Text!Moved(Shows, r, c)
             \/ \E g \in Glyphs \cup {Blank} : Shows' = Text!Printed(Shows, g)
             \/ Shows' = Text!LineFeed(Shows)
             \/ Shows' = Text!CarriageReturn(Shows)
             \/ Shows' = Text!Backspace(Shows)
    BY DEF Text!Write, Shows
  <2> QED BY <2>1, <2>2, <2>3, <2>4 DEF Text!Next
<1>5. CASE CallClearScreen
  <2>1. InFocus /\ con' = ClearScreen(con)
    BY <1>5 DEF CallClearScreen
  <2>2. con \in ConState /\ ~con.torn
    BY DEF IInv
  <2> QED BY <1>4, <2>1, <2>2, ClearScreenShows
<1>6. CASE CallSetCursor
  <2>1. InFocus
    BY <1>6 DEF CallSetCursor
  <2>2. PICK r \in 1..maxRow, c \in 1..maxCol, mode \in {CURSOR_MODE_HIDE, CURSOR_MODE_SHOW} :
          con' = SetCursor(con, r, c, mode)
    BY <1>6 DEF CallSetCursor
  <2>3. Glass(con') = Text!Moved(Glass(con), r, c)
    BY <1>4, <2>1, <2>2, MoveShows
  <2>4. r \in 1..TextRows /\ c \in 1..TextCols
    BY <1>4, <2>1 DEF Sized
  <2> QED BY <1>4, <2>1, <2>3, <2>4
<1>7. CASE CallSetCursorMode
  <2>1. InFocus /\ \E mode : con' = SetCursorMode(con, mode)
    BY <1>7 DEF CallSetCursorMode
  <2>2. con \in ConState
    BY DEF IInv
  <2>3. Glass(con') = Glass(con)
    BY <2>1, <2>2, ModeShows
  <2> QED BY <1>4, <2>1, <2>3
<1>8. ASSUME NEW ch \in Chars, CallFputc(ch)
      PROVE  [Text!Next]_(Text!vars)
  <2>1. InFocus /\ con' = fputc(con, ch)
    BY <1>8 DEF CallFputc
  <2>2. \/ Glass(con') = Glass(con)
        \/ Glass(con') = Text!Backspace(Glass(con))
        \/ Glass(con') = Text!LineFeed(Glass(con))
        \/ Glass(con') = Text!CarriageReturn(Glass(con))
        \/ \E g \in Glyphs \cup {Blank} : Glass(con') = Text!Printed(Glass(con), g)
    BY <1>4, <2>1, fputcShows
  <2> QED BY <1>4, <2>1, <2>2
<1>9. CASE UNCHANGED vars
  <2>1. Shows' = Shows /\ active' = active
    BY <1>9 DEF vars, Shows, Window
  <2> QED BY <1>0, <2>1
<1> QED BY <1>1, <1>2, <1>3, <1>5, <1>6, <1>7, <1>8, <1>9 DEF Next

(***************************************************************************)
(* What an applet's output leaves on the glass, drawn by the console into  *)
(* a ring of LCD lines under a start-line register, is what it leaves on a *)
(* plain window of text that scrolls, for every LCD and font.              *)
(***************************************************************************)
THEOREM ImplementsTerminal == Spec => ShowsTerminal
  BY Invariance, InitShows, StepShows, PTL DEF Spec, ShowsTerminal, Text!Spec

-----------------------------------------------------------------------------
(* The pages of one text row show the same.                                *)

\* Each text row lies on one page or on two, and these hold the same glyphs.
Twin(k) == \A p, q \in Pages : (8 * p) \div font.height = (8 * q) \div font.height => k.ram[p] = k.ram[q]

\* A band of a text row holds both of two such pages or none.
LEMMA BandTwins ==
  ASSUME NEW h \in {8, 16}, NEW y \in 0..63, y % h = 0, NEW p \in 0..7, NEW q \in 0..7,
         (8 * p) \div h = (8 * q) \div h
  PROVE  (y <= 8 * p /\ 8 * p < y + h) <=> (y <= 8 * q /\ 8 * q < y + h)
<1>1. CASE h = 8
  BY <1>1
<1>2. CASE h = 16
  BY <1>2
<1> QED BY <1>1, <1>2

\* The line a text row starts on is a multiple of the font's height.
Starts(h, n, roll, r) == ((r - 1) * h + roll) % n

Ring(h, n, roll, r) ==
  /\ h \in {8, 16} /\ n \in 1..64 /\ roll \in 0..(n - 1) /\ roll % h = 0
  /\ \E rows \in Nat : n = h * rows /\ r \in 1..rows

LEMMA TopMultiple ==
  ASSUME NEW h, NEW n, NEW roll, NEW r, Ring(h, n, roll, r)
  PROVE  Starts(h, n, roll, r) \in 0..63 /\ Starts(h, n, roll, r) % h = 0
<1> DEFINE a == (r - 1) * h + roll
<1>0. h \in {8, 16} /\ n \in 1..64 /\ roll \in 0..(n - 1) /\ roll % h = 0 /\ Starts(h, n, roll, r) = a % n
  BY DEF Ring, Starts
<1> PICK rows \in Nat : n = h * rows /\ r \in 1..rows
  BY DEF Ring
<1>1. CASE h = 8
  <2>1. a \in 0..(2 * n - 1) /\ a % 8 = 0 /\ n % 8 = 0
    BY <1>0, <1>1
  <2> HIDE DEF a
  <2>2. a % n = IF a >= n THEN a - n ELSE a
    BY <1>0, <2>1, WrapOnce
  <2>3. a % n \in 0..(n - 1) /\ (a % n) % 8 = 0
    BY <1>0, <2>1, <2>2
  <2> QED BY <1>0, <1>1, <2>3
<1>2. CASE h = 16
  <2>1. a \in 0..(2 * n - 1) /\ a % 16 = 0 /\ n % 16 = 0
    BY <1>0, <1>2
  <2> HIDE DEF a
  <2>2. a % n = IF a >= n THEN a - n ELSE a
    BY <1>0, <2>1, WrapOnce
  <2>3. a % n \in 0..(n - 1) /\ (a % n) % 16 = 0
    BY <1>0, <2>1, <2>2
  <2> QED BY <1>0, <1>2, <2>3
<1> QED BY <1>0, <1>1, <1>2

\* Where a good console draws.
LEMMA YMultiple ==
  ASSUME Sized, NEW k, Good(k)
  PROVE  k.y \in 0..63 /\ k.y % font.height = 0
<1>1. /\ font.height \in {8, 16} /\ LcdHeight \in 1..64 /\ maxRow \in Nat /\ LcdHeight = font.height * maxRow
  BY Sizes DEF Sized, Fonts
<1>2. /\ k.roll \in 0..(LcdHeight - 1) /\ k.roll % font.height = 0 /\ k.row \in 1..maxRow
      /\ k.y = ((k.row - 1) * font.height + k.roll) % LcdHeight
  BY DEF Good, OnLcd, ConState
<1>3. Ring(font.height, LcdHeight, k.roll, k.row)
  BY <1>1, <1>2 DEF Ring
<1>4. k.y = Starts(font.height, LcdHeight, k.roll, k.row)
  BY <1>2 DEF Starts
<1> QED BY <1>3, <1>4, TopMultiple

LEMMA BandOfTwins ==
  ASSUME Sized, NEW y \in 0..63, y % font.height = 0, NEW p \in Pages, NEW q \in Pages,
         (8 * p) \div font.height = (8 * q) \div font.height
  PROVE  p \in Band(y) <=> q \in Band(y)
<1>1. font.height \in {8, 16} /\ LcdHeight \in 1..64
  BY Sizes DEF Sized, Fonts
<1>2. p \in 0..7 /\ q \in 0..7
  BY <1>1 DEF Pages
<1>3. (y <= 8 * p /\ 8 * p < y + font.height) <=> (y <= 8 * q /\ 8 * q < y + font.height)
  BY <1>1, <1>2, BandTwins
<1> QED BY <1>3 DEF Band

LEMMA DrawTwin ==
  ASSUME Sized, NEW k, k \in ConState, Twin(k), NEW x, NEW ch, NEW y \in 0..63, y % font.height = 0
  PROVE  Twin(DrawBitmap(k, x, y, ch))
<1> DEFINE d == DrawBitmap(k, x, y, ch)
<1>1. d.ram = [p \in Pages |-> IF p \in Band(y) THEN [k.ram[p] EXCEPT ![x \div 6 + 1] = ch] ELSE k.ram[p]]
  BY DEF DrawBitmap, ConState
<1> HIDE DEF d
<1> SUFFICES ASSUME NEW p \in Pages, NEW q \in Pages,
                    (8 * p) \div font.height = (8 * q) \div font.height
             PROVE  d.ram[p] = d.ram[q]
  BY DEF Twin, d
<1>2. k.ram[p] = k.ram[q] /\ (p \in Band(y) <=> q \in Band(y))
  BY BandOfTwins DEF Twin
<1> QED BY <1>1, <1>2

LEMMA WhitenTwin ==
  ASSUME Sized, NEW k, k \in ConState, Twin(k), NEW x, NEW y \in 0..63, y % font.height = 0
  PROVE  Twin(Whiten(k, x, y))
<1> DEFINE d == Whiten(k, x, y)
<1>1. d.ram = [p \in Pages |-> [c \in Columns |-> IF p \in Band(y) /\ c > x \div 6 THEN Blank ELSE k.ram[p][c]]]
  BY DEF Whiten, ConState
<1> HIDE DEF d
<1> SUFFICES ASSUME NEW p \in Pages, NEW q \in Pages,
                    (8 * p) \div font.height = (8 * q) \div font.height
             PROVE  d.ram[p] = d.ram[q]
  BY DEF Twin, d
<1>2. k.ram[p] = k.ram[q] /\ (p \in Band(y) <=> q \in Band(y))
  BY BandOfTwins DEF Twin
<1> QED BY <1>1, <1>2

\* What SetCursor leaves alone, and where the screen is rolled to.
LEMMA SetCursorKeeps ==
  ASSUME Sized, NEW k, Good(k), NEW r \in 0..(maxRow + 1), NEW c \in 1..maxCol,
         NEW mode \in {CURSOR_MODE_HIDE, CURSOR_MODE_SHOW}
  PROVE  LET s == SetCursor(k, r, c, mode) IN
         /\ s.pix = k.pix
         /\ s.roll = IF r \in 1..maxRow THEN k.roll ELSE Rolled(k, r).roll
         /\ Twin(k) => Twin(s)
<1> DEFINE hidden == SetCursorMode(k, CURSOR_MODE_HIDE)
           edge   == IF r < 1 THEN 1 ELSE maxRow
           s      == SetCursor(k, r, c, mode)
<1>1. /\ RollGood(hidden) /\ hidden.pix = k.pix /\ hidden.roll = k.roll /\ hidden.ram = k.ram
  <2>1. Good(hidden) /\ ~Shown(hidden)
    BY ModeGood DEF CURSOR_MODE_HIDE, CURSOR_MODE_SHOW
  <2>2. hidden.pix = k.pix /\ hidden.roll = k.roll /\ hidden.ram = k.ram
    BY DEF SetCursorMode, Good, ConState
  <2> HIDE DEF hidden
  <2> QED BY <2>1, <2>2 DEF RollGood, Good, OnLcd
<1>2. maxRow \in Nat /\ maxRow >= 1 /\ maxCol \in Nat /\ r \in Nat
  BY Sizes DEF Sized
<1>3. CASE r < 1 \/ r > maxRow
  <2> DEFINE j == Rolled(hidden, r)
             p == Placed(j, edge, c)
             w == Whiten(p, p.x, p.y)
  <2>1. RollGood(j) /\ j.roll = Rolled(k, r).roll /\ j.pix = k.pix /\ j.ram = k.ram
    <3>1. RollGood(j)
      BY <1>1, <1>2, RolledGood
    <3>2. k \in ConState /\ hidden \in ConState
      BY <1>1 DEF Good, RollGood
    <3> HIDE DEF hidden
    <3> QED BY <1>1, <3>1, <3>2 DEF Rolled, LCD_SetScreenRoll, ConState
  <2>2. edge \in 1..maxRow
    BY <1>2
  <2> HIDE DEF j
  <2>3. /\ Good(p) /\ p.roll = j.roll /\ p.pix = j.pix /\ p.ram = j.ram
    <3>1. Good(p) /\ p.roll = j.roll /\ p.ram = j.ram
      BY <2>1, <2>2, PlacedGood, PlacedShows
    <3>2. p.pix = j.pix
      BY <2>1 DEF Placed, RollGood, ConState
    <3> QED BY <3>1, <3>2
  <2>4. s = SetCursorMode(w, mode)
    BY <1>3 DEF SetCursor, j
  <2> HIDE DEF p
  <2>5. w.roll = p.roll /\ w.pix = p.pix /\ {"roll", "pix", "ram"} \subseteq DOMAIN w
    BY <2>3 DEF Whiten, Good, ConState
  <2>6. Twin(k) => Twin(w)
    <3>1. Twin(k) => Twin(p)
      BY <2>1, <2>3 DEF Twin
    <3> QED BY <2>3, <3>1, YMultiple, WhitenTwin DEF Good
  <2> HIDE DEF w
  <2>7. s.roll = w.roll /\ s.pix = w.pix /\ s.ram = w.ram
    BY <2>4, <2>5 DEF SetCursorMode
  <2>8. r \notin 1..maxRow
    BY <1>2, <1>3
  <2> HIDE DEF s
  <2> QED BY <2>1, <2>3, <2>5, <2>6, <2>7, <2>8 DEF Twin, s
<1>4. CASE r \in 1..maxRow
  <2> DEFINE p == Placed(hidden, r, c)
  <2>1. Good(p) /\ p.roll = hidden.roll /\ p.ram = hidden.ram
    BY <1>1, <1>4, PlacedGood, PlacedShows
  <2>2. p.pix = hidden.pix
    BY <1>1 DEF Placed, RollGood, ConState
  <2>3. s = SetCursorMode(p, mode)
    BY <1>2, <1>4 DEF SetCursor
  <2> HIDE DEF p
  <2>4. s.roll = p.roll /\ s.pix = p.pix /\ s.ram = p.ram
    BY <2>1, <2>3 DEF SetCursorMode, Good, ConState
  <2> HIDE DEF s, hidden
  <2> QED BY <1>1, <1>4, <2>1, <2>2, <2>4 DEF Twin, s, hidden
<1> QED BY <1>2, <1>3, <1>4

\* Two consoles scrolled alike, in the same modes.
Alike(j, k) == j.roll = k.roll /\ j.mode = k.mode /\ j.pix = k.pix

\* Where the screen is rolled to by a line feed on its last row.
RollBelow(k) == Rolled(k, maxRow + 1).roll

\* The abstract window prints a glyph: on the line, behind it and behind the last line.

\* One cell of a window is changed.
Changed(w, a, b, ch) == [w EXCEPT ![a][b] = ch]

Reads(s, w, r, c) == {"win", "row", "col"} \subseteq DOMAIN s /\ s.win = w /\ s.row = r /\ s.col = c

LEMMA PutReads ==
  ASSUME NEW w, NEW r, NEW c, NEW ch, NEW s, Reads(s, w, r, c)
  PROVE  Reads([s EXCEPT !.win[s.row][s.col] = ch, !.col = s.col + 1], Changed(w, r, c, ch), r, c + 1)
BY DEF Reads, Changed

LEMMA PrintedReads ==
  ASSUME NEW w, NEW a \in Nat, NEW b \in Nat, NEW ch, NEW s, Reads(s, w, a, b),
         TextRows \in Nat, TextCols \in Nat
  PROVE  LET p == Text!Printed(s, ch) IN
         /\ b <= TextCols => Reads(p, Changed(w, a, b, ch), a, b + 1)
         /\ b > TextCols /\ a < TextRows => Reads(p, Changed(w, a + 1, 1, ch), a + 1, 1 + 1)
         /\ b > TextCols /\ a = TextRows =>
              Reads(p, Changed(Text!ScrolledUp(w), TextRows, 1, ch), TextRows, 1 + 1)
<1> DEFINE at == IF s.col > TextCols THEN Text!LineFeed(s) ELSE s
           p  == Text!Printed(s, ch)
<1>1. p = [at EXCEPT !.win[at.row][at.col] = ch, !.col = at.col + 1]
  BY DEF Text!Printed
<1>2. {"win", "row", "col"} \subseteq DOMAIN s /\ s.win = w /\ s.row = a /\ s.col = b
  BY DEF Reads
<1> HIDE DEF p
<1>6. ASSUME NEW v, NEW r, NEW c, Reads(at, v, r, c) PROVE Reads(p, Changed(v, r, c, ch), r, c + 1)
  <2> HIDE DEF at
  <2>1. Reads([at EXCEPT !.win[at.row][at.col] = ch, !.col = at.col + 1], Changed(v, r, c, ch), r, c + 1)
    BY <1>6, PutReads, Zenon
  <2> QED BY <1>1, <2>1
<1>3. ASSUME b <= TextCols PROVE Reads(p, Changed(w, a, b, ch), a, b + 1)
  <2>1. Reads(at, w, a, b)
    BY <1>2, <1>3 DEF Reads
  <2> HIDE DEF at
  <2> QED BY <1>6, <2>1
<1>4. ASSUME b > TextCols, a < TextRows PROVE Reads(p, Changed(w, a + 1, 1, ch), a + 1, 1 + 1)
  <2>1. at = Text!Moved(s, a + 1, 1)
    BY <1>2, <1>4 DEF Text!LineFeed
  <2> HIDE DEF at
  <2>2. Reads(at, w, a + 1, 1)
    BY <1>2, <2>1 DEF Text!Moved, Reads
  <2> QED BY <1>6, <2>2
<1>5. ASSUME b > TextCols, a = TextRows
      PROVE  Reads(p, Changed(Text!ScrolledUp(w), TextRows, 1, ch), TextRows, 1 + 1)
  <2>1. at = [win |-> Text!ScrolledUp(w), row |-> TextRows, col |-> 1]
    BY <1>2, <1>5 DEF Text!LineFeed
  <2> HIDE DEF at
  <2>2. Reads(at, Text!ScrolledUp(w), TextRows, 1)
    BY <2>1 DEF Reads
  <2> QED BY <1>6, <2>2
<1> QED BY <1>3, <1>4, <1>5 DEF p

\* What is on the screen after a glyph, and where.
LEMMA PutMoves ==
  ASSUME Sized, NEW k, Good(k), Twin(k), NEW ch \in Glyphs \cup {Blank}
  PROVE  LET j == PutGlyph(k, ch) IN
         /\ Good(j) /\ Twin(j) /\ j.mode = k.mode /\ j.pix = k.pix
         /\ k.col \in 1..maxCol =>
              /\ j.row = k.row /\ j.col = k.col + 1 /\ j.roll = k.roll
              /\ Win(j) = Changed(Win(k), k.row, k.col, ch)
         /\ k.col = maxCol + 1 /\ k.row < maxRow =>
              /\ j.row = k.row + 1 /\ j.col = 2 /\ j.roll = k.roll
              /\ Win(j) = Changed(Win(k), k.row + 1, 1, ch)
         /\ k.col = maxCol + 1 /\ k.row = maxRow =>
              /\ j.row = maxRow /\ j.col = 2 /\ j.roll = RollBelow(k)
              /\ Win(j) = Changed(Text!ScrolledUp(Win(k)), maxRow, 1, ch)
<1> DEFINE hidden == IF k.x = LcdWidth - 1 THEN SetCursor(k, k.row + 1, 1, CURSOR_MODE_HIDE)
                                           ELSE SetCursorMode(k, CURSOR_MODE_HIDE)
           drawn  == DrawBitmap(hidden, hidden.x, hidden.y, ch)
           x      == drawn.x + font.max_width
           nx     == IF x = LcdWidth THEN x - 1 ELSE x
           torn   == drawn.torn \/ Shown(drawn)
           moved  == [drawn EXCEPT !.x = nx, !.torn = torn, !.col = drawn.col + 1]
           j      == PutGlyph(k, ch)
<1>1. /\ maxRow \in Nat /\ maxRow >= 1 /\ maxCol \in Nat /\ maxCol >= 1
      /\ maxCol = TextCols /\ maxRow = TextRows /\ LcdWidth = 6 * maxCol
      /\ k.row \in 1..maxRow /\ k.col \in 1..(maxCol + 1)
      /\ CURSOR_MODE_HIDE \in {CURSOR_MODE_HIDE, CURSOR_MODE_SHOW}
  BY Sizes, GoodFacts DEF Sized
<1>2. k.x = LcdWidth - 1 <=> k.col = maxCol + 1
  BY <1>1 DEF Good, OnLcd
<1>3. Good(hidden) /\ Twin(hidden) /\ ~Shown(hidden) /\ hidden.pix = k.pix
      /\ hidden.roll = IF k.col = maxCol + 1 /\ k.row = maxRow THEN RollBelow(k) ELSE k.roll
  <2>1. CASE k.x = LcdWidth - 1
    <3>1. hidden = SetCursor(k, k.row + 1, 1, CURSOR_MODE_HIDE)
      BY <2>1
    <3>2. k.row + 1 \in 0..(maxRow + 1) /\ 1 \in 1..maxCol
      BY <1>1
    <3>3. Good(hidden) /\ hidden.mode = CURSOR_MODE_HIDE
      <4>1. k \in ConState /\ ~k.torn /\ k.start = k.roll /\ k.roll % font.height = 0
        BY GoodFacts
      <4> HIDE DEF hidden
      <4> QED BY ONLY Sized, <1>1, <3>1, <3>2, <4>1, SetCursorGood
    <3> HIDE DEF hidden
    <3> DEFINE r == k.row + 1
    <3>7. r \in 0..(maxRow + 1) /\ r = k.row + 1 /\ hidden = SetCursor(k, r, 1, CURSOR_MODE_HIDE)
      BY <3>1, <3>2
    <3> HIDE DEF r
    <3>8. /\ hidden.pix = k.pix /\ (Twin(k) => Twin(hidden))
          /\ hidden.roll = IF r \in 1..maxRow THEN k.roll ELSE Rolled(k, r).roll
      <4> DEFINE c == 1
                 m == CURSOR_MODE_HIDE
      <4>1. c \in 1..maxCol /\ m \in {CURSOR_MODE_HIDE, CURSOR_MODE_SHOW} /\ r \in 0..(maxRow + 1)
        BY <1>1, <3>2, <3>7
      <4>2. hidden = SetCursor(k, r, c, m)
        BY <3>7
      <4> HIDE DEF c, m
      <4> QED BY ONLY Sized, Good(k), <4>1, <4>2, SetCursorKeeps
    <3>4. /\ hidden.pix = k.pix /\ Twin(hidden)
          /\ hidden.roll = IF k.row + 1 \in 1..maxRow THEN k.roll ELSE Rolled(k, k.row + 1).roll
      BY <3>7, <3>8, Twin(k)
    <3>5. k.row = maxRow \/ k.row + 1 \in 1..maxRow
      BY <1>1
    <3>6. k.row = maxRow => k.row + 1 \notin 1..maxRow
      BY <1>1
    <3> QED BY <1>1, <1>2, <2>1, <3>3, <3>4, <3>5, <3>6 DEF Shown, CURSOR_MODE_HIDE, CURSOR_MODE_SHOW, RollBelow
  <2>2. CASE k.x # LcdWidth - 1
    <3>1. hidden = SetCursorMode(k, CURSOR_MODE_HIDE)
      BY <2>2
    <3>2. hidden.pix = k.pix /\ hidden.roll = k.roll /\ hidden.ram = k.ram
      BY <3>1 DEF SetCursorMode, Good, ConState
    <3>3. Good(hidden) /\ ~Shown(hidden)
      BY <1>1, <3>1, ModeGood
    <3> HIDE DEF hidden
    <3> QED BY <1>2, <2>2, <3>2, <3>3 DEF Twin
  <2> QED BY <2>1, <2>2
<1> HIDE DEF hidden
<1>4. Twin(drawn)
  BY <1>3, YMultiple, DrawTwin DEF Good
<1>5. drawn.roll = hidden.roll /\ drawn.pix = hidden.pix /\ Good(drawn)
  <2>1. Good(drawn)
    BY <1>3, DrawGood
  <2>2. drawn.roll = hidden.roll /\ drawn.pix = hidden.pix
    BY <1>3 DEF DrawBitmap, Good, ConState
  <2> QED BY <2>1, <2>2
<1>6. j = SetCursorMode(moved, k.mode)
  BY DEF PutGlyph, hidden
<1> HIDE DEF drawn, nx, torn
<1>7. j.roll = drawn.roll /\ j.pix = drawn.pix /\ j.ram = drawn.ram /\ j.mode = k.mode
  <2>1. moved.roll = drawn.roll /\ moved.pix = drawn.pix /\ moved.ram = drawn.ram
    BY <1>5 DEF Good, ConState
  <2>2. DOMAIN moved = DOMAIN drawn
    OBVIOUS
  <2>3. {"roll", "pix", "ram", "mode"} \subseteq DOMAIN drawn
    BY <1>5 DEF Good, ConState
  <2> HIDE DEF moved
  <2> QED BY <1>6, <2>1, <2>2, <2>3 DEF SetCursorMode
<1> HIDE DEF moved
<1>8. Good(j)
  BY PutGlyphGood
<1>9. Twin(j)
  BY <1>4, <1>7 DEF Twin
<1>10. Glass(j) = Text!Printed(Glass(k), ch)
  BY PutGlyphShows
<1> HIDE DEF j
<1> DEFINE w  == Win(k)
           up == Text!ScrolledUp(w)
<1>11. Reads(Glass(k), w, k.row, k.col)
  BY DEF Glass, Reads
<1>14. k.row \in Nat /\ k.col \in Nat /\ TextRows \in Nat /\ TextCols \in Nat
  BY <1>1
<1> HIDE DEF w
<1>15. /\ k.col <= TextCols => Reads(Glass(j), Changed(w, k.row, k.col, ch), k.row, k.col + 1)
       /\ k.col > TextCols /\ k.row < TextRows => Reads(Glass(j), Changed(w, k.row + 1, 1, ch), k.row + 1, 1 + 1)
       /\ k.col > TextCols /\ k.row = TextRows => Reads(Glass(j), Changed(up, TextRows, 1, ch), TextRows, 1 + 1)
  <2> DEFINE g == Glass(k)
             a == k.row
             b == k.col
  <2>1. Reads(g, w, a, b) /\ a \in Nat /\ b \in Nat
    BY <1>11, <1>14
  <2>2. Glass(j) = Text!Printed(g, ch)
    BY <1>10
  <2> HIDE DEF g, a, b
  <2>3. /\ b <= TextCols => Reads(Text!Printed(g, ch), Changed(w, a, b, ch), a, b + 1)
        /\ b > TextCols /\ a < TextRows => Reads(Text!Printed(g, ch), Changed(w, a + 1, 1, ch), a + 1, 1 + 1)
        /\ b > TextCols /\ a = TextRows => Reads(Text!Printed(g, ch), Changed(up, TextRows, 1, ch), TextRows, 1 + 1)
    <3>1. TextRows \in Nat /\ TextCols \in Nat
      BY <1>14
    <3> QED BY ONLY <2>1, <3>1, PrintedReads, Zenon
  <2> QED BY <2>2, <2>3 DEF a, b
<1> HIDE DEF up
<1>17. ASSUME NEW v, NEW r, NEW c, Reads(Glass(j), v, r, c)
       PROVE  j.row = r /\ j.col = c /\ Win(j) = v
  BY <1>17 DEF Reads, Glass
<1>12. ASSUME k.col \in 1..maxCol
       PROVE  j.row = k.row /\ j.col = k.col + 1 /\ Win(j) = Changed(w, k.row, k.col, ch)
  <2>1. Reads(Glass(j), Changed(w, k.row, k.col, ch), k.row, k.col + 1)
    BY <1>1, <1>12, <1>15
  <2> QED BY <2>1, <1>17
<1>13. ASSUME k.col = maxCol + 1
       PROVE  /\ k.row < maxRow => j.row = k.row + 1 /\ j.col = 2 /\ Win(j) = Changed(w, k.row + 1, 1, ch)
              /\ k.row = maxRow => j.row = maxRow /\ j.col = 2 /\ Win(j) = Changed(up, maxRow, 1, ch)
  <2>1. k.col > TextCols /\ 1 + 1 = 2
    BY <1>1, <1>13
  <2>2. ASSUME k.row < maxRow PROVE j.row = k.row + 1 /\ j.col = 2 /\ Win(j) = Changed(w, k.row + 1, 1, ch)
    <3>1. Reads(Glass(j), Changed(w, k.row + 1, 1, ch), k.row + 1, 1 + 1)
      BY <1>1, <1>15, <2>1, <2>2
    <3>2. j.row = k.row + 1 /\ j.col = 1 + 1 /\ Win(j) = Changed(w, k.row + 1, 1, ch)
      BY <3>1, <1>17
    <3> QED BY <2>1, <3>2
  <2>3. ASSUME k.row = maxRow PROVE j.row = maxRow /\ j.col = 2 /\ Win(j) = Changed(up, maxRow, 1, ch)
    <3>1. Reads(Glass(j), Changed(up, maxRow, 1, ch), maxRow, 1 + 1)
      BY <1>1, <1>15, <2>1, <2>3
    <3>2. j.row = maxRow /\ j.col = 1 + 1 /\ Win(j) = Changed(up, maxRow, 1, ch)
      BY <3>1, <1>17
    <3> QED BY <2>1, <3>2
  <2> QED BY <2>2, <2>3
<1>16. (k.col \in 1..maxCol => j.roll = k.roll)
       /\ (k.col = maxCol + 1 /\ k.row < maxRow => j.roll = k.roll)
       /\ (k.col = maxCol + 1 /\ k.row = maxRow => j.roll = RollBelow(k))
  BY <1>1, <1>3, <1>5, <1>7
<1> QED BY <1>3, <1>5, <1>7, <1>8, <1>9, <1>12, <1>13, <1>16 DEF j, w, up

\* A backspace that is not at the first cell moves back by a cell, and that is all.
LEMMA BackMoves ==
  ASSUME Sized, NEW k, Good(k), Twin(k), k.col > 1 \/ k.row > 1
  PROVE  LET j == Backspace(k) IN
         /\ Good(j) /\ Twin(j) /\ Alike(j, k) /\ Win(j) = Win(k)
         /\ k.col > 1 => j.row = k.row /\ j.col = k.col - 1
         /\ ~(k.col > 1) => j.row = k.row - 1 /\ j.col = maxCol
<1> DEFINE r == IF k.col > 1 THEN k.row ELSE k.row - 1
           c == IF k.col > 1 THEN k.col - 1 ELSE maxCol
           j == SetCursor(k, r, c, k.mode)
<1>1. /\ maxRow \in Nat /\ maxRow >= 1 /\ maxCol \in Nat /\ maxCol >= 1
      /\ k.row \in 1..maxRow /\ k.col \in 1..(maxCol + 1)
      /\ k.mode \in {CURSOR_MODE_HIDE, CURSOR_MODE_SHOW}
      /\ k \in ConState /\ ~k.torn /\ k.start = k.roll /\ k.roll % font.height = 0
  BY Sizes, GoodFacts DEF Sized
<1>2. r \in 1..maxRow /\ r \in 0..(maxRow + 1) /\ c \in 1..maxCol
  BY <1>1
<1>3. Backspace(k) = j
  BY DEF Backspace
<1> HIDE DEF r, c
<1>4. Good(j) /\ j.mode = k.mode
  BY <1>1, <1>2, SetCursorGood
<1>5. j.pix = k.pix /\ j.roll = k.roll /\ Twin(j)
  BY <1>1, <1>2, SetCursorKeeps
<1>6. Glass(j) = Text!Moved(Glass(k), r, c)
  BY <1>1, <1>2, MoveShows
<1> HIDE DEF j
<1>7. Win(j) = Win(k) /\ j.row = r /\ j.col = c
  BY <1>6 DEF Glass, Text!Moved
<1> QED BY <1>3, <1>4, <1>5, <1>7 DEF Alike, r, c

\* Characters that are printed, and the one that moves back.
LEMMA fputcIs ==
  ASSUME NEW k
  PROVE  /\ fputc(k, BS) = Backspace(k)
         /\ \A ch \in Glyphs \cup {Blank} : fputc(k, ch) = PutGlyph(k, ch)
<1>1. fputc(k, BS) = Backspace(k)
  BY DEF fputc, BS, BEL
<1>2. ASSUME NEW ch \in Glyphs \cup {Blank} PROVE fputc(k, ch) = PutGlyph(k, ch)
  <2>1. ch # BEL /\ ch # BS /\ ch # LF /\ ch # CR
    BY CharsAssumption
  <2> QED BY <2>1 DEF fputc
<1> QED BY <1>1, <1>2

\* Rubbing out blanks the cell before the position and leaves the position at it.
LEMMA RubMoves ==
  ASSUME Sized, NEW k, Good(k), Twin(k), k.col > 1 \/ k.row > 1
  PROVE  LET j == RubOut(k)
             r == IF k.col > 1 THEN k.row ELSE k.row - 1
             c == IF k.col > 1 THEN k.col - 1 ELSE maxCol
         IN  /\ Good(j) /\ Twin(j) /\ Alike(j, k)
             /\ j.row = r /\ j.col = c /\ c \in 1..maxCol /\ r \in 1..maxRow
             /\ Win(j) = Changed(Win(k), r, c, Blank)
<1> DEFINE a == Backspace(k)
           b == PutGlyph(a, Blank)
           j == Backspace(b)
           r == IF k.col > 1 THEN k.row ELSE k.row - 1
           c == IF k.col > 1 THEN k.col - 1 ELSE maxCol
<1>1. RubOut(k) = j
  <2>1. fputc(k, BS) = a
    BY fputcIs
  <2>2. fputc(a, Blank) = b
    BY fputcIs
  <2>3. fputc(b, BS) = j
    BY fputcIs
  <2> QED BY <2>1, <2>2, <2>3 DEF RubOut
<1>2. /\ maxRow \in Nat /\ maxRow >= 1 /\ maxCol \in Nat /\ maxCol >= 1
      /\ k.row \in 1..maxRow /\ k.col \in 1..(maxCol + 1)
  BY Sizes, GoodFacts DEF Sized
<1>3. c \in 1..maxCol /\ r \in 1..maxRow
  BY <1>2
<1>4. Good(a) /\ Twin(a) /\ Alike(a, k) /\ Win(a) = Win(k) /\ a.row = r /\ a.col = c
  BY BackMoves
<1> HIDE DEF a, r, c
<1>5. /\ Good(b) /\ Twin(b) /\ Alike(b, a) /\ b.row = r /\ b.col = c + 1
      /\ Win(b) = Changed(Win(k), r, c, Blank)
  <2>1. a.col \in 1..maxCol /\ Blank \in Glyphs \cup {Blank}
    BY <1>3, <1>4
  <2> HIDE DEF b
  <2>2. b = PutGlyph(a, Blank)
    BY DEF b
  <2>3. /\ Good(b) /\ Twin(b) /\ b.mode = a.mode /\ b.pix = a.pix
        /\ b.row = a.row /\ b.col = a.col + 1 /\ b.roll = a.roll
        /\ Win(b) = Changed(Win(a), a.row, a.col, Blank)
    BY ONLY Sized, <1>4, <2>1, <2>2, PutMoves
  <2> QED BY <1>4, <2>3 DEF Alike
<1> HIDE DEF b
<1>6. b.col > 1 /\ b.col - 1 = c
  BY <1>2, <1>3, <1>5
<1>7. Good(j) /\ Twin(j) /\ Alike(j, b) /\ Win(j) = Win(b) /\ j.row = r /\ j.col = c
  BY <1>5, <1>6, BackMoves
<1> HIDE DEF j
<1>8. Alike(j, k)
  BY <1>4, <1>5, <1>7 DEF Alike
<1> QED BY <1>1, <1>3, <1>5, <1>7, <1>8 DEF r, c

-----------------------------------------------------------------------------
(* The glass shows the whole RAM.                                          *)

\* Every page is of the text row that some row of the window is at.
LEMMA RingCovers ==
  ASSUME NEW h \in {8, 16}, NEW rows \in Nat, rows >= 1, NEW n \in 1..64, n = h * rows,
         NEW roll \in 0..(n - 1), roll % h = 0, NEW p \in 0..(n \div 8 - 1)
  PROVE  \E r \in 1..rows : (8 * p) \div h = (8 * (Starts(h, n, roll, r) \div 8)) \div h
<1>1. CASE h = 8
  <2> DEFINE s == roll \div 8
             r == IF p >= s THEN p - s + 1 ELSE p - s + rows + 1
             a == (r - 1) * 8 + roll
  <2>1. s \in 0..(rows - 1) /\ roll = 8 * s /\ n = 8 * rows /\ p \in 0..(rows - 1)
    BY <1>1
  <2> HIDE DEF s
  <2>2. r \in 1..rows /\ (a = 8 * p \/ a = 8 * p + n) /\ 8 * p < n /\ a \in 0..(2 * n - 1)
    BY <2>1
  <2>3. a % n = 8 * p
    <3> HIDE DEF a
    <3> QED BY <2>1, <2>2, WrapOnce
  <2>4. Starts(h, n, roll, r) = 8 * p
    BY <1>1, <2>3 DEF Starts
  <2> HIDE DEF r
  <2> QED BY <1>1, <2>1, <2>2, <2>4
<1>2. CASE h = 16
  <2> DEFINE s == roll \div 16
             t == p \div 2
             r == IF t >= s THEN t - s + 1 ELSE t - s + rows + 1
             a == (r - 1) * 16 + roll
  <2>1. s \in 0..(rows - 1) /\ roll = 16 * s /\ n = 16 * rows /\ t \in 0..(rows - 1) /\ (8 * p) \div 16 = t
    BY <1>2
  <2> HIDE DEF s, t
  <2>2. r \in 1..rows /\ (a = 16 * t \/ a = 16 * t + n) /\ 16 * t < n /\ a \in 0..(2 * n - 1)
    BY <2>1
  <2>3. a % n = 16 * t
    <3> HIDE DEF a
    <3> QED BY <2>1, <2>2, WrapOnce
  <2>4. Starts(h, n, roll, r) = 16 * t
    BY <1>2, <2>3 DEF Starts
  <2>5. (8 * ((16 * t) \div 8)) \div 16 = t
    BY <2>1
  <2> HIDE DEF r
  <2> QED BY <1>2, <2>1, <2>2, <2>4, <2>5
<1> QED BY <1>1, <1>2

\* Two consoles whose glasses show the same hold the same in the RAM.
LEMMA Whole ==
  ASSUME Sized, NEW j, NEW k, Good(j), Good(k), Twin(j), Twin(k), j.roll = k.roll, Win(j) = Win(k)
  PROVE  j.ram = k.ram
<1>1. /\ font.height \in {8, 16} /\ LcdHeight \in 1..64 /\ maxRow \in Nat /\ maxRow >= 1
      /\ LcdHeight = font.height * maxRow /\ k.roll \in 0..(LcdHeight - 1) /\ k.roll % font.height = 0
  BY Sizes DEF Sized, Fonts, Good, OnLcd, ConState
<1>2. j.ram \in [Pages -> [Columns -> Glyphs \cup {Blank}]] /\ k.ram \in [Pages -> [Columns -> Glyphs \cup {Blank}]]
  BY DEF Good, ConState
<1>3. ASSUME NEW p \in Pages PROVE j.ram[p] = k.ram[p]
  <2> DEFINE roll == k.roll
             h == font.height
  <2>1. p \in 0..(LcdHeight \div 8 - 1)
    BY DEF Pages
  <2>2. \E r \in 1..maxRow : (8 * p) \div h = (8 * (Starts(h, LcdHeight, roll, r) \div 8)) \div h
    <3>1. h \in {8, 16} /\ roll \in 0..(LcdHeight - 1) /\ roll % h = 0 /\ LcdHeight = h * maxRow
      BY <1>1
    <3> HIDE DEF h, roll
    <3> QED BY ONLY <1>1, <2>1, <3>1, RingCovers
  <2>3. PICK r \in 1..maxRow : (8 * p) \div h = (8 * (Starts(h, LcdHeight, roll, r) \div 8)) \div h
    BY <2>2
  <2> DEFINE q == Top(k.roll, r) \div 8
  <2>4. q \in Pages /\ (8 * p) \div font.height = (8 * q) \div font.height
    <3>1. q \in Pages
      BY <1>1, GlassType DEF Good
    <3>2. Top(k.roll, r) = Starts(font.height, LcdHeight, k.roll, r)
      BY DEF Top, Starts
    <3> QED BY <2>3, <3>1, <3>2
  <2> HIDE DEF q
  <2>5. j.ram[p] = j.ram[q] /\ k.ram[p] = k.ram[q]
    BY <2>4 DEF Twin
  <2>6. Win(k)[r] = k.ram[q] /\ Win(j)[r] = j.ram[q]
    BY DEF Win, q
  <2> QED BY <2>5, <2>6
<1> QED BY <1>2, <1>3

\* And such consoles, at the same place and alike, are the same.
LEMMA SameConsole ==
  ASSUME Sized, NEW j, NEW k, Good(j), Good(k), Twin(j), Twin(k), Alike(j, k), Win(j) = Win(k),
         j.row = k.row, j.col = k.col
  PROVE  j = k
<1>1. j.ram = k.ram
  BY Whole DEF Alike
<1>2. j.x = k.x /\ j.y = k.y /\ j.torn = k.torn /\ j.start = k.start
  BY DEF Good, OnLcd, Alike, ConState
<1>3. j \in ConState /\ k \in ConState
  BY DEF Good
<1> QED BY <1>1, <1>2, <1>3 DEF Alike, ConState

-----------------------------------------------------------------------------
(* Cells by number, along the lines from the top of the screen.            *)

Num(r, c) == (r - 1) * maxCol + c

\* How many cells are before the text position.
Pos(k) == Num(k.row, k.col) - 1

LEMMA Places ==
  ASSUME NEW m \in Nat, m >= 1, NEW r \in Nat, r >= 1, NEW a \in Nat, a >= 1, NEW c \in 1..m, NEW b \in 1..m
  PROVE  /\ r < a => (r - 1) * m + c < (a - 1) * m + 1
         /\ (r - 1) * m + c = (a - 1) * m + b => r = a /\ c = b
         /\ (r - 1) * m >= 0
<1>1. ASSUME NEW p \in Nat, NEW q \in Nat, p < q PROVE p * m + m <= q * m
  <2> DEFINE d == q - p - 1
  <2>1. d \in Nat /\ q = p + 1 + d
    BY <1>1
  <2> HIDE DEF d
  <2>2. q * m = p * m + m + d * m /\ d * m >= 0
    BY <2>1
  <2>3. p * m \in Int /\ d * m \in Int
    BY <2>1
  <2> QED BY <2>2, <2>3
<1> DEFINE u == (r - 1) * m
           v == (a - 1) * m
<1>2. r - 1 \in Nat /\ a - 1 \in Nat /\ u \in Int /\ v \in Int /\ u >= 0
  OBVIOUS
<1>3. (r - 1 < a - 1 => u + m <= v) /\ (a - 1 < r - 1 => v + m <= u) /\ (r = a => u = v)
  BY <1>1, <1>2
<1> HIDE DEF u, v
<1>4. (r < a => u + c < v + 1) /\ (u + c = v + b => r = a /\ c = b)
  BY <1>2, <1>3
<1> QED BY <1>2, <1>4 DEF u, v

LEMMA NumFacts ==
  ASSUME Sized, NEW r \in 1..maxRow, NEW c \in 1..(maxCol + 1)
  PROVE  /\ Num(r, c) \in Nat /\ Num(r, c) >= c /\ Num(r, c) = Num(r, 1) + c - 1
         /\ Num(r, maxCol + 1) = Num(r + 1, 1) /\ Num(r + 1, c) = Num(r, c) + maxCol
         /\ maxCol \in Nat /\ maxCol >= 1 /\ maxRow \in Nat /\ maxRow >= 1
<1>1. maxCol \in Nat /\ maxCol >= 1 /\ maxRow \in Nat /\ maxRow >= 1
  BY Sizes DEF Sized
<1>2. (r - 1) * maxCol \in Nat /\ (r + 1 - 1) * maxCol = (r - 1) * maxCol + maxCol
  BY <1>1
<1> QED BY <1>1, <1>2 DEF Num

LEMMA NumOrder ==
  ASSUME Sized, NEW r \in 1..maxRow, NEW a \in 1..maxRow, NEW c \in 1..maxCol, NEW b \in 1..maxCol
  PROVE  /\ r < a => Num(r, c) < Num(a, 1)
         /\ Num(r, c) = Num(a, b) => r = a /\ c = b
<1>1. maxCol \in Nat /\ maxCol >= 1 /\ maxRow \in Nat /\ maxRow >= 1
  BY Sizes DEF Sized
<1> DEFINE m == maxCol
<1>2. m \in Nat /\ m >= 1 /\ r \in Nat /\ r >= 1 /\ a \in Nat /\ a >= 1 /\ c \in 1..m /\ b \in 1..m
  BY <1>1
<1> HIDE DEF m
<1>3. /\ r < a => (r - 1) * m + c < (a - 1) * m + 1
      /\ (r - 1) * m + c = (a - 1) * m + b => r = a /\ c = b
  BY ONLY <1>2, Places
<1> QED BY <1>3 DEF m, Num

\* The number of the last cell on the screen.
Last == Num(maxRow, maxCol)

LEMMA LastFacts ==
  ASSUME Sized
  PROVE  /\ Last \in Nat /\ Last = Num(maxRow, 1) + maxCol - 1 /\ Num(maxRow, 1) \in Nat
         /\ LineLength = Num(maxRow, 1)
         /\ \A r \in 1..maxRow, c \in 1..maxCol : Num(r, c) <= Last
<1>1. maxCol \in Nat /\ maxCol >= 1 /\ maxRow \in Nat /\ maxRow >= 1
  BY Sizes DEF Sized
<1>2. maxRow \in 1..maxRow /\ maxCol \in 1..(maxCol + 1) /\ 1 \in 1..(maxCol + 1) /\ 1 \in 1..maxCol
  BY <1>1
<1>3. Last \in Nat /\ Last = Num(maxRow, 1) + maxCol - 1 /\ Num(maxRow, 1) \in Nat
  BY <1>2, NumFacts DEF Last
<1>4. LineLength = Num(maxRow, 1)
  BY DEF LineLength, Num, Sized
<1>5. ASSUME NEW r \in 1..maxRow, NEW c \in 1..maxCol PROVE Num(r, c) <= Last
  <2>1. r < maxRow => Num(r, c) < Num(maxRow, 1)
    BY <1>2, NumOrder
  <2>2. c \in 1..(maxCol + 1) /\ (r < maxRow \/ r = maxRow)
    BY <1>1
  <2>3. Num(r, c) = Num(r, 1) + c - 1 /\ Num(r, c) \in Nat
    BY <2>2, NumFacts
  <2> QED BY <1>1, <1>3, <2>1, <2>2, <2>3
<1> QED BY <1>3, <1>4, <1>5

\* The numbers of the cells of a line, of the last line and of a place on the line.
LEMMA PosArith ==
  ASSUME NEW m \in Nat, m >= 1, NEW rows \in Nat, NEW r \in 1..rows, NEW c \in 1..(m + 1),
         NEW first \in Nat, first >= 1, NEW bottom \in Nat, r < rows => first + m - 1 < bottom, r = rows => first = bottom,
         r = 1 => first = 1, NEW pos, pos = first + c - 1 - 1, NEW last, last = bottom + m - 1
  PROVE  /\ pos \in 0..last /\ pos >= c - 1
         /\ pos < last => c \in 1..m \/ (c = m + 1 /\ r < rows)
         /\ pos >= last => c = m + 1 /\ r = rows
         /\ pos >= 1 => c > 1 \/ r > 1
<1>1. r < rows \/ r = rows
  OBVIOUS
<1> QED BY <1>1

LEMMA PosFacts ==
  ASSUME Sized, NEW k, Good(k)
  PROVE  /\ Pos(k) \in 0..Last /\ Pos(k) = Num(k.row, k.col) - 1 /\ Pos(k) >= k.col - 1
         /\ k.row \in 1..maxRow /\ k.col \in 1..(maxCol + 1)
         /\ Pos(k) < Last => k.col \in 1..maxCol \/ (k.col = maxCol + 1 /\ k.row < maxRow)
         /\ Pos(k) >= Last => k.col = maxCol + 1 /\ k.row = maxRow
         /\ Pos(k) >= 1 => k.col > 1 \/ k.row > 1
<1>1. /\ maxCol \in Nat /\ maxCol >= 1 /\ maxRow \in Nat /\ maxRow >= 1
      /\ k.row \in 1..maxRow /\ k.col \in 1..(maxCol + 1)
  BY Sizes, GoodFacts DEF Sized
<1> DEFINE r == k.row
           c == k.col
<1>2. r \in 1..maxRow /\ c \in 1..(maxCol + 1)
  BY <1>1
<1> HIDE DEF r, c
<1>3. Num(r, c) \in Nat /\ Num(r, c) >= c /\ Num(r, c) = Num(r, 1) + c - 1
  BY <1>2, NumFacts
<1>4. 1 \in 1..(maxCol + 1) /\ maxRow \in 1..maxRow /\ 1 \in 1..maxCol /\ maxCol \in 1..maxCol
  BY <1>1
<1>5. Num(r, 1) \in Nat
  BY <1>2, <1>4, NumFacts
<1>6. Last \in Nat /\ Last = Num(maxRow, 1) + maxCol - 1 /\ Num(r, maxCol) <= Last
  BY <1>2, <1>4, LastFacts
<1>7. Num(r, maxCol) = Num(r, 1) + maxCol - 1
  <2>1. maxCol \in 1..(maxCol + 1)
    BY <1>1
  <2> QED BY <1>2, <2>1, NumFacts
<1>8. r < maxRow => Num(r, maxCol) < Num(maxRow, 1)
  BY <1>2, <1>4, NumOrder
<1>9. r = maxRow => Num(r, 1) = Num(maxRow, 1)
  OBVIOUS
<1>10. r = 1 => Num(r, 1) = 1
  BY <1>1 DEF Num
<1>11. Pos(k) = Num(r, c) - 1
  BY DEF Pos, r, c
<1> DEFINE pos == Pos(k)
           first == Num(r, 1)
           bottom == Num(maxRow, 1)
<1>13. /\ first \in Nat /\ first >= 1 /\ bottom \in Nat /\ (r < maxRow => first + maxCol - 1 < bottom)
       /\ (r = maxRow => first = bottom) /\ (r = 1 => first = 1)
       /\ pos = first + c - 1 - 1 /\ Last = bottom + maxCol - 1
  <2>1. first \in Nat /\ bottom \in Nat /\ first >= 1
    BY <1>2, <1>4, <1>5, NumFacts
  <2>2. pos = first + c - 1 - 1
    BY <1>1, <1>2, <1>3, <1>5, <1>11
  <2> QED BY <1>6, <1>7, <1>8, <1>9, <1>10, <2>1, <2>2
<1> HIDE DEF pos, first, bottom
<1>12. /\ pos \in 0..Last /\ pos >= c - 1
       /\ pos < Last => c \in 1..maxCol \/ (c = maxCol + 1 /\ r < maxRow)
       /\ pos >= Last => c = maxCol + 1 /\ r = maxRow
       /\ pos >= 1 => c > 1 \/ r > 1
  BY ONLY <1>1, <1>2, <1>13, PosArith
<1> QED BY <1>2, <1>11, <1>12 DEF r, c, pos

\* Behind the first column of a line, the number of cells before it tells the place.
LEMMA SamePlace ==
  ASSUME Sized, NEW j, NEW k, Good(j), Good(k), Pos(j) = Pos(k),
         (j.col >= 2 /\ k.col >= 2) \/ (j.col <= maxCol /\ k.col <= maxCol)
  PROVE  j.row = k.row /\ j.col = k.col
<1> DEFINE r == j.row
           c == j.col
           a == k.row
           b == k.col
<1>1. r \in 1..maxRow /\ a \in 1..maxRow /\ c \in 1..(maxCol + 1) /\ b \in 1..(maxCol + 1)
  BY PosFacts
<1>2. Num(r, c) - 1 = Num(a, b) - 1
  BY DEF Pos
<1>3. (c >= 2 /\ b >= 2) \/ (c <= maxCol /\ b <= maxCol)
  OBVIOUS
<1> HIDE DEF r, c, a, b
<1>4. /\ Num(r, c) \in Nat /\ Num(r, c) = Num(r, 1) + c - 1 /\ maxCol \in Nat /\ maxCol >= 1
      /\ Num(a, b) \in Nat /\ Num(a, b) = Num(a, 1) + b - 1
  BY <1>1, NumFacts
<1>5. 1 \in 1..(maxCol + 1)
  BY <1>4
<1>6. Num(r, 1) \in Nat /\ Num(a, 1) \in Nat
  BY <1>1, <1>5, NumFacts
<1>7. CASE c <= maxCol /\ b <= maxCol
  <2>1. c \in 1..maxCol /\ b \in 1..maxCol /\ Num(r, c) = Num(a, b)
    BY <1>1, <1>2, <1>4, <1>7
  <2>2. r = a /\ c = b
    BY <1>1, <2>1, NumOrder
  <2> QED BY <2>2 DEF r, c, a, b
<1>8. CASE c >= 2 /\ b >= 2
  <2> DEFINE d == c - 1
             e == b - 1
  <2>1. d \in 1..maxCol /\ e \in 1..maxCol /\ d \in 1..(maxCol + 1) /\ e \in 1..(maxCol + 1)
    BY <1>1, <1>4, <1>8
  <2>2. c = d + 1 /\ b = e + 1
    BY <1>1, <1>4
  <2> HIDE DEF d, e
  <2>3. Num(r, d) = Num(r, 1) + d - 1 /\ Num(a, e) = Num(a, 1) + e - 1
    BY <1>1, <2>1, NumFacts
  <2>4. Num(r, d) = Num(a, e)
    BY <1>1, <1>2, <1>4, <1>6, <2>1, <2>2, <2>3
  <2>5. r = a /\ d = e
    BY <1>1, <2>1, <2>4, NumOrder
  <2> QED BY <2>2, <2>5 DEF r, c, a, b
<1> QED BY <1>3, <1>7, <1>8

\* One cell of a window is changed.
Windows == [1..maxRow -> [1..maxCol -> Glyphs \cup {Blank}]]

LEMMA CellChanged ==
  ASSUME Sized, NEW w \in Windows, NEW ch,
         NEW a \in 1..maxRow, NEW b \in 1..maxCol, NEW r \in 1..maxRow, NEW c \in 1..maxCol
  PROVE  Changed(w, a, b, ch)[r][c] = IF Num(r, c) = Num(a, b) THEN ch ELSE w[r][c]
<1>1. Num(r, c) = Num(a, b) <=> r = a /\ c = b
  BY NumOrder
<1>2. Changed(w, a, b, ch)[r][c] = IF r = a /\ c = b THEN ch ELSE w[r][c]
  BY DEF Changed, Windows
<1> QED BY <1>1, <1>2

LEMMA WinType ==
  ASSUME Sized, NEW k, Good(k)
  PROVE  Win(k) \in Windows
<1>1. k \in ConState /\ k.roll % font.height = 0
  BY GoodFacts
<1> QED BY <1>1, GlassType DEF Sized, Windows

\* A glyph where the screen does not scroll fills the next cell.
LEMMA PutCells ==
  ASSUME Sized, NEW k, Good(k), Twin(k), NEW ch \in Glyphs \cup {Blank}, Pos(k) < Last
  PROVE  LET j == PutGlyph(k, ch) IN
         /\ Good(j) /\ Twin(j) /\ Alike(j, k) /\ Pos(j) = Pos(k) + 1 /\ j.col >= 2
         /\ \A r \in 1..maxRow, c \in 1..maxCol :
              Win(j)[r][c] = IF Num(r, c) = Pos(j) THEN ch ELSE Win(k)[r][c]
<1> DEFINE j == PutGlyph(k, ch)
           a == IF k.col = maxCol + 1 THEN k.row + 1 ELSE k.row
           b == IF k.col = maxCol + 1 THEN 1 ELSE k.col
<1>1. /\ k.row \in 1..maxRow /\ k.col \in 1..(maxCol + 1) /\ Pos(k) = Num(k.row, k.col) - 1 /\ Pos(k) \in Nat
      /\ (k.col \in 1..maxCol \/ (k.col = maxCol + 1 /\ k.row < maxRow))
  BY PosFacts
<1>2. /\ maxCol \in Nat /\ maxCol >= 1 /\ maxRow \in Nat
      /\ Num(k.row, k.col) \in Nat /\ Num(k.row, maxCol + 1) = Num(k.row + 1, 1)
  BY <1>1, NumFacts
<1>3. a \in 1..maxRow /\ b \in 1..maxCol /\ Num(a, b) = Num(k.row, k.col)
  BY <1>1, <1>2
<1>4. /\ Good(j) /\ Twin(j) /\ Alike(j, k) /\ j.row = a /\ j.col = b + 1
      /\ Win(j) = Changed(Win(k), a, b, ch)
  <2>1. Good(j) /\ Twin(j) /\ j.mode = k.mode /\ j.pix = k.pix
    BY PutMoves
  <2>2. CASE k.col \in 1..maxCol
    <3>1. k.col # maxCol + 1
      BY <1>2, <2>2
    <3>2. /\ j.row = k.row /\ j.col = k.col + 1 /\ j.roll = k.roll
          /\ Win(j) = Changed(Win(k), k.row, k.col, ch)
      BY <2>2, PutMoves
    <3> HIDE DEF j
    <3> QED BY <2>1, <3>1, <3>2 DEF Alike
  <2>3. CASE k.col = maxCol + 1 /\ k.row < maxRow
    <3>1. /\ j.row = k.row + 1 /\ j.col = 2 /\ j.roll = k.roll
          /\ Win(j) = Changed(Win(k), k.row + 1, 1, ch)
      BY <2>3, PutMoves
    <3> HIDE DEF j
    <3> QED BY <2>1, <2>3, <3>1 DEF Alike
  <2> HIDE DEF a, b, j
  <2> QED BY <1>1, <2>2, <2>3
<1> HIDE DEF a, b, j
<1>5. Pos(j) = Num(a, b)
  <2>1. b \in 1..(maxCol + 1) /\ b + 1 \in 1..(maxCol + 1) /\ 1 \in 1..(maxCol + 1)
    BY <1>2, <1>3
  <2>2. Num(a, b) = Num(a, 1) + b - 1 /\ Num(a, b + 1) = Num(a, 1) + b + 1 - 1 /\ Num(a, 1) \in Nat
    BY <1>3, <2>1, NumFacts
  <2> QED BY <1>3, <1>4, <2>2 DEF Pos
<1>6. Pos(j) = Pos(k) + 1 /\ j.col >= 2
  BY <1>1, <1>2, <1>3, <1>4, <1>5
<1>7. ASSUME NEW r \in 1..maxRow, NEW c \in 1..maxCol
      PROVE  Win(j)[r][c] = IF Num(r, c) = Pos(j) THEN ch ELSE Win(k)[r][c]
  <2> DEFINE w == Win(k)
  <2>1. w \in Windows /\ Win(j) = Changed(w, a, b, ch)
    BY <1>4, WinType
  <2> HIDE DEF w
  <2>2. Changed(w, a, b, ch)[r][c] = IF Num(r, c) = Num(a, b) THEN ch ELSE w[r][c]
    BY <1>3, <2>1, CellChanged
  <2> QED BY <1>5, <2>1, <2>2 DEF w
<1> QED BY <1>4, <1>6, <1>7 DEF j

\* Behind the last cell the screen scrolls and the glyph comes first on the last line.
LEMMA PutScrolls ==
  ASSUME Sized, NEW k, Good(k), Twin(k), NEW ch \in Glyphs \cup {Blank}, Pos(k) >= Last
  PROVE  LET j == PutGlyph(k, ch) IN
         /\ Good(j) /\ Twin(j) /\ j.mode = k.mode /\ j.pix = k.pix /\ j.roll = RollBelow(k)
         /\ Pos(j) = LineLength /\ j.col >= 2
         /\ \A r \in 1..maxRow, c \in 1..maxCol :
              Win(j)[r][c] = IF Num(r, c) = Pos(j) THEN ch
                             ELSE IF r < maxRow THEN Win(k)[r + 1][c] ELSE Blank
<1> DEFINE j == PutGlyph(k, ch)
           up == Text!ScrolledUp(Win(k))
<1>1. k.col = maxCol + 1 /\ k.row = maxRow
  BY PosFacts
<1>2. /\ Good(j) /\ Twin(j) /\ j.mode = k.mode /\ j.pix = k.pix
      /\ j.row = maxRow /\ j.col = 2 /\ j.roll = RollBelow(k)
      /\ Win(j) = Changed(up, maxRow, 1, ch)
  <2>1. Good(j) /\ Twin(j) /\ j.mode = k.mode /\ j.pix = k.pix
    BY PutMoves
  <2>2. /\ j.row = maxRow /\ j.col = 2 /\ j.roll = RollBelow(k)
        /\ Win(j) = Changed(up, maxRow, 1, ch)
    BY <1>1, PutMoves
  <2> HIDE DEF j, up
  <2> QED BY <2>1, <2>2
<1> HIDE DEF j
<1>3. /\ maxCol \in Nat /\ maxCol >= 1 /\ maxRow \in Nat /\ maxRow >= 1
      /\ TextRows = maxRow /\ TextCols = maxCol
  BY Sizes DEF Sized
<1>4. Pos(j) = Num(maxRow, 1) /\ Num(maxRow, 1) = LineLength
  <2>1. maxRow \in 1..maxRow /\ 1 \in 1..(maxCol + 1) /\ 2 \in 1..(maxCol + 1)
    BY <1>3
  <2>2. Num(maxRow, 2) = Num(maxRow, 1) + 2 - 1 /\ Num(maxRow, 1) \in Nat
    BY <2>1, NumFacts
  <2> QED BY <1>2, <2>2, LastFacts DEF Pos
<1>5. \A r \in 1..maxRow : up[r] = IF r < maxRow THEN Win(k)[r + 1] ELSE [c \in 1..maxCol |-> Blank]
  BY <1>3 DEF Text!ScrolledUp, Text!BlankRow
<1>6. up \in Windows
  <2>1. \A r \in 1..maxRow : up[r] \in [1..maxCol -> Glyphs \cup {Blank}]
    <3> HIDE DEF up
    <3> TAKE r \in 1..maxRow
    <3>1. CASE r < maxRow
      <4>1. up[r] = Win(k)[r + 1] /\ r + 1 \in 1..maxRow
        BY <1>3, <1>5, <3>1
      <4> QED BY <4>1, WinType DEF Windows
    <3>2. CASE ~(r < maxRow)
      <4>1. up[r] = [c \in 1..maxCol |-> Blank]
        BY <1>5, <3>2
      <4> QED BY <4>1
    <3> QED BY <3>1, <3>2
  <2>2. up = [r \in 1..maxRow |-> up[r]]
    BY <1>3 DEF Text!ScrolledUp
  <2> HIDE DEF up
  <2> QED BY <2>1, <2>2 DEF Windows
<1> HIDE DEF up
<1>7. ASSUME NEW r \in 1..maxRow, NEW c \in 1..maxCol
      PROVE  Win(j)[r][c] = IF Num(r, c) = Pos(j) THEN ch
                            ELSE IF r < maxRow THEN Win(k)[r + 1][c] ELSE Blank
  <2>1. maxRow \in 1..maxRow /\ 1 \in 1..maxCol
    BY <1>3
  <2>2. Changed(up, maxRow, 1, ch)[r][c] = IF Num(r, c) = Num(maxRow, 1) THEN ch ELSE up[r][c]
    BY <1>6, <2>1, CellChanged
  <2>3. up[r][c] = IF r < maxRow THEN Win(k)[r + 1][c] ELSE Blank
    BY <1>5
  <2> QED BY <1>2, <1>4, <2>2, <2>3
<1>8. j.col >= 2
  BY <1>2
<1> QED BY <1>2, <1>4, <1>7, <1>8 DEF j

\* Rubbing out blanks the cell before the position.
LEMMA RubCells ==
  ASSUME Sized, NEW k, Good(k), Twin(k), Pos(k) >= 1
  PROVE  LET j == RubOut(k) IN
         /\ Good(j) /\ Twin(j) /\ Alike(j, k) /\ Pos(j) = Pos(k) - 1 /\ j.col <= maxCol
         /\ \A r \in 1..maxRow, c \in 1..maxCol :
              Win(j)[r][c] = IF Num(r, c) = Pos(k) THEN Blank ELSE Win(k)[r][c]
<1> DEFINE j == RubOut(k)
           a == IF k.col > 1 THEN k.row ELSE k.row - 1
           b == IF k.col > 1 THEN k.col - 1 ELSE maxCol
<1>1. /\ k.row \in 1..maxRow /\ k.col \in 1..(maxCol + 1) /\ Pos(k) = Num(k.row, k.col) - 1
      /\ k.col > 1 \/ k.row > 1
  BY PosFacts
<1>2. /\ Good(j) /\ Twin(j) /\ Alike(j, k)
      /\ j.row = a /\ j.col = b /\ b \in 1..maxCol /\ a \in 1..maxRow
      /\ Win(j) = Changed(Win(k), a, b, Blank)
  BY <1>1, RubMoves
<1> HIDE DEF j
<1>3. /\ maxCol \in Nat /\ maxCol >= 1 /\ maxRow \in Nat
      /\ Num(k.row, k.col) \in Nat /\ Num(k.row, k.col) = Num(k.row, 1) + k.col - 1
  BY <1>1, NumFacts
<1>4. Num(a, b) = Num(k.row, k.col) - 1 /\ Num(a, b) \in Nat
  <2>1. b \in 1..(maxCol + 1) /\ maxCol \in 1..(maxCol + 1) /\ 1 \in 1..(maxCol + 1)
    BY <1>2, <1>3
  <2>2. /\ Num(a, b) = Num(a, 1) + b - 1 /\ Num(a, b) \in Nat /\ Num(a, 1) \in Nat
        /\ Num(a, maxCol + 1) = Num(a + 1, 1) /\ Num(a, maxCol) = Num(a, 1) + maxCol - 1
    BY <1>2, <2>1, NumFacts
  <2>3. maxCol + 1 \in 1..(maxCol + 1)
    BY <1>3
  <2>4. Num(a, maxCol + 1) = Num(a, 1) + (maxCol + 1) - 1
    BY <1>2, <2>3, NumFacts
  <2>5. CASE k.col > 1
    <3>1. a = k.row /\ b = k.col - 1
      BY <2>5
    <3> HIDE DEF a, b
    <3> QED BY <1>1, <1>3, <2>2, <3>1
  <2>6. CASE ~(k.col > 1)
    <3>1. a + 1 = k.row /\ b = maxCol /\ k.col = 1
      BY <1>1, <1>3, <2>6
    <3> HIDE DEF a, b
    <3> QED BY <1>3, <2>2, <2>4, <3>1
  <2> QED BY <2>5, <2>6
<1> HIDE DEF a, b
<1>5. Pos(j) = Pos(k) - 1 /\ j.col <= maxCol /\ Pos(k) = Num(a, b)
  BY <1>1, <1>2, <1>3, <1>4 DEF Pos
<1>6. ASSUME NEW r \in 1..maxRow, NEW c \in 1..maxCol
      PROVE  Win(j)[r][c] = IF Num(r, c) = Pos(k) THEN Blank ELSE Win(k)[r][c]
  <2> DEFINE w == Win(k)
  <2>1. w \in Windows /\ Win(j) = Changed(w, a, b, Blank)
    BY <1>2, WinType
  <2> HIDE DEF w
  <2>2. Changed(w, a, b, Blank)[r][c] = IF Num(r, c) = Num(a, b) THEN Blank ELSE w[r][c]
    <3>1. Blank \in Glyphs \cup {Blank}
      OBVIOUS
    <3>2. a \in 1..maxRow /\ b \in 1..maxCol
      BY <1>2
    <3> QED BY <2>1, <3>1, <3>2, CellChanged
  <2> QED BY <1>5, <2>1, <2>2 DEF w
<1> QED BY <1>2, <1>5, <1>6 DEF j

-----------------------------------------------------------------------------
(* Lines: typed, rubbed out and typed again.                               *)

Less == {p \in Nat \X Nat : p[1] < p[2]}

\* A set of numbers that holds zero and every successor of its elements holds them all.
LEMMA NatSetInduction ==
  ASSUME NEW T, 0 \in T, \A k \in Nat : k \in T => k + 1 \in T
  PROVE  Nat \subseteq T
<1> DEFINE Rest == {k \in Nat : k \notin T}
<1> SUFFICES ASSUME Rest # {} PROVE FALSE
  OBVIOUS
<1>1. IsWellFoundedOn(Less, Nat)
  BY NatLessThanWellFounded DEF OpToRel, Less
<1>2. Rest \subseteq Nat
  OBVIOUS
<1> HIDE DEF Rest
<1>3. \E x \in Rest : \A y \in Rest : ~(<<y, x>> \in Less)
  BY <1>1, <1>2, WFMin, Zenon
<1>4. PICK x \in Rest : \A y \in Rest : ~(<<y, x>> \in Less)
  BY <1>3
<1>5. x \in Nat /\ x # 0 /\ x \notin T
  BY DEF Rest
<1>6. x - 1 \in Nat /\ x - 1 < x /\ (x - 1) + 1 = x
  BY <1>5
<1>7. x - 1 \notin T
  BY <1>5, <1>6
<1>8. x - 1 \in Rest
  BY <1>6, <1>7 DEF Rest
<1>9. <<x - 1, x>> \in Less
  BY <1>5, <1>6 DEF Less
<1> QED
  BY <1>4, <1>8, <1>9

\* One key of a line editor: a character, or the one that rubs out.
Keyed(k, rub, ch) == IF rub THEN RubOut(k) ELSE fputc(k, ch)

Keys(f, k, rub, line, n) ==
  f = [i \in 0..n |-> IF i = 0 THEN k ELSE Keyed(f[i - 1], rub, line[i])]

\* There is a console after each key of a line.
LEMMA KeysExist ==
  ASSUME NEW k, NEW rub, NEW line, NEW n \in Nat
  PROVE  \E f : Keys(f, k, rub, line, n)
<1> DEFINE T == {m \in Nat : \E f : Keys(f, k, rub, line, m)}
<1> USE DEF Keys
<1>1. 0 \in T
  <2> DEFINE f == [i \in 0..0 |-> k]
  <2>1. \A i \in 0..0 : i = 0
    OBVIOUS
  <2>2. Keys(f, k, rub, line, 0)
    BY <2>1
  <2> QED BY <2>2
<1>2. ASSUME NEW m \in Nat, m \in T PROVE m + 1 \in T
  <2>1. PICK f : Keys(f, k, rub, line, m)
    BY <1>2
  <2> DEFINE g == [i \in 0..(m + 1) |-> IF i = m + 1 THEN Keyed(f[m], rub, line[m + 1]) ELSE f[i]]
  <2>2. \A i \in 0..m : f[i] = IF i = 0 THEN k ELSE Keyed(f[i - 1], rub, line[i])
    BY <2>1
  <2>3. ASSUME NEW i \in 0..(m + 1)
        PROVE  g[i] = IF i = 0 THEN k ELSE Keyed(g[i - 1], rub, line[i])
    <3>1. CASE i = m + 1
      <4>1. g[i] = Keyed(f[m], rub, line[i]) /\ i # 0 /\ i - 1 = m /\ i - 1 \in 0..(m + 1) /\ i - 1 # m + 1
        BY <3>1
      <4>2. g[i - 1] = f[m]
        BY <4>1
      <4> QED BY <4>1, <4>2
    <3>2. CASE i # m + 1
      <4>1. i \in 0..m /\ g[i] = f[i]
        BY <3>2
      <4>2. CASE i = 0
        BY <2>2, <4>1, <4>2
      <4>3. CASE i # 0
        <5>1. i - 1 \in 0..(m + 1) /\ i - 1 # m + 1
          BY <4>1, <4>3
        <5>2. g[i - 1] = f[i - 1]
          BY <5>1
        <5> QED BY <2>2, <4>1, <4>3, <5>2
      <4> QED BY <4>2, <4>3
    <3> QED BY <3>1, <3>2
  <2>4. g = [i \in 0..(m + 1) |-> IF i = 0 THEN k ELSE Keyed(g[i - 1], rub, line[i])]
    <3>1. g = [i \in 0..(m + 1) |-> g[i]]
      OBVIOUS
    <3> HIDE DEF g
    <3> QED BY <2>3, <3>1
  <2> HIDE DEF g
  <2>5. Keys(g, k, rub, line, m + 1) /\ m + 1 \in Nat
    BY <2>4
  <2> QED BY <2>5
<1> HIDE DEF T
<1>3. n \in T
  BY <1>1, <1>2, NatSetInduction
<1> QED BY <1>3 DEF T

\* The recursive functions in Typed and RubbedOut are those.
LEMMA TypedIs ==
  ASSUME NEW k, NEW line, NEW n \in Nat
  PROVE  \E f : f[0] = k /\ (\A i \in 1..n : f[i] = fputc(f[i - 1], line[i])) /\ Typed(k, line, n) = f[n]
<1> DEFINE after == CHOOSE f : f = [i \in 0..n |-> IF i = 0 THEN k ELSE fputc(f[i - 1], line[i])]
<1>1. Typed(k, line, n) = after[n]
  BY DEF Typed
<1>2. \E f : f = [i \in 0..n |-> IF i = 0 THEN k ELSE fputc(f[i - 1], line[i])]
  <2>1. \E f : Keys(f, k, FALSE, line, n)
    BY KeysExist
  <2> QED BY <2>1 DEF Keys, Keyed
<1>3. after = [i \in 0..n |-> IF i = 0 THEN k ELSE fputc(after[i - 1], line[i])]
  BY <1>2
<1> HIDE DEF after
<1>4. \A i \in 0..n : after[i] = IF i = 0 THEN k ELSE fputc(after[i - 1], line[i])
  BY <1>3
<1>5. after[0] = k /\ \A i \in 1..n : after[i] = fputc(after[i - 1], line[i])
  BY <1>4
<1> QED BY <1>1, <1>5

LEMMA RubbedOutIs ==
  ASSUME NEW k, NEW n \in Nat
  PROVE  \E f : f[0] = k /\ (\A i \in 1..n : f[i] = RubOut(f[i - 1])) /\ RubbedOut(k, n) = f[n]
<1> DEFINE after == CHOOSE f : f = [i \in 0..n |-> IF i = 0 THEN k ELSE RubOut(f[i - 1])]
<1>1. RubbedOut(k, n) = after[n]
  BY DEF RubbedOut
<1>2. \E f : f = [i \in 0..n |-> IF i = 0 THEN k ELSE RubOut(f[i - 1])]
  <2>1. \E f : Keys(f, k, TRUE, <<>>, n)
    BY KeysExist
  <2> QED BY <2>1 DEF Keys, Keyed
<1>3. after = [i \in 0..n |-> IF i = 0 THEN k ELSE RubOut(after[i - 1])]
  BY <1>2
<1> HIDE DEF after
<1>4. \A i \in 0..n : after[i] = IF i = 0 THEN k ELSE RubOut(after[i - 1])
  BY <1>3
<1>5. after[0] = k /\ \A i \in 1..n : after[i] = RubOut(after[i - 1])
  BY <1>4
<1> QED BY <1>1, <1>5

\* What a line of i characters, and one of as many blanks, leave on the same console.
Both(t, b, line, i) ==
  /\ Good(t) /\ Good(b) /\ Twin(t) /\ Twin(b) /\ Alike(t, b)
  /\ t.row = b.row /\ t.col = b.col /\ Pos(t) >= i /\ (i >= 1 => t.col >= 2)
  /\ \A r \in 1..maxRow, c \in 1..maxCol :
       IF Pos(t) - i < Num(r, c) /\ Num(r, c) <= Pos(t)
       THEN Win(t)[r][c] = line[Num(r, c) - Pos(t) + i] /\ Win(b)[r][c] = Blank
       ELSE Win(t)[r][c] = Win(b)[r][c]

LEMMA RollBelowSame ==
  ASSUME NEW j, NEW k, Good(j), Good(k), j.roll = k.roll
  PROVE  RollBelow(j) = RollBelow(k)
BY DEF RollBelow, Rolled, LCD_SetScreenRoll, Good, ConState

LEMMA BothStep ==
  ASSUME Sized, NEW t, NEW b, NEW line, NEW i \in Nat, Both(t, b, line, i),
         i + 1 <= LineLength, line[i + 1] \in Glyphs
  PROVE  Both(PutGlyph(t, line[i + 1]), PutGlyph(b, Blank), line, i + 1)
<1> DEFINE g == line[i + 1]
           u == PutGlyph(t, g)
           d == PutGlyph(b, Blank)
<1>1. /\ Good(t) /\ Good(b) /\ Twin(t) /\ Twin(b) /\ Alike(t, b) /\ t.row = b.row /\ t.col = b.col
      /\ Pos(t) >= i /\ Pos(t) \in 0..Last /\ Pos(b) = Pos(t) /\ Last \in Nat /\ Last = LineLength + maxCol - 1
      /\ maxCol \in Nat /\ maxCol >= 1 /\ maxRow \in Nat /\ maxRow >= 1 /\ LineLength \in Nat
  <2>1. Pos(b) = Pos(t)
    BY DEF Both, Pos
  <2> QED BY <2>1, PosFacts, LastFacts, Sizes DEF Both, Sized
<1>2. g \in Glyphs \cup {Blank} /\ Blank \in Glyphs \cup {Blank}
  OBVIOUS
<1>3. ASSUME NEW r \in 1..maxRow, NEW c \in 1..maxCol
      PROVE  /\ Pos(t) - i < Num(r, c) /\ Num(r, c) <= Pos(t) =>
                  Win(t)[r][c] = line[Num(r, c) - Pos(t) + i] /\ Win(b)[r][c] = Blank
             /\ ~(Pos(t) - i < Num(r, c) /\ Num(r, c) <= Pos(t)) => Win(t)[r][c] = Win(b)[r][c]
             /\ Num(r, c) \in Nat /\ Num(r, c) <= Last
             /\ r < maxRow => Num(r + 1, c) = Num(r, c) + maxCol /\ r + 1 \in 1..maxRow
             /\ r = maxRow => Num(r, c) >= LineLength
  <2>1. c \in 1..(maxCol + 1) /\ 1 \in 1..(maxCol + 1) /\ maxRow \in 1..maxRow
    BY <1>1
  <2>2. /\ Num(r, c) \in Nat /\ Num(r, c) <= Last /\ Num(r + 1, c) = Num(r, c) + maxCol
        /\ Num(r, c) = Num(r, 1) + c - 1 /\ LineLength = Num(maxRow, 1) /\ Num(r, 1) \in Nat
    BY <2>1, NumFacts, LastFacts
  <2>3. (r < maxRow => r + 1 \in 1..maxRow) /\ (r = maxRow => Num(r, c) >= LineLength)
    BY <1>1, <2>2
  <2> QED BY <2>2, <2>3 DEF Both
<1>4. CASE Pos(t) < Last
  <2>1. /\ Good(u) /\ Twin(u) /\ Alike(u, t) /\ Pos(u) = Pos(t) + 1 /\ u.col >= 2
        /\ \A r \in 1..maxRow, c \in 1..maxCol :
             Win(u)[r][c] = IF Num(r, c) = Pos(u) THEN g ELSE Win(t)[r][c]
    BY <1>1, <1>2, <1>4, PutCells
  <2>2. /\ Good(d) /\ Twin(d) /\ Alike(d, b) /\ Pos(d) = Pos(b) + 1 /\ d.col >= 2
        /\ \A r \in 1..maxRow, c \in 1..maxCol :
             Win(d)[r][c] = IF Num(r, c) = Pos(d) THEN Blank ELSE Win(b)[r][c]
    BY <1>1, <1>2, <1>4, PutCells
  <2> HIDE DEF u, d
  <2>3. Alike(u, d) /\ Pos(u) >= i + 1 /\ Pos(d) = Pos(u)
    BY <1>1, <2>1, <2>2 DEF Alike
  <2>4. u.row = d.row /\ u.col = d.col
    BY <2>1, <2>2, <2>3, SamePlace
  <2>5. ASSUME NEW r \in 1..maxRow, NEW c \in 1..maxCol
        PROVE  IF Pos(u) - (i + 1) < Num(r, c) /\ Num(r, c) <= Pos(u)
               THEN Win(u)[r][c] = line[Num(r, c) - Pos(u) + (i + 1)] /\ Win(d)[r][c] = Blank
               ELSE Win(u)[r][c] = Win(d)[r][c]
    <3>1. CASE Num(r, c) = Pos(u)
      <4>1. Win(u)[r][c] = g /\ Win(d)[r][c] = Blank
        BY <2>1, <2>2, <2>3, <3>1
      <4>2. Num(r, c) - Pos(u) + (i + 1) = i + 1
        BY <1>1, <1>3, <3>1
      <4>3. Pos(u) - (i + 1) < Num(r, c) /\ Num(r, c) <= Pos(u)
        BY <1>1, <1>3, <3>1
      <4> QED BY <4>1, <4>2, <4>3
    <3>2. CASE Num(r, c) # Pos(u)
      <4>1. Win(u)[r][c] = Win(t)[r][c] /\ Win(d)[r][c] = Win(b)[r][c]
        BY <2>1, <2>2, <2>3, <3>2
      <4>2. Num(r, c) - Pos(u) + (i + 1) = Num(r, c) - Pos(t) + i
        BY <1>1, <1>3, <2>1
      <4>3. (Pos(u) - (i + 1) < Num(r, c) /\ Num(r, c) <= Pos(u))
              <=> (Pos(t) - i < Num(r, c) /\ Num(r, c) <= Pos(t))
        BY <1>1, <1>3, <2>1, <3>2
      <4> QED BY <1>3, <4>1, <4>2, <4>3
    <3> QED BY <3>1, <3>2
  <2> QED BY <2>1, <2>2, <2>3, <2>4, <2>5 DEF Both, u, d
<1>5. CASE ~(Pos(t) < Last)
  <2>0. Pos(t) = Last /\ Pos(b) = Last
    BY <1>1, <1>5
  <2>1. /\ Good(u) /\ Twin(u) /\ u.mode = t.mode /\ u.pix = t.pix /\ u.roll = RollBelow(t)
        /\ Pos(u) = LineLength /\ u.col >= 2
        /\ \A r \in 1..maxRow, c \in 1..maxCol :
             Win(u)[r][c] = IF Num(r, c) = Pos(u) THEN g
                            ELSE IF r < maxRow THEN Win(t)[r + 1][c] ELSE Blank
    <3>1. Pos(t) >= Last
      BY <1>1, <2>0
    <3> QED BY <1>1, <1>2, <3>1, PutScrolls
  <2>2. /\ Good(d) /\ Twin(d) /\ d.mode = b.mode /\ d.pix = b.pix /\ d.roll = RollBelow(b)
        /\ Pos(d) = LineLength /\ d.col >= 2
        /\ \A r \in 1..maxRow, c \in 1..maxCol :
             Win(d)[r][c] = IF Num(r, c) = Pos(d) THEN Blank
                            ELSE IF r < maxRow THEN Win(b)[r + 1][c] ELSE Blank
    <3>1. Pos(b) >= Last
      BY <1>1, <2>0
    <3> QED BY <1>1, <1>2, <3>1, PutScrolls
  <2> HIDE DEF u, d
  <2>3. Alike(u, d) /\ Pos(u) >= i + 1 /\ Pos(d) = Pos(u)
    <3>1. RollBelow(t) = RollBelow(b)
      BY <1>1, RollBelowSame DEF Alike
    <3> QED BY <1>1, <2>1, <2>2, <3>1 DEF Alike
  <2>4. u.row = d.row /\ u.col = d.col
    BY <2>1, <2>2, <2>3, SamePlace
  <2>5. ASSUME NEW r \in 1..maxRow, NEW c \in 1..maxCol
        PROVE  IF Pos(u) - (i + 1) < Num(r, c) /\ Num(r, c) <= Pos(u)
               THEN Win(u)[r][c] = line[Num(r, c) - Pos(u) + (i + 1)] /\ Win(d)[r][c] = Blank
               ELSE Win(u)[r][c] = Win(d)[r][c]
    <3>1. CASE Num(r, c) = Pos(u)
      <4>1. Win(u)[r][c] = g /\ Win(d)[r][c] = Blank
        BY <2>1, <2>2, <2>3, <3>1
      <4>2. Num(r, c) - Pos(u) + (i + 1) = i + 1
        BY <1>1, <1>3, <3>1
      <4>3. Pos(u) - (i + 1) < Num(r, c) /\ Num(r, c) <= Pos(u)
        BY <1>1, <1>3, <3>1
      <4> QED BY <4>1, <4>2, <4>3
    <3>2. CASE Num(r, c) # Pos(u) /\ r < maxRow
      <4> DEFINE s == r + 1
      <4>1. s \in 1..maxRow /\ Num(s, c) = Num(r, c) + maxCol
        BY <1>3, <3>2
      <4>2. Win(u)[r][c] = Win(t)[s][c] /\ Win(d)[r][c] = Win(b)[s][c]
        BY <2>1, <2>2, <2>3, <3>2
      <4> HIDE DEF s
      <4>5. /\ Num(r, c) \in Nat /\ Num(s, c) = Num(r, c) + maxCol /\ Num(r, c) # Pos(u)
            /\ Pos(u) = LineLength /\ Pos(t) = LineLength + maxCol - 1
            /\ LineLength \in Nat /\ maxCol \in Nat /\ i \in Nat
        BY <1>1, <1>3, <2>0, <2>1, <3>2, <4>1
      <4>3. Num(r, c) - Pos(u) + (i + 1) = Num(s, c) - Pos(t) + i
        BY ONLY <4>5
      <4>4. (Pos(u) - (i + 1) < Num(r, c) /\ Num(r, c) <= Pos(u))
              <=> (Pos(t) - i < Num(s, c) /\ Num(s, c) <= Pos(t))
        BY ONLY <4>5
      <4> QED BY <1>3, <4>1, <4>2, <4>3, <4>4
    <3>3. CASE Num(r, c) # Pos(u) /\ ~(r < maxRow)
      <4>1. Win(u)[r][c] = Blank /\ Win(d)[r][c] = Blank
        BY <2>1, <2>2, <2>3, <3>3
      <4>2. r = maxRow
        BY <1>1, <3>3
      <4>4. Num(r, c) \in Nat /\ Num(r, c) >= LineLength /\ Pos(u) = LineLength /\ LineLength \in Nat
        BY <1>1, <1>3, <2>1, <4>2
      <4>3. ~(Num(r, c) <= Pos(u))
        BY <3>3, <4>4
      <4> QED BY <4>1, <4>3
    <3> QED BY <3>1, <3>2, <3>3
  <2> QED BY <2>1, <2>2, <2>3, <2>4, <2>5 DEF Both, u, d
<1> QED BY <1>4, <1>5

\* What i keys that rub out leave of a console.
Rubbed(e, k, i) ==
  /\ Good(e) /\ Twin(e) /\ Alike(e, k) /\ Pos(e) = Pos(k) - i
  /\ \A r \in 1..maxRow, c \in 1..maxCol :
       Win(e)[r][c] = IF Pos(k) - i < Num(r, c) /\ Num(r, c) <= Pos(k) THEN Blank ELSE Win(k)[r][c]

\* The number of a cell is one.
LEMMA CellNumbers ==
  ASSUME Sized, NEW r \in 1..maxRow, NEW c \in 1..maxCol
  PROVE  Num(r, c) \in Nat
<1>1. maxCol \in Nat
  BY Sizes DEF Sized
<1>2. c \in 1..(maxCol + 1)
  BY <1>1
<1> QED BY <1>2, NumFacts

LEMMA RubbedStep ==
  ASSUME Sized, NEW k, Good(k), NEW e, NEW i \in Nat, Rubbed(e, k, i), i < Pos(k)
  PROVE  Rubbed(RubOut(e), k, i + 1)
<1> DEFINE d == RubOut(e)
<1>1. Good(e) /\ Twin(e) /\ Alike(e, k) /\ Pos(e) = Pos(k) - i /\ Pos(k) \in Int
  BY PosFacts DEF Rubbed
<1>2. Pos(e) >= 1
  BY <1>1
<1>3. /\ Good(d) /\ Twin(d) /\ Alike(d, e) /\ Pos(d) = Pos(e) - 1
      /\ \A r \in 1..maxRow, c \in 1..maxCol :
           Win(d)[r][c] = IF Num(r, c) = Pos(e) THEN Blank ELSE Win(e)[r][c]
  BY <1>1, <1>2, RubCells
<1> HIDE DEF d
<1>4. Alike(d, k) /\ Pos(d) = Pos(k) - (i + 1)
  BY <1>1, <1>3 DEF Alike
<1>5. ASSUME NEW r \in 1..maxRow, NEW c \in 1..maxCol
      PROVE  Win(d)[r][c] = IF Pos(k) - (i + 1) < Num(r, c) /\ Num(r, c) <= Pos(k) THEN Blank ELSE Win(k)[r][c]
  <2>1. Num(r, c) \in Nat
    BY CellNumbers
  <2>2. Win(d)[r][c] = IF Num(r, c) = Pos(e) THEN Blank ELSE Win(e)[r][c]
    BY <1>3
  <2>3. Win(e)[r][c] = IF Pos(k) - i < Num(r, c) /\ Num(r, c) <= Pos(k) THEN Blank ELSE Win(k)[r][c]
    BY DEF Rubbed
  <2>4. (Pos(k) - (i + 1) < Num(r, c) /\ Num(r, c) <= Pos(k))
          <=> (Num(r, c) = Pos(e) \/ (Pos(k) - i < Num(r, c) /\ Num(r, c) <= Pos(k)))
    BY <1>1, <2>1
  <2> QED BY <2>2, <2>3, <2>4
<1> QED BY <1>3, <1>4, <1>5 DEF Rubbed, d

\* What i characters of a line of n leave, typed on a console that the line was rubbed out of.
Again(a, e, k, line, n, i) ==
  /\ Good(a) /\ Twin(a) /\ Alike(a, k) /\ Pos(a) = Pos(k) - n + i /\ (i >= 1 => a.col >= 2)
  /\ \A r \in 1..maxRow, c \in 1..maxCol :
       Win(a)[r][c] = IF Pos(k) - n < Num(r, c) /\ Num(r, c) <= Pos(k) - n + i
                      THEN line[Num(r, c) - Pos(k) + n] ELSE Win(e)[r][c]

LEMMA AgainStep ==
  ASSUME Sized, NEW k, Good(k), NEW e, NEW a, NEW line, NEW n \in Nat, NEW i \in Nat,
         Again(a, e, k, line, n, i), i < n, line[i + 1] \in Glyphs
  PROVE  Again(PutGlyph(a, line[i + 1]), e, k, line, n, i + 1)
<1> DEFINE g == line[i + 1]
           d == PutGlyph(a, g)
<1>1. /\ Good(a) /\ Twin(a) /\ Alike(a, k) /\ Pos(a) = Pos(k) - n + i
      /\ Pos(k) \in Int /\ Pos(k) <= Last /\ Last \in Int
  BY PosFacts, LastFacts DEF Again
<1>2. Pos(a) < Last /\ g \in Glyphs \cup {Blank}
  BY <1>1
<1>3. /\ Good(d) /\ Twin(d) /\ Alike(d, a) /\ Pos(d) = Pos(a) + 1 /\ d.col >= 2
      /\ \A r \in 1..maxRow, c \in 1..maxCol :
           Win(d)[r][c] = IF Num(r, c) = Pos(d) THEN g ELSE Win(a)[r][c]
  BY <1>1, <1>2, PutCells
<1> HIDE DEF d
<1>4. Alike(d, k) /\ Pos(d) = Pos(k) - n + (i + 1)
  BY <1>1, <1>3 DEF Alike
<1>5. ASSUME NEW r \in 1..maxRow, NEW c \in 1..maxCol
      PROVE  Win(d)[r][c] = IF Pos(k) - n < Num(r, c) /\ Num(r, c) <= Pos(k) - n + (i + 1)
                            THEN line[Num(r, c) - Pos(k) + n] ELSE Win(e)[r][c]
  <2>1. Num(r, c) \in Nat
    BY CellNumbers
  <2>2. Win(d)[r][c] = IF Num(r, c) = Pos(d) THEN g ELSE Win(a)[r][c]
    BY <1>3
  <2>3. Win(a)[r][c] = IF Pos(k) - n < Num(r, c) /\ Num(r, c) <= Pos(k) - n + i
                       THEN line[Num(r, c) - Pos(k) + n] ELSE Win(e)[r][c]
    BY DEF Again
  <2>4. CASE Num(r, c) = Pos(d)
    <3>1. Num(r, c) - Pos(k) + n = i + 1
      BY <1>1, <1>4, <2>1, <2>4
    <3>2. Pos(k) - n < Num(r, c) /\ Num(r, c) <= Pos(k) - n + (i + 1)
      BY <1>1, <1>4, <2>1, <2>4
    <3> QED BY <2>2, <2>4, <3>1, <3>2
  <2>5. CASE Num(r, c) # Pos(d)
    <3>1. (Pos(k) - n < Num(r, c) /\ Num(r, c) <= Pos(k) - n + (i + 1))
            <=> (Pos(k) - n < Num(r, c) /\ Num(r, c) <= Pos(k) - n + i)
      BY <1>1, <1>4, <2>1, <2>5
    <3> QED BY <2>2, <2>3, <2>5, <3>1
  <2> QED BY <2>4, <2>5
<1> QED BY <1>3, <1>4, <1>5 DEF Again, d

\* A line typed, and the blanks typed instead of it.
LEMMA TypedBoth ==
  ASSUME Sized, NEW k, Good(k), Twin(k), NEW n \in 1..LineLength, NEW line \in [1..n -> Glyphs]
  PROVE  Both(Typed(k, line, n), Typed(k, [i \in 1..n |-> Blank], n), line, n)
<1> DEFINE blanks == [i \in 1..n |-> Blank]
<1>1. n \in Nat /\ n <= LineLength /\ LineLength \in Nat
  BY LastFacts
<1>2. PICK t : t[0] = k /\ (\A i \in 1..n : t[i] = fputc(t[i - 1], line[i])) /\ Typed(k, line, n) = t[n]
  BY <1>1, TypedIs
<1> HIDE DEF blanks
<1>3. PICK b : b[0] = k /\ (\A i \in 1..n : b[i] = fputc(b[i - 1], blanks[i])) /\ Typed(k, blanks, n) = b[n]
  BY <1>1, TypedIs
<1> DEFINE T == {i \in Nat : i <= n => Both(t[i], b[i], line, i)}
<1>4. 0 \in T
  <2>1. Pos(k) \in Nat
    BY PosFacts
  <2>2. Alike(k, k)
    BY DEF Alike
  <2>3. \A r \in 1..maxRow, c \in 1..maxCol : ~(Pos(k) - 0 < Num(r, c) /\ Num(r, c) <= Pos(k))
    BY <2>1, CellNumbers
  <2>4. Both(k, k, line, 0)
    BY <2>1, <2>2, <2>3 DEF Both
  <2> QED BY <1>2, <1>3, <2>4
<1>5. ASSUME NEW i \in Nat, i \in T PROVE i + 1 \in T
  <2> SUFFICES ASSUME i + 1 <= n PROVE Both(t[i + 1], b[i + 1], line, i + 1)
    OBVIOUS
  <2>1. i + 1 \in 1..n /\ i <= n /\ (i + 1) - 1 = i /\ i + 1 <= LineLength
    BY <1>1
  <2>2. Both(t[i], b[i], line, i)
    BY <1>5, <2>1
  <2>3. line[i + 1] \in Glyphs /\ blanks[i + 1] = Blank
    BY <2>1 DEF blanks
  <2>4. t[i + 1] = PutGlyph(t[i], line[i + 1]) /\ b[i + 1] = PutGlyph(b[i], Blank)
    <3>1. t[i + 1] = fputc(t[i], line[i + 1]) /\ b[i + 1] = fputc(b[i], Blank)
      BY <1>2, <1>3, <2>1, <2>3
    <3> QED BY <2>3, <3>1, fputcIs
  <2> QED BY <2>1, <2>2, <2>3, <2>4, BothStep
<1> HIDE DEF T
<1>6. n \in T
  BY <1>1, <1>4, <1>5, NatSetInduction
<1> QED BY <1>1, <1>2, <1>3, <1>6 DEF T, blanks

LEMMA RubbedAll ==
  ASSUME Sized, NEW k, Good(k), Twin(k), NEW n \in Nat, n <= Pos(k)
  PROVE  Rubbed(RubbedOut(k, n), k, n)
<1>1. PICK f : f[0] = k /\ (\A i \in 1..n : f[i] = RubOut(f[i - 1])) /\ RubbedOut(k, n) = f[n]
  BY RubbedOutIs
<1>2. Pos(k) \in Nat
  BY PosFacts
<1> DEFINE T == {i \in Nat : i <= n => Rubbed(f[i], k, i)}
<1>3. 0 \in T
  <2>1. Alike(k, k)
    BY DEF Alike
  <2>2. \A r \in 1..maxRow, c \in 1..maxCol : ~(Pos(k) - 0 < Num(r, c) /\ Num(r, c) <= Pos(k))
    BY <1>2, CellNumbers
  <2>3. Rubbed(k, k, 0)
    BY <1>2, <2>1, <2>2 DEF Rubbed
  <2> QED BY <1>1, <2>3
<1>4. ASSUME NEW i \in Nat, i \in T PROVE i + 1 \in T
  <2> SUFFICES ASSUME i + 1 <= n PROVE Rubbed(f[i + 1], k, i + 1)
    OBVIOUS
  <2>1. i + 1 \in 1..n /\ i <= n /\ (i + 1) - 1 = i /\ i < Pos(k)
    BY <1>2
  <2>2. Rubbed(f[i], k, i) /\ f[i + 1] = RubOut(f[i])
    BY <1>1, <1>4, <2>1
  <2> QED BY <2>1, <2>2, RubbedStep
<1> HIDE DEF T
<1>5. n \in T
  BY <1>3, <1>4, NatSetInduction
<1> QED BY <1>1, <1>5 DEF T

LEMMA TypedAgain ==
  ASSUME Sized, NEW k, Good(k), NEW n \in Nat, NEW line \in [1..n -> Glyphs],
         NEW e, Rubbed(e, k, n)
  PROVE  Again(Typed(e, line, n), e, k, line, n, n)
<1>1. PICK f : f[0] = e /\ (\A i \in 1..n : f[i] = fputc(f[i - 1], line[i])) /\ Typed(e, line, n) = f[n]
  BY TypedIs
<1>2. Pos(k) \in Nat
  BY PosFacts
<1> DEFINE T == {i \in Nat : i <= n => Again(f[i], e, k, line, n, i)}
<1>3. 0 \in T
  <2>1. \A r \in 1..maxRow, c \in 1..maxCol : ~(Pos(k) - n < Num(r, c) /\ Num(r, c) <= Pos(k) - n + 0)
    BY <1>2, CellNumbers
  <2>2. Pos(e) = Pos(k) - n + 0
    BY <1>2 DEF Rubbed
  <2>3. Again(e, e, k, line, n, 0)
    BY <2>1, <2>2 DEF Again, Rubbed
  <2> QED BY <1>1, <2>3
<1>4. ASSUME NEW i \in Nat, i \in T PROVE i + 1 \in T
  <2> SUFFICES ASSUME i + 1 <= n PROVE Again(f[i + 1], e, k, line, n, i + 1)
    OBVIOUS
  <2>1. i + 1 \in 1..n /\ i <= n /\ (i + 1) - 1 = i /\ i < n
    OBVIOUS
  <2>2. Again(f[i], e, k, line, n, i) /\ line[i + 1] \in Glyphs
    BY <1>4, <2>1
  <2>3. f[i + 1] = PutGlyph(f[i], line[i + 1])
    <3>1. f[i + 1] = fputc(f[i], line[i + 1])
      BY <1>1, <2>1
    <3> QED BY <2>2, <3>1, fputcIs
  <2> QED BY <2>1, <2>2, <2>3, AgainStep
<1> HIDE DEF T
<1>5. n \in T
  BY <1>3, <1>4, NatSetInduction
<1> QED BY <1>1, <1>5 DEF T

\* Windows that agree in every cell are the same.
LEMMA WinSame ==
  ASSUME Sized, NEW j, NEW k, Good(j), Good(k),
         \A r \in 1..maxRow, c \in 1..maxCol : Win(j)[r][c] = Win(k)[r][c]
  PROVE  Win(j) = Win(k)
<1>1. Win(j) \in Windows /\ Win(k) \in Windows
  BY WinType
<1> DEFINE u == Win(j)
           v == Win(k)
           Line == [1..maxCol -> Glyphs \cup {Blank}]
<1>2. u \in [1..maxRow -> Line] /\ v \in [1..maxRow -> Line] /\ \A r \in 1..maxRow, c \in 1..maxCol : u[r][c] = v[r][c]
  BY <1>1 DEF Windows
<1> HIDE DEF u, v
<1>3. ASSUME NEW r \in 1..maxRow PROVE u[r] = v[r]
  <2> DEFINE f == u[r]
             g == v[r]
  <2>1. f \in Line /\ g \in Line /\ \A c \in 1..maxCol : f[c] = g[c]
    <3> HIDE DEF Line
    <3> QED BY <1>2
  <2> HIDE DEF f, g
  <2>2. f = [c \in 1..maxCol |-> f[c]] /\ g = [c \in 1..maxCol |-> g[c]]
    BY <2>1
  <2>3. [c \in 1..maxCol |-> f[c]] = [c \in 1..maxCol |-> g[c]]
    BY <2>1
  <2>4. f = g
    BY ONLY <2>2, <2>3
  <2> QED BY <2>4 DEF f, g
<1> HIDE DEF Line
<1>4. u = [r \in 1..maxRow |-> u[r]] /\ v = [r \in 1..maxRow |-> v[r]]
  BY <1>2
<1>5. [r \in 1..maxRow |-> u[r]] = [r \in 1..maxRow |-> v[r]]
  BY <1>3
<1>6. u = v
  BY ONLY <1>4, <1>5
<1> QED BY <1>6 DEF u, v

\* On a good console whose pages are twins, a line that is rubbed out can be typed again.
LEMMA LineRetypes ==
  ASSUME Sized, NEW k, Good(k), Twin(k), NEW n \in 1..LineLength, NEW line \in [1..n -> Glyphs]
  PROVE  LET typed  == Typed(k, line, n)
             blank  == Typed(k, [i \in 1..n |-> Blank], n)
             erased == RubbedOut(typed, n)
         IN  erased.ram = blank.ram /\ erased.roll = blank.roll /\ Typed(erased, line, n) = typed
<1> DEFINE t == Typed(k, line, n)
           b == Typed(k, [i \in 1..n |-> Blank], n)
           e == RubbedOut(t, n)
           a == Typed(e, line, n)
<1>1. n \in Nat /\ n >= 1
  BY LastFacts
<1>2. Both(t, b, line, n)
  BY TypedBoth
<1> HIDE DEF t, b
<1>3. Good(t) /\ Good(b) /\ Twin(t) /\ Twin(b) /\ Alike(t, b) /\ n <= Pos(t) /\ t.col >= 2 /\ Pos(t) \in Nat
  BY <1>1, <1>2, PosFacts DEF Both
<1>4. Rubbed(e, t, n)
  BY <1>1, <1>3, RubbedAll
<1> HIDE DEF e
<1>5. Again(a, e, t, line, n, n)
  BY <1>1, <1>3, <1>4, TypedAgain
<1> HIDE DEF a
<1>6. Good(e) /\ Twin(e) /\ e.roll = b.roll
  BY <1>3, <1>4 DEF Rubbed, Alike
<1>7. \A r \in 1..maxRow, c \in 1..maxCol : Win(e)[r][c] = Win(b)[r][c]
  BY <1>2, <1>4 DEF Both, Rubbed
<1>8. e.ram = b.ram
  BY <1>3, <1>6, <1>7, WinSame, Whole
<1>9. Good(a) /\ Twin(a) /\ Alike(a, t) /\ Pos(a) = Pos(t) /\ a.col >= 2
  BY <1>1, <1>3, <1>5 DEF Again
<1>10. ASSUME NEW r \in 1..maxRow, NEW c \in 1..maxCol PROVE Win(a)[r][c] = Win(t)[r][c]
  <2>1. Num(r, c) \in Nat
    BY CellNumbers
  <2>2. Pos(t) - n + n = Pos(t) /\ Num(r, c) - Pos(t) + n = Num(r, c) - Pos(t) + n
    BY <1>1, <1>3
  <2>3. Win(a)[r][c] = IF Pos(t) - n < Num(r, c) /\ Num(r, c) <= Pos(t)
                       THEN line[Num(r, c) - Pos(t) + n] ELSE Win(e)[r][c]
    BY <1>5, <2>2 DEF Again
  <2>4. Win(e)[r][c] = IF Pos(t) - n < Num(r, c) /\ Num(r, c) <= Pos(t) THEN Blank ELSE Win(t)[r][c]
    BY <1>4 DEF Rubbed
  <2>5. Pos(t) - n < Num(r, c) /\ Num(r, c) <= Pos(t) => Win(t)[r][c] = line[Num(r, c) - Pos(t) + n]
    BY <1>2 DEF Both
  <2> QED BY <2>3, <2>4, <2>5
<1>11. Win(a) = Win(t)
  BY <1>3, <1>9, <1>10, WinSame
<1>12. a.row = t.row /\ a.col = t.col
  BY <1>3, <1>9, SamePlace
<1>13. a = t
  BY <1>3, <1>9, <1>11, <1>12, SameConsole
<1> QED BY <1>6, <1>8, <1>13 DEF t, b, e, a

\* No step draws on one page of a text row and not on the other.
TwinInv == IInv /\ (phase = "focus" => Twin(con))

LEMMA fputcTwin ==
  ASSUME Sized, NEW k, Good(k), Twin(k), NEW ch \in Chars
  PROVE  Twin(fputc(k, ch))
<1>1. /\ k.row \in 1..maxRow /\ k.col \in 1..(maxCol + 1) /\ k.mode \in {CURSOR_MODE_HIDE, CURSOR_MODE_SHOW}
      /\ maxRow \in Nat /\ maxCol \in Nat /\ maxCol >= 1
  BY Sizes, GoodFacts DEF Sized
<1>2. ASSUME NEW r \in 0..(maxRow + 1), NEW c \in 1..maxCol PROVE Twin(SetCursor(k, r, c, k.mode))
  BY <1>1, SetCursorKeeps
<1>3. CASE ch = BEL
  <2>1. fputc(k, ch) = Bell(k)
    BY <1>3 DEF fputc
  <2>2. Bell(k).ram = k.ram
    BY DEF Bell, LCD_AllPixOn, SetCursorMode, Good, ConState
  <2> QED BY <2>1, <2>2 DEF Twin
<1>4. CASE ch # BEL /\ ch = BS
  <2>1. fputc(k, ch) = Backspace(k)
    BY <1>4 DEF fputc
  <2>2. CASE k.col > 1
    <3>1. k.row \in 0..(maxRow + 1) /\ k.col - 1 \in 1..maxCol
      BY <1>1, <2>2
    <3> QED BY <1>2, <2>1, <2>2, <3>1 DEF Backspace
  <2>3. CASE ~(k.col > 1)
    <3>1. k.row - 1 \in 0..(maxRow + 1) /\ maxCol \in 1..maxCol
      BY <1>1
    <3> QED BY <1>2, <2>1, <2>3, <3>1 DEF Backspace
  <2> QED BY <2>2, <2>3
<1>5. CASE ch \notin {BEL, BS} /\ ch = LF
  <2>1. fputc(k, ch) = NewLine(k)
    BY <1>5 DEF fputc
  <2>2. k.row + 1 \in 0..(maxRow + 1) /\ 1 \in 1..maxCol
    BY <1>1
  <2> QED BY <1>2, <2>1, <2>2 DEF NewLine
<1>6. CASE ch \notin {BEL, BS, LF} /\ ch = CR
  <2>1. fputc(k, ch) = CarriageReturn(k)
    BY <1>6 DEF fputc
  <2>2. k.row \in 0..(maxRow + 1) /\ 1 \in 1..maxCol
    BY <1>1
  <2> QED BY <1>2, <2>1, <2>2 DEF CarriageReturn
<1>7. CASE ch \notin {BEL, BS, LF, CR}
  <2>1. ch \in Glyphs \cup {Blank}
    BY <1>7 DEF Chars
  <2>2. fputc(k, ch) = PutGlyph(k, ch)
    BY <1>7 DEF fputc
  <2>3. Twin(PutGlyph(k, ch))
    BY <2>1, PutMoves
  <2> QED BY <2>2, <2>3
<1> QED BY <1>3, <1>4, <1>5, <1>6, <1>7

LEMMA TwinNext == TwinInv /\ [Next]_vars => TwinInv'
<1> SUFFICES ASSUME TwinInv, [Next]_vars PROVE TwinInv'
  OBVIOUS
<1>1. IInv /\ IInv'
  BY NextInv DEF TwinInv
<1> SUFFICES ASSUME phase' = "focus" PROVE Twin(con)'
  BY <1>1 DEF TwinInv
<1>2. CASE MsgInit
  BY <1>2 DEF MsgInit
<1>3. CASE MsgSetFocus
  <2>1. con'.ram = BlankRam
    <3> DEFINE k == OS3K_ClearScreen(con)
    <3>1. con' = ClearScreen(k) /\ con \in ConState
      BY <1>1, <1>3 DEF MsgSetFocus, IInv
    <3>2. "ram" \in DOMAIN k
      BY <3>1 DEF OS3K_ClearScreen, ConState
    <3> HIDE DEF k
    <3> QED BY <3>1, <3>2 DEF ClearScreen, OS3K_ClearScreen, LCD_SetScreenRoll
  <2> QED BY <2>1 DEF Twin, BlankRam
<1>4. CASE MsgKillFocus
  BY <1>4 DEF MsgKillFocus
<1>5. ASSUME InFocus
      PROVE  /\ Sized /\ Good(con) /\ Twin(con) /\ con \in ConState /\ maxRow \in Nat
             /\ (\A j : (con' = j /\ Twin(j)) => Twin(con)')
  BY <1>1, <1>5, Sizes DEF IInv, TwinInv, InFocus, Twin, Sized, Good
<1>6. CASE CallClearScreen
  <2>1. con'.ram = BlankRam
    BY <1>1, <1>6 DEF CallClearScreen, IInv, ClearScreen, OS3K_ClearScreen, LCD_SetScreenRoll, ConState
  <2> QED BY <2>1 DEF Twin, BlankRam
<1>7. CASE CallSetCursor
  <2>1. PICK r \in 1..maxRow, c \in 1..maxCol, mode \in {CURSOR_MODE_HIDE, CURSOR_MODE_SHOW} :
          con' = SetCursor(con, r, c, mode)
    BY <1>7 DEF CallSetCursor
  <2>2. Sized /\ Good(con) /\ Twin(con) /\ r \in 0..(maxRow + 1) /\ InFocus
    BY <1>5, <1>7 DEF CallSetCursor
  <2>3. Twin(SetCursor(con, r, c, mode))
    BY <2>2, SetCursorKeeps
  <2> QED BY <1>5, <2>1, <2>2, <2>3
<1>8. CASE CallSetCursorMode
  <2>1. PICK mode \in {CURSOR_MODE_HIDE, CURSOR_MODE_SHOW} : con' = SetCursorMode(con, mode)
    BY <1>8 DEF CallSetCursorMode
  <2>2. InFocus /\ Twin(con) /\ con \in ConState
    BY <1>5, <1>8 DEF CallSetCursorMode
  <2>3. con'.ram = con.ram
    BY <2>1, <2>2 DEF SetCursorMode, ConState
  <2> QED BY <2>2, <2>3 DEF Twin, InFocus
<1>9. ASSUME NEW ch \in Chars, CallFputc(ch) PROVE Twin(con)'
  <2>1. InFocus /\ con' = fputc(con, ch)
    BY <1>9 DEF CallFputc
  <2>2. Twin(fputc(con, ch))
    BY <1>5, <2>1, fputcTwin
  <2> QED BY <1>5, <2>1, <2>2
<1>10. CASE UNCHANGED vars
  BY <1>10 DEF vars, TwinInv, Twin
<1> QED BY <1>2, <1>3, <1>4, <1>6, <1>7, <1>8, <1>9, <1>10 DEF Next

\* A line that is rubbed out can be typed again, on every LCD and font, for every line that fits.
THEOREM TypedLinesRetype == Spec => []RubbedOutLineRetypes
<1>1. Init => TwinInv
  BY InitInv DEF Init, TwinInv
<1>2. TwinInv => RubbedOutLineRetypes
  <2> SUFFICES ASSUME TwinInv, phase = "focus", NEW n \in 1..LineLength, NEW line \in [1..n -> Glyphs]
               PROVE  \E typed \in {Typed(con, line, n)} : \E erased \in {RubbedOut(typed, n)} :
                        /\ SameScreen(erased, Typed(con, [i \in 1..n |-> Blank], n))
                        /\ Typed(erased, line, n) = typed
    BY DEF RubbedOutLineRetypes
  <2> DEFINE typed  == Typed(con, line, n)
             blank  == Typed(con, [i \in 1..n |-> Blank], n)
             erased == RubbedOut(typed, n)
  <2>1. Sized /\ Good(con) /\ Twin(con)
    BY DEF TwinInv, IInv
  <2>2. erased.ram = blank.ram /\ erased.roll = blank.roll /\ Typed(erased, line, n) = typed
    BY <2>1, LineRetypes
  <2>3. SameScreen(erased, blank)
    BY ONLY <2>2 DEF SameScreen
  <2>4. typed \in {Typed(con, line, n)} /\ erased \in {RubbedOut(typed, n)}
    OBVIOUS
  <2> HIDE DEF erased
  <2> QED BY <2>2, <2>3, <2>4
<1> QED BY <1>1, <1>2, TwinNext, PTL DEF Spec

=============================================================================
