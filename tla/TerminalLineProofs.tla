------------------------- MODULE TerminalLineProofs -------------------------
(***************************************************************************)
(* What TLAPS proves of TerminalLine, for every window, tab size, list of  *)
(* widths and length of the line: the types, that the position counts the  *)
(* columns, that tab sizes fit their widths, where a comma leads, and that *)
(* the window shows the line being edited.                                 *)
(*                                                                         *)
(* The invariant is IInv below.  Beside the types it says that the         *)
(* position is in step with the column unless the history says that it     *)
(* went out of step, where the position also stays within the width (a     *)
(* full line is broken when it equals the width) or the tab size (it       *)
(* starts anew when it equals the tab size), and that the limit for commas *)
(* is the one of the present width and tab size, unless a failed WIDTH     *)
(* left it behind.                                                         *)
(*                                                                         *)
(* Every routine is a function of the output record, so most of the lemmas *)
(* say what one of them makes of a record that is Sound.                   *)
(***************************************************************************)
EXTENDS TerminalLine, WellFoundedInduction, TLAPS

-----------------------------------------------------------------------------
(* Numbers.  The library's induction theorem takes a predicate as a        *)
(* parameter; the well-foundedness of < speaks of sets and serves the same *)
(* purpose.                                                                *)

Less == {p \in Nat \X Nat : p[1] < p[2]}

\* A set of numbers that holds zero and every successor of its elements holds them all.
LEMMA NatSetInduction ==
  ASSUME NEW T, 0 \in T, \A k \in Nat : k \in T => k + 1 \in T
  PROVE  Nat \subseteq T
<1> DEFINE Rest == {k \in Nat : k \notin T}
<1> SUFFICES ASSUME Rest # {} PROVE FALSE
  OBVIOUS
<1>1. IsWellFoundedOn(Less, Nat)
  BY NatLessThanWellFounded DEF OpToRel, Less
<1>2. Rest \subseteq Nat
  OBVIOUS
<1> HIDE DEF Rest
<1>3. \E x \in Rest : \A y \in Rest : ~(<<y, x>> \in Less)
  BY <1>1, <1>2, WFMin, Zenon
<1>4. PICK x \in Rest : \A y \in Rest : ~(<<y, x>> \in Less)
  BY <1>3
<1>5. x \in Nat /\ x # 0 /\ x \notin T
  BY DEF Rest
<1>6. x - 1 \in Nat /\ x - 1 < x /\ (x - 1) + 1 = x
  BY <1>5
<1>7. x - 1 \notin T
  BY <1>5, <1>6
<1>8. x - 1 \in Rest
  BY <1>6, <1>7 DEF Rest
<1>9. <<x - 1, x>> \in Less
  BY <1>5, <1>6 DEF Less
<1> QED
  BY <1>4, <1>8, <1>9

\* What a step keeps, every step of a row keeps.
LEMMA Along ==
  ASSUME NEW S, NEW n \in Nat, NEW f, f[0] \in S, \A k \in 1..n : f[k - 1] \in S => f[k] \in S
  PROVE  \A k \in 0..n : f[k] \in S
<1> DEFINE T == {k \in Nat : k <= n => f[k] \in S}
<1>1. 0 \in T
  OBVIOUS
<1>2. ASSUME NEW k \in Nat, k \in T PROVE k + 1 \in T
  <2>1. CASE k + 1 <= n
    <3>1. k + 1 \in 1..n /\ (k + 1) - 1 = k /\ k <= n
      BY <2>1
    <3>2. f[k] \in S
      BY <1>2, <3>1
    <3> QED
      BY <3>1, <3>2
  <2>2. CASE ~(k + 1 <= n)
    BY <2>2
  <2> QED
    BY <2>1, <2>2
<1> HIDE DEF T
<1>3. Nat \subseteq T
  BY <1>1, <1>2, NatSetInduction
<1> QED
  BY <1>3 DEF T

\* A function applied over and over.
IsIteration(g, S, step, u, n) ==
  g \in [0..n -> S] /\ g[0] = u /\ \A k \in 1..n : g[k] = step[g[k - 1]]

\* It can be applied as often as one likes.
LEMMA Iterates ==
  ASSUME NEW S, NEW step \in [S -> S], NEW u \in S, NEW n \in Nat
  PROVE  \E g : IsIteration(g, S, step, u, n)
<1> DEFINE T == {m \in Nat : \E g : IsIteration(g, S, step, u, m)}
<1>1. 0 \in T
  <2> DEFINE g == [k \in 0..0 |-> u]
  <2>1. g \in [0..0 -> S] /\ g[0] = u
    OBVIOUS
  <2>2. \A k \in 1..0 : g[k] = step[g[k - 1]]
    OBVIOUS
  <2> HIDE DEF g
  <2>3. IsIteration(g, S, step, u, 0)
    BY <2>1, <2>2 DEF IsIteration
  <2> QED
    BY <2>3
<1>2. ASSUME NEW m \in Nat, m \in T PROVE m + 1 \in T
  <2>0. PICK g : IsIteration(g, S, step, u, m)
    BY <1>2
  <2>1. g \in [0..m -> S] /\ g[0] = u /\ \A k \in 1..m : g[k] = step[g[k - 1]]
    BY <2>0 DEF IsIteration
  <2> DEFINE h == [k \in 0..(m + 1) |-> IF k <= m THEN g[k] ELSE step[g[m]]]
  <2>2. h \in [0..(m + 1) -> S] /\ h[0] = u /\ h[m + 1] = step[g[m]]
    BY <2>1
  <2>3. \A k \in 0..m : h[k] = g[k]
    OBVIOUS
  <2> HIDE DEF h
  <2>4. ASSUME NEW k \in 1..(m + 1) PROVE h[k] = step[h[k - 1]]
    <3>1. k - 1 \in 0..m /\ h[k - 1] = g[k - 1]
      BY <2>3
    <3>2. CASE k = m + 1
      BY <2>2, <3>1, <3>2
    <3>3. CASE k # m + 1
      BY <2>1, <2>3, <3>1, <3>3
    <3> QED
      BY <3>2, <3>3
  <2>5. IsIteration(h, S, step, u, m + 1)
    BY <2>2, <2>4 DEF IsIteration
  <2> QED
    BY <2>5
<1> HIDE DEF T
<1>3. Nat \subseteq T
  BY <1>1, <1>2, NatSetInduction
<1> QED
  BY <1>3 DEF T

-----------------------------------------------------------------------------
(* Quotients and remainders.                                               *)

\* A number is a multiple of the divisor and a remainder.
LEMMA Division ==
  ASSUME NEW m \in Nat \ {0}, NEW n \in Int
  PROVE  n % m \in 0..(m - 1) /\ n \div m \in Int /\ n = m * (n \div m) + (n % m)
OBVIOUS

\* What a quotient and a remainder are determined by.
LEMMA RemainderIs ==
  ASSUME NEW m \in Nat \ {0}, NEW q \in Int, NEW r \in 0..(m - 1), NEW n, n = m * q + r
  PROVE  n % m = r /\ n \div m = q
OBVIOUS

\* A remainder of a number at most one size below or above.
LEMMA WrapAround ==
  ASSUME NEW m \in Nat \ {0}, NEW n \in Int, -m <= n, n < 2 * m
  PROVE  n % m = IF n < 0 THEN n + m ELSE IF n < m THEN n ELSE n - m
<1> DEFINE q == n \div m
           r == n % m
<1>1. r \in 0..(m - 1) /\ q \in Int /\ n = m * q + r
  BY Division
<1> HIDE DEF q, r
<1>2. q >= 2 => m * q >= 2 * m
  BY <1>1
<1>3. q <= -2 => m * q <= -2 * m
  BY <1>1
<1>4. q \in {-1, 0, 1}
  BY <1>1, <1>2, <1>3
<1> QED
  BY <1>1, <1>4 DEF r

\* Going around a whole number of times changes no remainder.
LEMMA WholeTurns ==
  ASSUME NEW m \in Nat \ {0}, NEW n \in Int, NEW j \in Int
  PROVE  (n + j * m) % m = n % m
<1> DEFINE q == n \div m
           r == n % m
           x == n + j * m
<1>1. r \in 0..(m - 1) /\ q \in Int /\ n = m * q + r
  BY Division
<1> HIDE DEF q, r
<1>2. x = m * (q + j) + r /\ q + j \in Int /\ x \in Int
  BY <1>1
<1> HIDE DEF x
<1>3. \A i \in Int : x = m * i + r => x % m = r
  BY <1>1, <1>2
<1> QED
  BY <1>2, <1>3 DEF x, r

\* Numbers of the same remainder still have the same one when a third is added to both.
LEMMA SameRemainder ==
  ASSUME NEW m \in Nat \ {0}, NEW a \in Int, NEW b \in Int, NEW k \in Int, a % m = b % m
  PROVE  (a + k) % m = (b + k) % m
<1> DEFINE p == a \div m
           q == b \div m
           r == a % m
           s == b % m
           x == a + k
           j == q - p
<1>1. r = s /\ p \in Int /\ q \in Int /\ r \in Int /\ a = m * p + r /\ b = m * q + s
  BY Division
<1> HIDE DEF p, q, r, s
<1>2. b + k = x + j * m /\ x \in Int /\ j \in Int
  BY <1>1
<1> HIDE DEF x, j
<1>3. (x + j * m) % m = x % m
  BY <1>2, WholeTurns
<1> QED
  BY <1>2, <1>3 DEF x

-----------------------------------------------------------------------------
(* Types.                                                                  *)

Cell  == {Glyph, Blank, CTRL}
Chars == {Glyph, Blank, CTRL, BS, CR, LF}
Win   == [win : [1..Rows -> [1..Cols -> Cell]], row : 1..Rows, col : 1..(Cols + 1)]

\* Where the edited line may begin, and what the output record may be.
Starts == [row : 0..Rows, col : 1..(Cols + 1)]

TState ==
  [pos : 0..255, term : Win, col : Int, off : BOOLEAN, start : Starts,
   TWidth : 0..255, TabSiz : 1..127, Nullct : 0..255]

\* The settings are the same.
Same(u, v) == v.TWidth = u.TWidth /\ v.TabSiz = u.TabSiz /\ v.Nullct = u.Nullct

LEMMA Distinct ==
  /\ Glyph # Blank /\ Glyph # CTRL /\ Glyph # BS /\ Glyph # CR /\ Glyph # LF
  /\ Blank # CTRL /\ Blank # BS /\ Blank # CR /\ Blank # LF
  /\ CTRL # BS /\ CTRL # CR /\ CTRL # LF /\ BS # CR /\ BS # LF /\ CR # LF
BY DEF Glyph, Blank, CTRL, BS, CR, LF

LEMMA WindowSize == Rows \in Nat \ {0} /\ Cols \in Nat \ {0}
BY TerminalLineAssumption DEF TerminalLineAssumption

-----------------------------------------------------------------------------
(* The window.                                                             *)

LEMMA BlankRowIs == Window!BlankRow \in [1..Cols -> Cell]
BY DEF Window!BlankRow, Cell

LEMMA MovedIs ==
  ASSUME NEW s \in Win, NEW r \in 1..Rows, NEW c \in 1..(Cols + 1)
  PROVE  /\ Window!Moved(s, r, c) \in Win
         /\ Window!Moved(s, r, c).row = r /\ Window!Moved(s, r, c).col = c
         /\ Window!Moved(s, r, c).win = s.win
BY DEF Window!Moved, Win

LEMMA LineFeedIs ==
  ASSUME NEW s \in Win
  PROVE  LET v == Window!LineFeed(s) IN
         /\ v \in Win /\ v.col = 1
         /\ IF s.row < Rows THEN v.row = s.row + 1 /\ v.win = s.win
            ELSE v.row = Rows /\ v.win = Window!ScrolledUp(s.win)
<1> DEFINE up == Window!ScrolledUp(s.win)
<1>1. up \in [1..Rows -> [1..Cols -> Cell]]
  BY BlankRowIs, WindowSize DEF Window!ScrolledUp, Win
<1>2. CASE s.row < Rows
  <2>1. s.row + 1 \in 1..Rows /\ 1 \in 1..(Cols + 1)
    BY <1>2, WindowSize DEF Win
  <2> QED
    BY <1>2, <2>1, MovedIs DEF Window!LineFeed
<1>3. CASE ~(s.row < Rows)
  <2> HIDE DEF up
  <2>1. Window!LineFeed(s) = [win |-> up, row |-> Rows, col |-> 1]
    BY <1>3 DEF Window!LineFeed, up
  <2> QED
    BY <1>1, <1>3, <2>1, WindowSize DEF Win, up
<1> QED
  BY <1>2, <1>3

LEMMA BackspaceIs ==
  ASSUME NEW s \in Win
  PROVE  LET v == Window!Backspace(s) IN
         /\ v \in Win
         /\ s.col > 1 => v.row = s.row /\ v.col = s.col - 1 /\ v.win = s.win
         /\ s.col = 1 /\ s.row > 1 => v.row = s.row - 1 /\ v.col = Cols /\ v.win = s.win
<1>0. s.row \in 1..Rows /\ s.col \in 1..(Cols + 1)
  BY DEF Win
<1>1. CASE s.col > 1
  <2>1. s.col - 1 \in 1..(Cols + 1)
    BY <1>0, <1>1, WindowSize
  <2>2. Window!Backspace(s) = Window!Moved(s, s.row, s.col - 1)
    BY <1>1 DEF Window!Backspace
  <2> QED
    BY <1>0, <1>1, <2>1, <2>2, MovedIs
<1>2. CASE s.col = 1 /\ s.row > 1
  <2>1. s.row - 1 \in 1..Rows /\ Cols \in 1..(Cols + 1)
    BY <1>0, <1>2, WindowSize
  <2>2. Window!Backspace(s) = Window!Moved(s, s.row - 1, Cols)
    BY <1>2 DEF Window!Backspace
  <2> QED
    BY <1>0, <1>2, <2>1, <2>2, MovedIs
<1>3. CASE s.col = 1 /\ ~(s.row > 1)
  <2> DEFINE down == Window!ScrolledDown(s.win)
  <2>1. down \in [1..Rows -> [1..Cols -> Cell]]
    <3>1. \A r \in 1..Rows : (IF r > 1 THEN s.win[r - 1] ELSE [s.win[Rows] EXCEPT ![Cols] = Blank]) \in [1..Cols -> Cell]
      <4>1. s.win[Rows] \in [1..Cols -> Cell] /\ Blank \in Cell
        BY WindowSize DEF Win, Cell
      <4>2. [s.win[Rows] EXCEPT ![Cols] = Blank] \in [1..Cols -> Cell]
        BY <4>1
      <4>3. \A r \in 1..Rows : r > 1 => s.win[r - 1] \in [1..Cols -> Cell]
        BY WindowSize DEF Win
      <4> QED
        BY <4>2, <4>3
    <3> QED
      BY <3>1 DEF Window!ScrolledDown
  <2> HIDE DEF down
  <2>2. Window!Backspace(s) = [win |-> down, row |-> 1, col |-> Cols]
    BY <1>3 DEF Window!Backspace, down
  <2> QED
    BY <1>3, <2>1, <2>2, WindowSize DEF Win
<1> QED
  BY <1>0, <1>1, <1>2, <1>3

\* Where a printed character goes: behind a wrapped line when the last one is full.
Room(s) == IF s.col > Cols THEN Window!LineFeed(s) ELSE s

LEMMA PrintedIs ==
  ASSUME NEW s \in Win, NEW ch \in Cell
  PROVE  LET v == Window!Printed(s, ch)
             r == Room(s)
         IN  /\ v \in Win /\ r \in Win /\ r.col \in 1..Cols
             /\ v.row = r.row /\ v.col = r.col + 1
             /\ v.win = [r.win EXCEPT ![r.row] = [r.win[r.row] EXCEPT ![r.col] = ch]]
<1> DEFINE r == Room(s)
           row == [r.win[r.row] EXCEPT ![r.col] = ch]
           win == [r.win EXCEPT ![r.row] = row]
           v == [r EXCEPT !.win = win, !.col = r.col + 1]
<1>1. r \in Win /\ r.col \in 1..Cols
  <2>1. CASE s.col > Cols
    BY <2>1, LineFeedIs, WindowSize DEF Room
  <2>2. CASE ~(s.col > Cols)
    BY <2>2, WindowSize DEF Room, Win
  <2> QED
    BY <2>1, <2>2
<1> HIDE DEF r
<1>2. r.row \in 1..Rows /\ r.win[r.row] \in [1..Cols -> Cell]
  BY <1>1 DEF Win
<1>3. row \in [1..Cols -> Cell]
  BY <1>1, <1>2
<1>4. Window!Printed(s, ch) = v
  BY <1>1 DEF Window!Printed, Room, r, Win
<1> HIDE DEF row
<1>5. win \in [1..Rows -> [1..Cols -> Cell]] /\ r.col + 1 \in 1..(Cols + 1)
  BY <1>1, <1>3, WindowSize DEF Win
<1> HIDE DEF win
<1>6. v \in Win /\ v.row = r.row /\ v.col = r.col + 1 /\ v.win = win
  BY <1>1, <1>5 DEF Win
<1> HIDE DEF v
<1> QED
  BY <1>1, <1>4, <1>6 DEF r, row, win

LEMMA ShownIs ==
  ASSUME NEW s \in Win, NEW ch \in Chars
  PROVE  Shown(s, ch) \in Win
<1>1. s.row \in 1..Rows /\ 1 \in 1..(Cols + 1)
  BY WindowSize DEF Win
<1>2. Window!CarriageReturn(s) \in Win
  BY <1>1, MovedIs DEF Window!CarriageReturn
<1>3. ch \in {BS, CR, LF} \/ ch \in Cell
  BY DEF Chars, Cell
<1> QED
  BY <1>2, <1>3, Distinct, LineFeedIs, BackspaceIs, PrintedIs DEF Shown

-----------------------------------------------------------------------------
(* One character.                                                          *)

\* A character that is drawn when the position is p.
Put(u, p, ch) == Out(Stepped([u EXCEPT !.pos = p], ch), ch)

\* What scrolling does to the start of the edited line.
StartRow(u, ch) ==
  IF ~ScrolledBy(u.term, ch) THEN u.start.row
  ELSE IF ch = BS \/ u.start.row = 0 THEN 0 ELSE u.start.row - 1

StartAfter(u, ch) == [u.start EXCEPT !.row = StartRow(u, ch)]

ColAfter(u, ch) == IF ch \in {CR, LF} THEN 0 ELSE IF ch = BS THEN u.col - 1 ELSE u.col + 1

OffAfter(u, p, ch) ==
  /\ ch # CR
  /\ u.off \/ ch = CTRL \/ (ch = LF /\ p # 0) \/ (ch = BS /\ (u.col = 0 \/ (p = 0 /\ u.col # 1)))

\* One field at a time.
LEMMA FieldIs ==
  ASSUME NEW u \in TState
  PROVE  /\ \A p \in 0..255 : [u EXCEPT !.pos = p] \in TState
         /\ \A term \in Win : [u EXCEPT !.term = term] \in TState
         /\ \A col \in Int : [u EXCEPT !.col = col] \in TState
         /\ \A off \in BOOLEAN : [u EXCEPT !.off = off] \in TState
         /\ \A start \in Starts : [u EXCEPT !.start = start] \in TState
         /\ \A n \in 0..255 : [u EXCEPT !.TWidth = n] \in TState /\ [u EXCEPT !.Nullct = n] \in TState
         /\ \A n \in 1..127 : [u EXCEPT !.TabSiz = n] \in TState
<1>1. ASSUME NEW n \in 0..255
      PROVE  [u EXCEPT !.pos = n] \in TState /\ [u EXCEPT !.TWidth = n] \in TState /\ [u EXCEPT !.Nullct = n] \in TState
  BY DEF TState
<1>2. ASSUME NEW term \in Win PROVE [u EXCEPT !.term = term] \in TState
  BY DEF TState
<1>3. ASSUME NEW col \in Int PROVE [u EXCEPT !.col = col] \in TState
  BY DEF TState
<1>4. ASSUME NEW off \in BOOLEAN PROVE [u EXCEPT !.off = off] \in TState
  BY DEF TState
<1>5. ASSUME NEW start \in Starts PROVE [u EXCEPT !.start = start] \in TState
  BY DEF TState
<1>6. ASSUME NEW n \in 1..127 PROVE [u EXCEPT !.TabSiz = n] \in TState
  BY DEF TState
<1> QED
  BY <1>1, <1>2, <1>3, <1>4, <1>5, <1>6

LEMMA PutIs ==
  ASSUME NEW u \in TState, NEW p \in 0..255, NEW ch \in Chars
  PROVE  LET v == Put(u, p, ch) IN
         /\ v \in TState /\ Same(u, v) /\ v.pos = p /\ v.term = Shown(u.term, ch) /\ v.start = StartAfter(u, ch)
         /\ v.col = ColAfter(u, ch) /\ v.off = OffAfter(u, p, ch)
<1> DEFINE x == [u EXCEPT !.pos = p]
           y == Stepped(x, ch)
           term == Shown(u.term, ch)
           start == StartAfter(u, ch)
           col == ColAfter(u, ch)
           off == OffAfter(u, p, ch)
           v == [u EXCEPT !.pos = p, !.col = col, !.off = off, !.term = term, !.start = start]
<1>1. x \in TState /\ x.pos = p /\ x.col = u.col /\ x.off = u.off /\ x.term = u.term /\ x.start = u.start
  BY DEF TState
<1>2. y = [x EXCEPT !.col = col, !.off = off]
  <2>1. CASE ch = CR
    BY <1>1, <2>1, Distinct DEF Stepped, ColAfter, OffAfter, TState
  <2>2. CASE ch = LF
    BY <1>1, <2>2, Distinct DEF Stepped, ColAfter, OffAfter, TState
  <2>3. CASE ch = CTRL
    BY <1>1, <2>3, Distinct DEF Stepped, ColAfter, OffAfter, TState
  <2>4. CASE ch = BS
    BY <1>1, <2>4, Distinct DEF Stepped, ColAfter, OffAfter, TState
  <2>5. CASE ch \notin {CR, LF, CTRL, BS}
    <3>1. y = [x EXCEPT !.col = x.col + 1]
      BY <2>5 DEF Stepped
    <3>2. col = u.col + 1
      BY <2>5 DEF ColAfter
    <3>3. off = u.off
      BY <2>5, Zenon DEF OffAfter, TState
    <3> QED
      BY <1>1, <3>1, <3>2, <3>3 DEF TState
  <2> QED
    BY <2>1, <2>2, <2>3, <2>4, <2>5
<1>3. col \in Int /\ off \in BOOLEAN
  <2>1. col \in Int
    BY DEF ColAfter, TState
  <2>2. off \in BOOLEAN
    BY Zenon DEF OffAfter
  <2> QED
    BY <2>1, <2>2
<1>4. term \in Win
  BY ShownIs DEF TState
<1>5. start \in Starts
  <2>1. StartRow(u, ch) \in 0..Rows
    BY WindowSize DEF StartRow, TState, Starts
  <2> QED
    BY <2>1 DEF StartAfter, TState, Starts
<1> HIDE DEF col, off
<1>6. y = [u EXCEPT !.pos = p, !.col = col, !.off = off]
  BY <1>2 DEF TState
<1> HIDE DEF x, y
<1>7. y.term = u.term /\ y.start = u.start
  BY <1>6 DEF TState
<1>8. Out(y, ch) = [y EXCEPT !.term = term, !.start = start]
  <2> DEFINE row == StartRow(u, ch)
  <2>1. Out(y, ch) = [y EXCEPT !.term = term, !.start = [u.start EXCEPT !.row = row]]
    BY <1>7 DEF Out, StartRow
  <2> QED
    BY <2>1 DEF StartAfter
<1>9. Out(y, ch) = v
  BY <1>6, <1>8 DEF TState
<1>10. v \in TState
  <2> DEFINE v1 == [u EXCEPT !.pos = p]
             v2 == [v1 EXCEPT !.col = col]
             v3 == [v2 EXCEPT !.off = off]
             v4 == [v3 EXCEPT !.term = term]
             v5 == [v4 EXCEPT !.start = start]
  <2>1. v = v5
    OBVIOUS
  <2>2. v1 \in TState
    BY FieldIs
  <2> HIDE DEF v, v1
  <2>3. v2 \in TState
    BY <1>3, <2>2, FieldIs
  <2> HIDE DEF v2
  <2>4. v3 \in TState
    BY <1>3, <2>3, FieldIs
  <2> HIDE DEF v3
  <2>5. v4 \in TState
    BY <1>4, <2>4, FieldIs
  <2> HIDE DEF v4
  <2> QED
    BY <1>5, <2>1, <2>5, FieldIs
<1>11. v.TWidth = u.TWidth /\ v.TabSiz = u.TabSiz /\ v.Nullct = u.Nullct
  BY DEF TState
<1>12. v.pos = p /\ v.term = term /\ v.start = start /\ v.col = col
  BY DEF TState
<1>13. v.off = off
  BY Zenon, <1>3 DEF TState
<1> HIDE DEF v
<1>14. Put(u, p, ch) = v
  BY <1>9 DEF Put, x, y
<1> QED
  BY <1>10, <1>11, <1>12, <1>13, <1>14 DEF Same, term, start, col, off

\* The position is the column, on an infinite line modulo the tab size.
InStep(u) ==
  \/ u.off
  \/ /\ u.col >= 0 /\ (u.pos = 0 <=> u.col = 0)
     /\ IF u.TWidth = 0 THEN u.pos <= u.TabSiz /\ u.pos % u.TabSiz = u.col % u.TabSiz
        ELSE u.pos = u.col /\ u.pos <= u.TWidth

\* The tab size fits the width.
Fitted(u) == u.TWidth # 0 => u.TabSiz <= u.TWidth

Sound(u) == u \in TState /\ Fitted(u) /\ InStep(u)

LEMMA FieldTypes ==
  ASSUME NEW u \in TState
  PROVE  /\ u.pos \in 0..255 /\ u.term \in Win /\ u.col \in Int /\ u.off \in BOOLEAN /\ u.start \in Starts
         /\ u.TWidth \in 0..255 /\ u.TabSiz \in 1..127 /\ u.Nullct \in 0..255
BY DEF TState

LEMMA SameFits ==
  ASSUME NEW u, NEW v, Fitted(u), Same(u, v)
  PROVE  Fitted(v)
BY DEF Fitted, Same

\* The step of a null.
NullOut(x) == Out(Stepped(x, CTRL), CTRL)

LEMMA NullOutIs ==
  ASSUME NEW x \in TState
  PROVE  NullOut(x) \in TState /\ Same(x, NullOut(x)) /\ NullOut(x).off
<1>1. [x EXCEPT !.pos = x.pos] = x
  BY DEF TState
<1>2. NullOut(x) = Put(x, x.pos, CTRL)
  BY <1>1 DEF NullOut, Put
<1>3. x.pos \in 0..255 /\ CTRL \in Chars
  BY FieldTypes DEF Chars
<1>4. Put(x, x.pos, CTRL) \in TState /\ Same(x, Put(x, x.pos, CTRL)) /\ Put(x, x.pos, CTRL).off = OffAfter(x, x.pos, CTRL)
  BY <1>3, PutIs
<1>5. OffAfter(x, x.pos, CTRL)
  BY Distinct DEF OffAfter
<1> QED
  BY <1>2, <1>4, <1>5

\* The nulls after a CR: the position is their counter's last value.
LEMMA NulledIs ==
  ASSUME NEW u \in TState
  PROVE  /\ Nulled(u) \in TState /\ Same(u, Nulled(u))
         /\ u.Nullct = 0 => Nulled(u) = u
         /\ u.Nullct # 0 => Nulled(u).off
<1> DEFINE n == u.Nullct + 1
           F(f) == f = [k \in 0..n |-> IF k = 0 THEN u ELSE Out(Stepped(f[k - 1], CTRL), CTRL)]
           after == CHOOSE f : F(f)
           step == [x \in TState |-> NullOut(x)]
           S == {x \in TState : Same(u, x)}
<1>1. n \in Nat /\ n >= 1
  BY FieldTypes
<1>2. Nulled(u) = IF u.Nullct = 0 THEN u ELSE [after[n] EXCEPT !.pos = 255]
  BY DEF Nulled
<1> HIDE DEF n
<1>3. \E g : F(g)
  <2>1. step \in [TState -> TState]
    BY NullOutIs
  <2> HIDE DEF step
  <2>0. PICK g : IsIteration(g, TState, step, u, n)
    BY <1>1, <2>1, Iterates, Zenon
  <2>2. g \in [0..n -> TState] /\ g[0] = u /\ \A k \in 1..n : g[k] = step[g[k - 1]]
    BY <2>0 DEF IsIteration
  <2>3. \A k \in 0..n : g[k] = IF k = 0 THEN u ELSE Out(Stepped(g[k - 1], CTRL), CTRL)
    <3> SUFFICES ASSUME NEW k \in 0..n, k # 0 PROVE g[k] = Out(Stepped(g[k - 1], CTRL), CTRL)
      BY <2>2
    <3>1. k \in 1..n /\ k - 1 \in 0..n
      BY <1>1
    <3>2. g[k] = step[g[k - 1]] /\ g[k - 1] \in TState
      BY <2>2, <3>1
    <3> QED
      BY <3>2 DEF step, NullOut
  <2>4. g = [k \in 0..n |-> g[k]]
    BY <2>2
  <2>5. g = [k \in 0..n |-> IF k = 0 THEN u ELSE Out(Stepped(g[k - 1], CTRL), CTRL)]
    BY <2>3, <2>4
  <2> QED
    BY <2>5
<1>4. F(after)
  BY <1>3
<1> HIDE DEF after
<1>5. after[0] = u /\ \A k \in 1..n : after[k] = NullOut(after[k - 1])
  <2>1. \A k \in 0..n : after[k] = IF k = 0 THEN u ELSE Out(Stepped(after[k - 1], CTRL), CTRL)
    BY <1>4
  <2>2. 0 \in 0..n /\ \A k \in 1..n : k \in 0..n /\ k # 0
    BY <1>1
  <2> QED
    BY <2>1, <2>2 DEF NullOut
<1>6. u \in S
  BY DEF Same
<1>7. ASSUME NEW k \in 1..n, after[k - 1] \in S PROVE after[k] \in S
  <2>1. after[k - 1] \in TState /\ Same(u, after[k - 1])
    BY <1>7
  <2>2. after[k] \in TState /\ Same(after[k - 1], after[k])
    BY <1>5, <2>1, NullOutIs
  <2> QED
    BY <2>1, <2>2 DEF Same
<1>8. \A k \in 0..n : after[k] \in S
  <2> HIDE DEF S
  <2> QED
    BY <1>1, <1>5, <1>6, <1>7, Along
<1>9. n \in 1..n /\ n \in 0..n /\ n - 1 \in 0..n
  BY <1>1
<1>10. after[n] \in TState /\ Same(u, after[n])
  BY <1>8, <1>9
<1>11. after[n].off
  <2>1. after[n] = NullOut(after[n - 1]) /\ after[n - 1] \in TState
    BY <1>5, <1>8, <1>9
  <2> QED
    BY <2>1, NullOutIs
<1> DEFINE x == after[n]
           v == [x EXCEPT !.pos = 255]
<1> HIDE DEF x
<1>12. x \in TState /\ Same(u, x) /\ x.off
  BY <1>10, <1>11 DEF x
<1>13. v \in TState
  <2>1. 255 \in 0..255
    OBVIOUS
  <2> QED
    BY <1>12, <2>1, FieldIs, Zenon
<1>14. v.off = x.off /\ v.TWidth = x.TWidth /\ v.TabSiz = x.TabSiz /\ v.Nullct = x.Nullct
  BY <1>12 DEF TState
<1> HIDE DEF v
<1>15. Same(u, v) /\ v.off
  BY <1>12, <1>14 DEF Same
<1>16. Nulled(u) = IF u.Nullct = 0 THEN u ELSE v
  BY <1>2 DEF v, x
<1>17. Same(u, u)
  BY DEF Same
<1> QED
  BY <1>13, <1>15, <1>16, <1>17

\* The new position of a control character.
ControlPos(u, ch) == CASE ch = BS -> (u.pos - 1) % 256 [] ch = CR -> 0 [] OTHER -> u.pos

LEMMA ControlIs ==
  ASSUME NEW u \in TState, NEW ch \in {CTRL, BS, CR, LF}
  PROVE  /\ ControlPos(u, ch) \in 0..255 /\ ch \in Chars
         /\ Control(u, ch) = IF ch = CR THEN Nulled(Put(u, 0, CR)) ELSE Put(u, ControlPos(u, ch), ch)
<1>1. u.pos \in 0..255 /\ (u.pos - 1) % 256 \in 0..255
  BY FieldTypes
<1>2. ControlPos(u, ch) \in 0..255
  BY <1>1 DEF ControlPos
<1>3. Control(u, ch) = IF ch = CR THEN Nulled(Put(u, ControlPos(u, ch), ch)) ELSE Put(u, ControlPos(u, ch), ch)
  BY DEF Control, ControlPos, Put
<1>4. ch = CR => ControlPos(u, ch) = 0
  BY Distinct DEF ControlPos
<1> QED
  BY <1>2, <1>3, <1>4 DEF Chars

\* A CR starts the count anew, unless nulls follow it.
LEMMA ReturnSound ==
  ASSUME NEW u \in TState, Fitted(u)
  PROVE  LET v == Control(u, CR) IN
         /\ Sound(v) /\ Same(u, v)
         /\ v.off \/ (v.pos = 0 /\ v.col = 0)
         /\ u.Nullct = 0 => v.pos = 0 /\ v.col = 0 /\ ~v.off /\ v.term = Shown(u.term, CR)
<1> DEFINE x == Put(u, 0, CR)
           v == Nulled(x)
<1>1. Control(u, CR) = v
  BY ControlIs
<1>2. 0 \in 0..255 /\ CR \in Chars
  BY DEF Chars
<1>3. x \in TState /\ Same(u, x) /\ x.pos = 0 /\ x.col = ColAfter(u, CR) /\ x.off = OffAfter(u, 0, CR)
      /\ x.term = Shown(u.term, CR)
  BY <1>2, PutIs
<1>4. x.col = 0 /\ ~x.off
  BY <1>3 DEF ColAfter, OffAfter
<1> HIDE DEF x
<1>5. v \in TState /\ Same(x, v) /\ (x.Nullct = 0 => v = x) /\ (x.Nullct # 0 => v.off)
  BY <1>3, NulledIs
<1> HIDE DEF v
<1>6. Same(u, v) /\ Fitted(v) /\ x.Nullct = u.Nullct
  BY <1>3, <1>5, SameFits DEF Same
<1>7. InStep(x)
  BY <1>3, <1>4, FieldTypes DEF InStep
<1>8. InStep(v)
  BY <1>5, <1>7 DEF InStep
<1> QED
  BY <1>1, <1>3, <1>4, <1>5, <1>6, <1>8 DEF Sound

\* Positions and columns of the same remainder, one further and one back.
LEMMA OneOn ==
  ASSUME NEW m \in Nat \ {0}, NEW p \in Int, NEW c \in Int, p % m = c % m
  PROVE  (p + 1) % m = (c + 1) % m /\ (p - 1) % m = (c - 1) % m
<1>1. (p + 1) % m = (c + 1) % m
  <2>1. 1 \in Int
    OBVIOUS
  <2> QED
    BY <2>1, SameRemainder, Zenon
<1>2. (p + (-1)) % m = (c + (-1)) % m
  <2>1. -1 \in Int
    OBVIOUS
  <2> QED
    BY <2>1, SameRemainder, Zenon
<1>3. p + (-1) = p - 1 /\ c + (-1) = c - 1
  OBVIOUS
<1> QED
  BY <1>1, <1>2, <1>3

LEMMA FirstColumn ==
  ASSUME NEW m \in 1..127, NEW p \in 1..m, p % m = 1 % m
  PROVE  p = 1
<1>1. m = 1 => p = 1
  OBVIOUS
<1>2. m > 1 => 1 % m = 1
  BY WrapAround
<1>3. p % m = IF p < m THEN p ELSE 0
  BY WrapAround
<1> QED
  BY <1>1, <1>2, <1>3

\* The other control characters.
LEMMA ControlSound ==
  ASSUME NEW u, Sound(u), NEW ch \in {CTRL, BS, CR, LF}
  PROVE  Sound(Control(u, ch)) /\ Same(u, Control(u, ch))
<1>0. u \in TState /\ Fitted(u) /\ InStep(u)
  BY DEF Sound
<1>1. CASE ch = CR
  BY <1>0, <1>1, ReturnSound
<1>2. CASE ch # CR
  <2> DEFINE p == ControlPos(u, ch)
             v == Put(u, p, ch)
  <2>1. p \in 0..255 /\ ch \in Chars /\ Control(u, ch) = v
    BY <1>0, <1>2, ControlIs
  <2> HIDE DEF p
  <2>2. v \in TState /\ Same(u, v) /\ v.pos = p /\ v.col = ColAfter(u, ch) /\ v.off = OffAfter(u, p, ch)
    BY <1>0, <2>1, PutIs
  <2> HIDE DEF v
  <2>3. Fitted(v)
    BY <1>0, <2>2, SameFits
  <2>4. ASSUME ch = CTRL PROVE InStep(v)
    BY <2>2, <2>4, Distinct DEF OffAfter, InStep
  <2>5. ASSUME ch = LF PROVE InStep(v)
    <3>1. p = u.pos
      BY <2>5, Distinct DEF ControlPos, p
    <3>2. v.off \/ (v.pos = 0 /\ v.col = 0)
      BY <2>2, <2>5, Distinct DEF OffAfter, ColAfter
    <3>3. v.TabSiz \in 1..127 /\ v.TWidth \in 0..255
      BY <2>2, FieldTypes
    <3> QED
      BY <3>2, <3>3 DEF InStep
  <2>6. ASSUME ch = BS PROVE InStep(v)
    <3> SUFFICES ASSUME ~v.off PROVE InStep(v)
      BY DEF InStep
    <3>1. ~u.off /\ u.col # 0 /\ (p = 0 => u.col = 1)
      BY <2>2, <2>6, Distinct DEF OffAfter
    <3>2. u.pos \in 1..255 /\ u.col \in Nat /\ u.TabSiz \in 1..127 /\ u.TWidth \in 0..255
      BY <1>0, <3>1, FieldTypes DEF InStep
    <3>3. p = u.pos - 1
      <4>1. p = (u.pos - 1) % 256
        BY <2>6, Distinct DEF p, ControlPos
      <4>2. u.pos - 1 \in 0..255
        BY <3>2
      <4> QED
        BY <4>1, <4>2
    <3>4. v.pos = u.pos - 1 /\ v.col = u.col - 1 /\ v.TWidth = u.TWidth /\ v.TabSiz = u.TabSiz
      BY <2>2, <2>6, <3>3, Distinct DEF ColAfter, Same
    <3>5. CASE u.TWidth = 0
      <4>1. u.pos <= u.TabSiz /\ u.pos % u.TabSiz = u.col % u.TabSiz
        BY <1>0, <3>1, <3>5 DEF InStep
      <4> DEFINE m == u.TabSiz
                 q == u.pos
                 c == u.col
      <4>2. m \in 1..127 /\ q \in 1..m /\ c \in Nat /\ c # 0 /\ q % m = c % m
        BY <3>1, <3>2, <4>1
      <4>3. v.pos = q - 1 /\ v.col = c - 1 /\ v.TabSiz = m /\ v.TWidth = 0 /\ (q - 1 = 0 => c = 1)
        BY <3>1, <3>3, <3>4, <3>5
      <4> HIDE DEF m, q, c
      <4>4. (q - 1) % m = (c - 1) % m
        <5>1. m \in Nat \ {0} /\ q \in Int /\ c \in Int
          BY <4>2
        <5> QED
          BY <4>2, <5>1, OneOn, Zenon
      <4>5. c = 1 => q = 1
        BY <4>2, FirstColumn
      <4> QED
        BY <4>2, <4>3, <4>4, <4>5 DEF InStep
    <3>6. CASE u.TWidth # 0
      BY <1>0, <3>1, <3>2, <3>4, <3>6 DEF InStep
    <3> QED
      BY <3>5, <3>6
  <2>7. ch = CTRL \/ ch = LF \/ ch = BS
    BY <1>2
  <2> QED
    BY <2>1, <2>2, <2>3, <2>4, <2>5, <2>6, <2>7 DEF Sound
<1> QED
  BY <1>1, <1>2

LEMMA SameTrans ==
  ASSUME NEW u, NEW v, NEW w, Same(u, v), Same(v, w)
  PROVE  Same(u, w)
BY DEF Same

\* A new line, from anywhere.
LEMMA CRLFSound ==
  ASSUME NEW u \in TState, Fitted(u)
  PROVE  LET v == CRLF(u) IN
         /\ Sound(v) /\ Same(u, v) /\ v.col = 0 /\ (v.off \/ v.pos = 0)
<1> DEFINE x == Control(u, CR)
           v == Control(x, LF)
<1>1. Sound(x) /\ Same(u, x) /\ (x.off \/ (x.pos = 0 /\ x.col = 0))
  BY ReturnSound
<1> HIDE DEF x
<1>2. x \in TState
  BY <1>1 DEF Sound
<1>3. Sound(v) /\ Same(x, v)
  BY <1>1, ControlSound
<1>4. v = Put(x, ControlPos(x, LF), LF) /\ ControlPos(x, LF) = x.pos /\ x.pos \in 0..255 /\ LF \in Chars
  BY <1>2, ControlIs, FieldTypes, Distinct DEF ControlPos, Chars
<1>5. v.pos = x.pos /\ v.col = ColAfter(x, LF) /\ v.off = OffAfter(x, x.pos, LF)
  <2>1. LET w == Put(x, x.pos, LF) IN
        w.pos = x.pos /\ w.col = ColAfter(x, LF) /\ w.off = OffAfter(x, x.pos, LF)
    BY <1>2, <1>4, PutIs
  <2>2. v = Put(x, x.pos, LF)
    BY <1>4
  <2> HIDE DEF v
  <2> QED
    BY <2>1, <2>2
<1> HIDE DEF v
<1>6. v.col = 0 /\ (v.off \/ v.pos = 0)
  BY <1>5, Distinct DEF ColAfter, OffAfter
<1>7. Same(u, v)
  BY <1>1, <1>3, SameTrans
<1> QED
  BY <1>3, <1>6, <1>7 DEF CRLF, v, x

-----------------------------------------------------------------------------
(* Printing.                                                               *)

\* The byte behind the position.
Next256(p) == (p + 1) % 256

\* Printing from a position within the line.
LEMMA PutSound ==
  ASSUME NEW u, Sound(u), NEW ch \in {Glyph, Blank}, NEW p \in 0..255,
         \/ p = Next256(u.pos) /\ (u.TWidth = 0 => u.pos # u.TabSiz) /\ (u.TWidth # 0 => u.pos # u.TWidth)
         \/ p = 1 /\ u.TWidth = 0 /\ u.pos = u.TabSiz
  PROVE  LET v == Put(u, p, ch) IN Sound(v) /\ Same(u, v) /\ v.col = u.col + 1 /\ (v.off <=> u.off)
<1> DEFINE v == Put(u, p, ch)
<1>0. u \in TState /\ Fitted(u) /\ InStep(u) /\ ch \in Chars
  BY DEF Sound, Chars
<1>1. v \in TState /\ Same(u, v) /\ v.pos = p /\ v.col = ColAfter(u, ch) /\ v.off = OffAfter(u, p, ch)
  BY <1>0, PutIs
<1> HIDE DEF v
<1>2. v.col = u.col + 1
  BY <1>1, Distinct DEF ColAfter
<1>3. v.off <=> u.off
  BY <1>1, Distinct DEF OffAfter
<1>4. Fitted(v)
  BY <1>0, <1>1, SameFits
<1>5. InStep(v)
  <2> SUFFICES ASSUME ~u.off PROVE InStep(v)
    BY <1>3 DEF InStep
  <2> DEFINE m == u.TabSiz
             q == u.pos
             c == u.col
             w == u.TWidth
  <2>1. m \in 1..127 /\ q \in 0..255 /\ c \in Nat /\ w \in 0..255
    BY <1>0, FieldTypes DEF InStep
  <2>2. IF w = 0 THEN q <= m /\ q % m = c % m ELSE q = c /\ q <= w
    BY <1>0 DEF InStep
  <2>3. v.TWidth = w /\ v.TabSiz = m /\ v.pos = p /\ v.col = c + 1
    BY <1>1, <1>2 DEF Same
  <2>4. \/ p = Next256(q) /\ (w = 0 => q # m) /\ (w # 0 => q # w)
        \/ p = 1 /\ w = 0 /\ q = m
    OBVIOUS
  <2> HIDE DEF m, q, c, w
  <2>5. q < 255 => Next256(q) = q + 1
    BY <2>1 DEF Next256
  <2>6. (w = 0 => (q + 1) % m = (c + 1) % m) /\ m % m = 0
    <3>1. m \in Nat \ {0} /\ q \in Int /\ c \in Int
      BY <2>1
    <3>2. w = 0 => (q + 1) % m = (c + 1) % m
      BY <2>2, <3>1, OneOn, Zenon
    <3>3. m % m = 0
      BY <2>1, WrapAround
    <3> QED
      BY <3>2, <3>3
  <2>7. CASE w = 0 /\ q = m
    <3>1. (m + 1) % m = 1 % m
      <4>1. m \in Nat \ {0} /\ 1 \in Int /\ 1 + 1 * m = m + 1
        BY <2>1
      <4>2. (1 + 1 * m) % m = 1 % m
        BY <4>1, WholeTurns, Zenon
      <4> QED
        BY <4>1, <4>2
    <3>2. p = 1
      BY <2>4, <2>7
    <3>3. 1 <= m /\ c + 1 # 0 /\ c + 1 >= 0 /\ 1 # 0
      BY <2>1
    <3> QED
      BY <2>3, <2>6, <2>7, <3>1, <3>2, <3>3 DEF InStep
  <2>8. CASE w = 0 /\ q # m
    <3>1. q < m /\ q < 255
      BY <2>1, <2>2, <2>8
    <3>2. p = q + 1
      BY <2>4, <2>5, <2>8, <3>1
    <3>3. q + 1 <= m /\ q + 1 # 0 /\ c + 1 # 0 /\ c + 1 >= 0
      BY <2>1, <3>1
    <3> QED
      BY <2>3, <2>6, <2>8, <3>2, <3>3 DEF InStep
  <2>9. CASE w # 0
    <3>1. q = c /\ q < w /\ p = q + 1
      BY <2>1, <2>2, <2>4, <2>5, <2>9
    <3> QED
      BY <2>1, <2>3, <2>9, <3>1 DEF InStep
  <2> QED
    BY <2>7, <2>8, <2>9
<1> QED
  BY <1>1, <1>2, <1>3, <1>4, <1>5 DEF Sound, v

\* A printing character: on a full line, behind a new line.
Broken(u) == u.TWidth # 0 /\ u.pos = u.TWidth

PrintedPos(u) == IF u.TWidth = 0 /\ u.pos = u.TabSiz THEN 1 ELSE Next256(u.pos)

LEMMA PrintedAs ==
  ASSUME NEW u \in TState, NEW ch
  PROVE  /\ PrintedPos(u) \in 0..255
         /\ ~Broken(u) => Printed(u, ch) = Put(u, PrintedPos(u), ch)
         /\ Broken(u) => Printed(u, ch) = Put(CRLF(u), Next256(CRLF(u).pos), ch)
<1>1. u.pos \in 0..255
  BY FieldTypes
<1>2. PrintedPos(u) \in 0..255
  BY <1>1 DEF PrintedPos, Next256
<1>3. CASE u.TWidth = 0 /\ u.pos = u.TabSiz
  <2> DEFINE v == [u EXCEPT !.pos = 0]
  <2>1. v.pos = 0
    BY DEF TState
  <2>2. Printed(u, ch) = Out(Stepped([v EXCEPT !.pos = (v.pos + 1) % 256], ch), ch)
    BY <1>3 DEF Printed
  <2>3. [v EXCEPT !.pos = 1] = [u EXCEPT !.pos = 1]
    BY DEF TState
  <2> HIDE DEF v
  <2>4. (v.pos + 1) % 256 = 1
    BY <2>1
  <2>5. Printed(u, ch) = Put(u, 1, ch)
    BY <2>2, <2>3, <2>4 DEF Put
  <2> QED
    BY <1>2, <1>3, <2>5 DEF Broken, PrintedPos
<1>4. CASE ~(u.TWidth = 0 /\ u.pos = u.TabSiz) /\ Broken(u)
  BY <1>2, <1>4 DEF Broken, Printed, Put, Next256
<1>5. CASE ~(u.TWidth = 0 /\ u.pos = u.TabSiz) /\ ~Broken(u)
  BY <1>2, <1>5 DEF Broken, Printed, Put, PrintedPos, Next256
<1> QED
  BY <1>3, <1>4, <1>5

LEMMA PrintedSound ==
  ASSUME NEW u, Sound(u), NEW ch \in {Glyph, Blank}
  PROVE  LET v == Printed(u, ch) IN
         /\ Sound(v) /\ Same(u, v)
         /\ ~Broken(u) => v.col = u.col + 1 /\ (v.off <=> u.off)
<1>0. u \in TState /\ Fitted(u)
  BY DEF Sound
<1>1. CASE ~Broken(u)
  <2> DEFINE p == PrintedPos(u)
             v == Put(u, p, ch)
  <2>1. p \in 0..255 /\ Printed(u, ch) = v
    BY <1>0, <1>1, PrintedAs
  <2>2. \/ p = Next256(u.pos) /\ (u.TWidth = 0 => u.pos # u.TabSiz) /\ (u.TWidth # 0 => u.pos # u.TWidth)
        \/ p = 1 /\ u.TWidth = 0 /\ u.pos = u.TabSiz
    BY <1>1 DEF PrintedPos, Broken
  <2> HIDE DEF p
  <2>3. Sound(v) /\ Same(u, v) /\ v.col = u.col + 1 /\ (v.off <=> u.off)
    BY <2>1, <2>2, PutSound
  <2> HIDE DEF v
  <2> QED
    BY <2>1, <2>3
<1>2. CASE Broken(u)
  <2> DEFINE x == CRLF(u)
             p == Next256(x.pos)
             v == Put(x, p, ch)
  <2>1. Printed(u, ch) = v
    BY <1>0, <1>2, PrintedAs
  <2>2. Sound(x) /\ Same(u, x) /\ x.col = 0 /\ (x.off \/ x.pos = 0)
    BY <1>0, CRLFSound
  <2> HIDE DEF x
  <2>3. x \in TState
    BY <2>2 DEF Sound
  <2>4. x.TWidth # 0 /\ p \in 0..255
    BY <1>2, <2>2, <2>3, FieldTypes DEF Broken, Same, Next256
  <2>5. x.pos # x.TWidth => Sound(v) /\ Same(x, v)
    <3> SUFFICES ASSUME x.pos # x.TWidth PROVE Sound(v) /\ Same(x, v)
      OBVIOUS
    <3>1. p = Next256(x.pos) /\ (x.TWidth = 0 => x.pos # x.TabSiz) /\ (x.TWidth # 0 => x.pos # x.TWidth)
      BY <2>4
    <3> HIDE DEF p
    <3> QED
      BY <2>2, <2>4, <3>1, PutSound
  <2>6. x.pos = x.TWidth => Sound(v) /\ Same(x, v)
    <3> SUFFICES ASSUME x.pos = x.TWidth PROVE Sound(v) /\ Same(x, v)
      OBVIOUS
    <3>1. x.off
      BY <2>2, <2>4
    <3>2. ch \in Chars
      BY DEF Chars
    <3> HIDE DEF p
    <3>3. v \in TState /\ Same(x, v) /\ v.off = OffAfter(x, p, ch)
      BY <2>3, <2>4, <3>2, PutIs
    <3> HIDE DEF v
    <3>4. v.off
      BY <3>1, <3>3, Distinct DEF OffAfter
    <3>5. Fitted(v)
      BY <2>2, <3>3, SameFits DEF Sound
    <3> QED
      BY <3>3, <3>4, <3>5 DEF Sound, InStep
  <2> HIDE DEF v
  <2> QED
    BY <1>2, <2>1, <2>2, <2>5, <2>6, SameTrans
<1> QED
  BY <1>1, <1>2

LEMMA PRNASound ==
  ASSUME NEW u, Sound(u), NEW ch \in Chars
  PROVE  Sound(PRNA(u, ch)) /\ Same(u, PRNA(u, ch))
<1>1. ch \in {Glyph, Blank} \/ (ch \notin {Glyph, Blank} /\ ch \in {CTRL, BS, CR, LF})
  BY DEF Chars
<1> QED
  BY <1>1, PrintedSound, ControlSound DEF PRNA

\* Characters one after another.
LEMMA PrintManySteps ==
  ASSUME NEW u, Sound(u), NEW ch \in Chars
  PROVE  PrintMany(u, 0, ch) = u /\ \A k \in 1..255 : PrintMany(u, k, ch) = PRNA(PrintMany(u, k - 1, ch), ch)
<1> DEFINE F(f) == f = [k \in 0..255 |-> IF k = 0 THEN u ELSE PRNA(f[k - 1], ch)]
           after == CHOOSE f : F(f)
           S == {x \in TState : Sound(x)}
           step == [x \in S |-> PRNA(x, ch)]
<1>1. \A n : PrintMany(u, n, ch) = after[n]
  BY DEF PrintMany
<1>2. \E g : F(g)
  <2>1. step \in [S -> S]
    <3>1. \A x \in S : PRNA(x, ch) \in S
      BY PRNASound DEF Sound
    <3> QED
      BY <3>1
  <2>2. u \in S /\ 255 \in Nat
    BY DEF Sound
  <2> HIDE DEF step, S
  <2>3. PICK g : IsIteration(g, S, step, u, 255)
    BY <2>1, <2>2, Iterates, Zenon
  <2>4. g \in [0..255 -> S] /\ g[0] = u /\ \A k \in 1..255 : g[k] = step[g[k - 1]]
    BY <2>3 DEF IsIteration
  <2>5. \A k \in 0..255 : g[k] = IF k = 0 THEN u ELSE PRNA(g[k - 1], ch)
    <3> SUFFICES ASSUME NEW k \in 0..255, k # 0 PROVE g[k] = PRNA(g[k - 1], ch)
      BY <2>4
    <3>1. k \in 1..255 /\ k - 1 \in 0..255
      OBVIOUS
    <3>2. g[k] = step[g[k - 1]] /\ g[k - 1] \in S
      BY <2>4, <3>1
    <3> QED
      BY <3>2 DEF step
  <2>6. g = [k \in 0..255 |-> g[k]]
    BY <2>4
  <2>7. g = [k \in 0..255 |-> IF k = 0 THEN u ELSE PRNA(g[k - 1], ch)]
    BY <2>5, <2>6
  <2> QED
    BY <2>7
<1>3. F(after)
  BY <1>2
<1> HIDE DEF after
<1>4. \A k \in 0..255 : after[k] = IF k = 0 THEN u ELSE PRNA(after[k - 1], ch)
  BY <1>3
<1>5. 0 \in 0..255 /\ \A k \in 1..255 : k \in 0..255 /\ k # 0
  OBVIOUS
<1>6. after[0] = u /\ \A k \in 1..255 : after[k] = PRNA(after[k - 1], ch)
  BY <1>4, <1>5
<1> QED
  BY <1>1, <1>6

LEMMA PrintManySound ==
  ASSUME NEW u, Sound(u), NEW ch \in Chars
  PROVE  \A n \in 0..255 : Sound(PrintMany(u, n, ch)) /\ Same(u, PrintMany(u, n, ch))
<1> DEFINE f == [n \in 0..255 |-> PrintMany(u, n, ch)]
           S == {x \in TState : Sound(x) /\ Same(u, x)}
<1>1. f[0] \in S
  <2>1. f[0] = u
    BY PrintManySteps
  <2> QED
    BY <2>1 DEF Sound, Same
<1>2. ASSUME NEW k \in 1..255, f[k - 1] \in S PROVE f[k] \in S
  <2>1. k - 1 \in 0..255 /\ k \in 0..255
    OBVIOUS
  <2>2. f[k] = PRNA(f[k - 1], ch)
    BY <2>1, PrintManySteps
  <2>3. Sound(f[k - 1]) /\ Same(u, f[k - 1])
    BY <1>2
  <2> HIDE DEF f
  <2>4. Sound(f[k]) /\ Same(f[k - 1], f[k])
    BY <2>2, <2>3, PRNASound
  <2>5. Same(u, f[k])
    BY <2>3, <2>4, SameTrans
  <2> QED
    BY <2>4, <2>5 DEF Sound
<1> HIDE DEF f, S
<1>3. \A k \in 0..255 : f[k] \in S
  BY <1>1, <1>2, Along
<1> QED
  BY <1>3 DEF f, S

\* Printing that does not reach the end of the line moves on by as many columns.
LEMMA PrintManyFlat ==
  ASSUME NEW u, Sound(u), NEW ch \in {Glyph, Blank}, NEW n \in 0..255,
         u.TWidth = 0 \/ (~u.off /\ u.col + n <= u.TWidth)
  PROVE  PrintMany(u, n, ch).col = u.col + n /\ (PrintMany(u, n, ch).off <=> u.off)
<1> DEFINE f == [k \in 0..255 |-> PrintMany(u, k, ch)]
           T == {k \in Nat : k <= n => f[k].col = u.col + k /\ (f[k].off <=> u.off)}
<1>0. ch \in Chars /\ u \in TState /\ u.col \in Int /\ u.TWidth \in 0..255
  BY FieldTypes DEF Chars, Sound
<1>1. 0 \in T
  <2>1. f[0] = u
    BY <1>0, PrintManySteps
  <2> QED
    BY <1>0, <2>1
<1>2. ASSUME NEW k \in Nat, k \in T, k + 1 <= n
      PROVE  f[k + 1].col = u.col + (k + 1) /\ (f[k + 1].off <=> u.off)
  <2> DEFINE x == f[k]
  <2>1. k + 1 \in 1..255 /\ (k + 1) - 1 = k /\ k \in 0..255 /\ k + 1 \in 0..255
    BY <1>2
  <2>2. f[k + 1] = PRNA(x, ch)
    BY <1>0, <2>1, PrintManySteps
  <2>3. Sound(x) /\ Same(u, x)
    BY <1>0, <2>1, PrintManySound
  <2>4. x.col = u.col + k /\ (x.off <=> u.off)
    BY <1>2
  <2> HIDE DEF f, x
  <2>5. ~Broken(x)
    <3> SUFFICES ASSUME x.TWidth # 0 PROVE x.pos # x.TWidth
      BY DEF Broken
    <3>1. x.TWidth = u.TWidth /\ ~u.off /\ u.col + n <= u.TWidth
      BY <2>3 DEF Same
    <3>2. x.pos = x.col
      BY <2>3, <2>4, <3>1 DEF Sound, InStep
    <3> QED
      BY <1>0, <1>2, <2>4, <3>1, <3>2
  <2>6. LET v == Printed(x, ch) IN v.col = x.col + 1 /\ (v.off <=> x.off)
    BY <2>3, <2>5, PrintedSound
  <2>7. PRNA(x, ch) = Printed(x, ch)
    BY DEF PRNA
  <2>8. f[k + 1].col = x.col + 1 /\ (f[k + 1].off <=> x.off)
    BY <2>2, <2>6, <2>7
  <2> QED
    BY <1>0, <2>4, <2>8
<1> HIDE DEF f
<1>3. ASSUME NEW k \in Nat, k \in T PROVE k + 1 \in T
  BY <1>2, <1>3
<1> HIDE DEF T
<1>4. Nat \subseteq T
  BY <1>1, <1>3, NatSetInduction
<1>5. f[n].col = u.col + n /\ (f[n].off <=> u.off)
  BY <1>4 DEF T
<1> QED
  BY <1>5 DEF f

-----------------------------------------------------------------------------
(* What the actions are made of.                                           *)

LEMMA NewLineSound ==
  ASSUME NEW u, Sound(u)
  PROVE  Sound(CRLF(u)) /\ Sound(CRLFIfNeeded(u)) /\ Same(u, CRLF(u)) /\ Same(u, CRLFIfNeeded(u))
<1>1. Sound(CRLF(u)) /\ Same(u, CRLF(u))
  BY CRLFSound DEF Sound
<1>2. Same(u, u)
  BY DEF Same
<1> QED
  BY <1>1, <1>2 DEF CRLFIfNeeded

LEMMA PromptedSound ==
  ASSUME NEW u, Sound(u)
  PROVE  Sound(Prompted(u)) /\ Same(u, Prompted(u))
<1>1. Glyph \in Chars /\ Blank \in Chars
  BY DEF Chars
<1>2. Sound(PRNA(u, Glyph)) /\ Same(u, PRNA(u, Glyph))
  BY <1>1, PRNASound
<1>3. Sound(PRNA(PRNA(u, Glyph), Blank)) /\ Same(PRNA(u, Glyph), PRNA(PRNA(u, Glyph), Blank))
  BY <1>1, <1>2, PRNASound
<1> QED
  BY <1>2, <1>3, SameTrans DEF Prompted

\* What an error prints.
Message(u) == Prompted(CRLFIfNeeded(PRNA(CRLFIfNeeded(u), Glyph)))

LEMMA MessageSound ==
  ASSUME NEW u, Sound(u)
  PROVE  Sound(Message(u)) /\ Same(u, Message(u))
<1> DEFINE x == CRLFIfNeeded(u)
           y == PRNA(x, Glyph)
           z == CRLFIfNeeded(y)
<1>0. Glyph \in Chars
  BY DEF Chars
<1>1. Sound(x) /\ Same(u, x)
  BY NewLineSound
<1> HIDE DEF x
<1>2. Sound(y) /\ Same(x, y)
  BY <1>0, <1>1, PRNASound
<1> HIDE DEF y
<1>3. Sound(z) /\ Same(y, z)
  BY <1>2, NewLineSound
<1> HIDE DEF z
<1>4. Sound(Prompted(z)) /\ Same(z, Prompted(z))
  BY <1>3, PromptedSound
<1>5. Same(u, y)
  BY <1>1, <1>2, SameTrans
<1>6. Same(u, z)
  BY <1>3, <1>5, SameTrans
<1>7. Same(u, Prompted(z))
  BY <1>4, <1>6, SameTrans
<1> QED
  BY <1>4, <1>7 DEF Message, z, y, x

LEMMA EditSound ==
  ASSUME NEW u, Sound(u), Edit(u)
  PROVE  /\ Sound(t') /\ Same(u, t') /\ mode' = "edit" /\ line' = <<>>
         /\ t'.term = u.term /\ t'.start.row = u.term.row /\ t'.start.col = u.term.col
<1> DEFINE start == [row |-> u.term.row, col |-> u.term.col]
           v == [u EXCEPT !.start = start]
<1>1. t' = v /\ mode' = "edit" /\ line' = <<>>
  BY DEF Edit
<1>2. u \in TState /\ Fitted(u) /\ InStep(u)
  BY DEF Sound
<1>3. start \in Starts
  <2>1. u.term.row \in 1..Rows /\ u.term.col \in 1..(Cols + 1)
    BY <1>2, FieldTypes DEF Win
  <2>2. u.term.row \in 0..Rows
    BY <2>1, WindowSize
  <2> QED
    BY <2>1, <2>2 DEF Starts
<1>4. start.row = u.term.row /\ start.col = u.term.col
  OBVIOUS
<1> HIDE DEF start
<1>5. v \in TState
  BY <1>2, <1>3, FieldIs
<1>6. v.start = start /\ v.term = u.term /\ v.pos = u.pos /\ v.col = u.col /\ v.off = u.off
      /\ v.TWidth = u.TWidth /\ v.TabSiz = u.TabSiz /\ v.Nullct = u.Nullct
  BY <1>2 DEF TState
<1> HIDE DEF v
<1>7. Same(u, v) /\ InStep(v)
  BY <1>2, <1>6 DEF Same, InStep
<1>8. Fitted(v)
  BY <1>2, <1>7, SameFits
<1> QED
  BY <1>1, <1>4, <1>5, <1>6, <1>7, <1>8 DEF Sound

\* A width and a tab size that fits it.
LEMMA ResizedSound ==
  ASSUME Sound(t), NEW w \in 0..255, NEW n \in 1..127, w # 0 => n <= w
  PROVE  LET v == Resized(w, n) IN
         Sound(v) /\ v.TWidth = w /\ v.TabSiz = n /\ v.Nullct = t.Nullct
<1> DEFINE off == t.off \/ t.pos # 0
           v1 == [t EXCEPT !.TWidth = w]
           v2 == [v1 EXCEPT !.TabSiz = n]
           v == [v2 EXCEPT !.off = off]
<1>0. t \in TState /\ Fitted(t) /\ InStep(t)
  BY DEF Sound
<1>1. off \in BOOLEAN
  BY Zenon
<1> HIDE DEF off
<1>2. Resized(w, n) = v
  BY DEF Resized, off
<1>3. v1 \in TState /\ v1.TWidth = w /\ v1.Nullct = t.Nullct /\ v1.pos = t.pos /\ v1.col = t.col
  <2>1. v1 \in TState
    BY <1>0, FieldIs
  <2> QED
    BY <1>0, <2>1 DEF TState
<1> HIDE DEF v1
<1>4. v2 \in TState /\ v2.TWidth = w /\ v2.TabSiz = n /\ v2.Nullct = t.Nullct /\ v2.pos = t.pos /\ v2.col = t.col
  <2>1. v2 \in TState
    BY <1>3, FieldIs
  <2> QED
    BY <1>3, <2>1 DEF TState
<1> HIDE DEF v2
<1>5. v \in TState /\ v.TWidth = w /\ v.TabSiz = n /\ v.Nullct = t.Nullct /\ v.pos = t.pos /\ v.col = t.col
  <2>1. v \in TState
    BY <1>1, <1>4, FieldIs
  <2> QED
    BY <1>4, <2>1 DEF TState
<1>6. v.off = off
  BY <1>1, <1>4, Zenon DEF TState
<1> HIDE DEF v
<1>7. Fitted(v)
  BY <1>5 DEF Fitted
<1>8. InStep(v)
  <2> SUFFICES ASSUME ~v.off PROVE InStep(v)
    BY DEF InStep
  <2>1. ~t.off /\ t.pos = 0
    BY <1>6 DEF off
  <2>2. t.col = 0
    BY <1>0, <2>1 DEF InStep
  <2> QED
    BY <1>5, <2>1, <2>2 DEF InStep
<1> QED
  BY <1>2, <1>5, <1>7, <1>8 DEF Sound

LEMMA TabForIs ==
  ASSUME Sound(t), NEW w \in 0..255
  PROVE  TabFor(w) \in 1..127 /\ (w # 0 => TabFor(w) <= w)
BY FieldTypes DEF Sound, TabFor

LEMMA NotRefused ==
  ASSUME NEW w \in 0..255, NEW n \in 0..255, ~TabRefused(n, w)
  PROVE  n \in 1..127 /\ (w # 0 => n <= w)
BY DEF TabRefused, Signed

LEMMA LimitForIs ==
  ASSUME NEW w \in 0..255, NEW n \in 1..127
  PROVE  LimitFor(w, n) \in 0..255
<1>1. (w % n) \in Int
  OBVIOUS
<1>2. w - ((w % n) + n) \in Int
  BY <1>1
<1> QED
  BY <1>2 DEF LimitFor

-----------------------------------------------------------------------------
(* The inductive invariant.                                                *)

\* The limit for commas belongs to the width and the tab size.
LimitCurrent == ~stale /\ t.TWidth # 0 => Iclim = LimitFor(t.TWidth, t.TabSiz)

LineOK == line \in Seq(Cell) /\ Len(line) <= MaxLine

IInv ==
  /\ Sound(t)
  /\ Iclim \in 0..255 /\ stale \in BOOLEAN /\ mode \in {"away", "edit", "run"}
  /\ LineOK
  /\ LimitCurrent

\* A step that leaves the settings and the line as they are.
LEMMA Settled ==
  ASSUME IInv, Sound(t'), Same(t, t'), UNCHANGED limit, UNCHANGED line, mode' \in {"away", "edit", "run"}
  PROVE  IInv'
<1>1. Iclim' = Iclim /\ stale' = stale /\ line' = line
  BY DEF limit
<1>2. LimitCurrent'
  BY <1>1 DEF IInv, LimitCurrent, Same, LimitFor
<1> QED
  BY <1>1, <1>2 DEF IInv, LineOK

\* A step that ends at an empty line, with a limit that is or counts as current.
LEMMA EmptyLine ==
  <<>> \in Seq(Cell) /\ Len(<<>>) <= MaxLine
BY TerminalLineAssumption DEF TerminalLineAssumption

LEMMA EditStep ==
  ASSUME IInv, NEW u, Sound(u), Same(t, u), Edit(u), UNCHANGED limit
  PROVE  IInv'
<1>1. Sound(t') /\ Same(u, t') /\ mode' = "edit" /\ line' = <<>>
  BY EditSound
<1>2. Same(t, t')
  BY <1>1, SameTrans
<1>3. Iclim' = Iclim /\ stale' = stale
  BY DEF limit
<1>4. LimitCurrent'
  BY <1>2, <1>3 DEF IInv, LimitCurrent, Same, LimitFor
<1> QED
  BY <1>1, <1>3, <1>4, EmptyLine DEF IInv, LineOK

LEMMA OutputStep ==
  ASSUME IInv, NEW u, Sound(u), Same(t, u), Output(u)
  PROVE  IInv'
BY Settled DEF Output

-----------------------------------------------------------------------------
(* The invariant holds at first, and every action keeps it.                *)

LEMMA HomeIs == Window!Home \in Win /\ Window!Home.row = 1 /\ Window!Home.col = 1
<1> DEFINE win == [r \in 1..Rows |-> Window!BlankRow]
<1>1. win \in [1..Rows -> [1..Cols -> Cell]] /\ 1 \in 1..Rows /\ 1 \in 1..(Cols + 1)
  BY BlankRowIs, WindowSize
<1>2. Window!Home = [win |-> win, row |-> 1, col |-> 1]
  BY DEF Window!Home
<1> HIDE DEF win
<1> QED
  BY <1>1, <1>2 DEF Win

LEMMA InitSound == Init => IInv
<1> SUFFICES ASSUME Init PROVE IInv
  OBVIOUS
<1> DEFINE start == [row |-> 0, col |-> 1]
           u == [pos |-> 0, term |-> Window!Home, col |-> 0, off |-> FALSE, start |-> start,
                 TWidth |-> 0, TabSiz |-> DefaultTab, Nullct |-> 0]
<1>1. t = u /\ Iclim = DefaultLimit /\ stale = FALSE /\ mode = "away" /\ line = <<>>
  BY DEF Init
<1>2. start \in Starts
  BY WindowSize DEF Starts
<1>3. DefaultTab \in 1..127 /\ DefaultLimit \in 0..255 /\ Window!Home \in Win
  BY HomeIs, TerminalLineAssumption DEF TerminalLineAssumption
<1> HIDE DEF start
<1>4. u \in TState
  BY <1>2, <1>3 DEF TState
<1>5. InStep(u) /\ Fitted(u)
  BY <1>3 DEF InStep, Fitted
<1>6. u.TWidth = 0
  OBVIOUS
<1> HIDE DEF u
<1> QED
  BY <1>1, <1>3, <1>4, <1>5, <1>6, EmptyLine DEF IInv, Sound, LineOK, LimitCurrent

LEMMA TypeStep ==
  ASSUME IInv, NEW ch \in Cell, Type(ch)
  PROVE  IInv'
<1>1. CASE Len(line) = MaxLine
  <2>1. UNCHANGED vars
    BY <1>1 DEF Type, vars
  <2>2. t' = t /\ Iclim' = Iclim /\ stale' = stale /\ mode' = mode /\ line' = line
    BY <2>1 DEF vars, limit
  <2> QED
    BY <2>2 DEF IInv, LineOK, LimitCurrent, LimitFor
<1>2. CASE Len(line) # MaxLine
  <2>1. ch \in Chars /\ Sound(t)
    BY DEF Cell, Chars, IInv
  <2>2. t' = PRNA(t, ch) /\ line' = Append(line, ch) /\ UNCHANGED limit /\ mode' = mode
    BY <1>2 DEF Type
  <2>3. Sound(t') /\ Same(t, t')
    BY <2>1, <2>2, PRNASound
  <2>4. line' \in Seq(Cell) /\ Len(line') <= MaxLine
    BY <1>2, <2>2, TerminalLineAssumption DEF IInv, LineOK, TerminalLineAssumption
  <2>5. Iclim' = Iclim /\ stale' = stale
    BY <2>2 DEF limit
  <2>6. LimitCurrent'
    BY <2>3, <2>5 DEF IInv, LimitCurrent, Same, LimitFor
  <2> QED
    BY <2>2, <2>3, <2>4, <2>5, <2>6 DEF IInv, LineOK
<1> QED
  BY <1>1, <1>2

\* A line without its last character.
LEMMA Shorter ==
  ASSUME NEW S, NEW s \in Seq(S), s # <<>>
  PROVE  LET r == SubSeq(s, 1, Len(s) - 1) IN
         r \in Seq(S) /\ Len(r) = Len(s) - 1 /\ Len(s) \in Nat \ {0} /\ \A i \in 1..(Len(s) - 1) : r[i] = s[i]
<1> DEFINE n == Len(s) - 1
           r == SubSeq(s, 1, n)
<1>1. Len(s) \in Nat \ {0}
  OBVIOUS
<1>2. n \in Nat /\ 1 \in 1..Len(s) /\ n \in 0..Len(s)
  BY <1>1
<1> HIDE DEF n
<1>3. r \in Seq(S) /\ Len(r) = n /\ \A i \in 1..n : r[i] = s[i]
  <2>1. \A i \in 1..n : s[i] \in S
    BY <1>1, <1>2
  <2>2. r = [i \in 1..n |-> s[i]]
    BY <1>1, <1>2
  <2> QED
    BY <1>2, <2>1, <2>2
<1> QED
  BY <1>1, <1>3 DEF n

LEMMA RubOutStep ==
  ASSUME IInv, RubOut
  PROVE  IInv'
<1> DEFINE x == PRNA(t, BS)
           y == PRNA(x, Blank)
           z == PRNA(y, BS)
<1>0. BS \in Chars /\ Blank \in Chars /\ Sound(t)
  BY DEF Chars, IInv
<1>1. Sound(x) /\ Same(t, x)
  BY <1>0, PRNASound
<1> HIDE DEF x
<1>2. Sound(y) /\ Same(x, y)
  BY <1>0, <1>1, PRNASound
<1> HIDE DEF y
<1>3. Sound(z) /\ Same(y, z)
  BY <1>0, <1>2, PRNASound
<1>4. t' = z /\ line # <<>> /\ line' = SubSeq(line, 1, Len(line) - 1) /\ UNCHANGED limit /\ mode' = mode
  BY DEF RubOut, x, y
<1> HIDE DEF z
<1>5. Same(t, y)
  BY <1>1, <1>2, SameTrans
<1>6. Same(t, t') /\ Sound(t')
  BY <1>3, <1>4, <1>5, SameTrans
<1>7. line' \in Seq(Cell) /\ Len(line') <= MaxLine
  <2>1. line \in Seq(Cell) /\ Len(line) <= MaxLine /\ MaxLine \in Nat
    BY TerminalLineAssumption DEF IInv, LineOK, TerminalLineAssumption
  <2> QED
    BY <1>4, <2>1, Shorter
<1>8. Iclim' = Iclim /\ stale' = stale
  BY <1>4 DEF limit
<1>9. LimitCurrent'
  BY <1>6, <1>8 DEF IInv, LimitCurrent, Same, LimitFor
<1> QED
  BY <1>4, <1>6, <1>7, <1>8, <1>9 DEF IInv, LineOK

LEMMA EnterStep ==
  ASSUME IInv, Enter
  PROVE  IInv'
<1> DEFINE u == CRLFIfNeeded(t)
<1>1. Sound(u) /\ Same(t, u)
  BY NewLineSound DEF IInv
<1>2. UNCHANGED limit /\ ((t' = u /\ mode' = "run" /\ UNCHANGED line) \/ Edit(u))
  BY DEF Enter
<1> HIDE DEF u
<1>3. CASE t' = u /\ mode' = "run" /\ UNCHANGED line
  BY <1>1, <1>2, <1>3, Settled
<1>4. CASE Edit(u)
  BY <1>1, <1>2, <1>4, EditStep
<1> QED
  BY <1>2, <1>3, <1>4

LEMMA PrintCharStep ==
  ASSUME IInv, PrintChar
  PROVE  IInv'
<1>1. PICK ch \in {Glyph, CTRL, BS, CR, LF} : Output(PRNA(t, ch))
  BY DEF PrintChar
<1>2. ch \in Chars
  BY DEF Chars
<1>3. Sound(PRNA(t, ch)) /\ Same(t, PRNA(t, ch))
  BY <1>2, PRNASound DEF IInv
<1> QED
  BY <1>1, <1>3, OutputStep

LEMMA PrintEndStep ==
  ASSUME IInv, PrintEnd
  PROVE  IInv'
<1>1. Sound(CRLF(t)) /\ Same(t, CRLF(t))
  BY NewLineSound DEF IInv
<1> QED
  BY <1>1, OutputStep DEF PrintEnd

LEMMA ManyStep ==
  ASSUME IInv, NEW n \in 0..255, NEW ch \in {Glyph, Blank}, NEW u, Sound(u), Same(t, u), Output(PrintMany(u, n, ch))
  PROVE  IInv'
<1>1. ch \in Chars
  BY DEF Chars
<1>2. Sound(PrintMany(u, n, ch)) /\ Same(u, PrintMany(u, n, ch))
  BY <1>1, PrintManySound
<1>3. Same(t, PrintMany(u, n, ch))
  BY <1>2, SameTrans
<1> QED
  BY <1>2, <1>3, OutputStep

LEMMA SameSelf == Same(t, t)
BY DEF Same

LEMMA PrintNumberStep ==
  ASSUME IInv, NEW n \in 0..255, PrintNumber(n)
  PROVE  IInv'
<1> DEFINE u == IF t.TWidth # 0 /\ (t.TWidth - n) % 256 < t.pos THEN CRLF(t) ELSE t
<1>1. Sound(u) /\ Same(t, u)
  BY NewLineSound, SameSelf DEF IInv
<1>2. Output(PrintMany(u, n, Glyph))
  BY DEF PrintNumber
<1> HIDE DEF u
<1> QED
  BY <1>1, <1>2, ManyStep

LEMMA CommaStep ==
  ASSUME IInv, Comma
  PROVE  IInv'
<1>1. CASE t.pos >= Iclim
  <2>1. Sound(CRLF(t)) /\ Same(t, CRLF(t))
    BY NewLineSound DEF IInv
  <2> QED
    BY <1>1, <2>1, OutputStep DEF Comma
<1>2. CASE ~(t.pos >= Iclim)
  <2> DEFINE n == t.TabSiz - (t.pos % t.TabSiz)
  <2>1. Output(PrintMany(t, n, Blank))
    BY <1>2 DEF Comma
  <2>2. n \in 0..255
    <3>1. t.TabSiz \in 1..127 /\ t.pos \in 0..255
      BY FieldTypes DEF IInv, Sound
    <3> DEFINE m == t.TabSiz
               p == t.pos
               r == p % m
    <3>2. m \in 1..127 /\ p \in Int /\ m \in Nat \ {0}
      BY <3>1
    <3> HIDE DEF m, p
    <3>3. r \in 0..(m - 1)
      BY <3>2, Division
    <3> HIDE DEF r
    <3>4. m - r \in 0..255
      BY <3>2, <3>3
    <3> QED
      BY <3>4 DEF m, p, r
  <2> HIDE DEF n
  <2> QED
    BY <2>1, <2>2, ManyStep, SameSelf DEF IInv
<1> QED
  BY <1>1, <1>2

LEMMA TabStep ==
  ASSUME IInv, NEW n \in 0..255, Tab(n) \/ Spc(n)
  PROVE  IInv'
<1>0. t.pos \in 0..255 /\ Sound(t)
  BY FieldTypes DEF IInv, Sound
<1>1. CASE Tab(n) /\ n > t.pos
  <2>1. n - t.pos \in 0..255
    <3>1. \A p \in 0..255 : n > p => n - p \in 0..255
      OBVIOUS
    <3> QED
      BY <1>0, <1>1, <3>1
  <2>2. Output(PrintMany(t, n - t.pos, Blank))
    BY <1>1 DEF Tab
  <2> QED
    BY <1>0, <2>1, <2>2, ManyStep, SameSelf
<1>2. CASE Tab(n) /\ ~(n > t.pos)
  BY <1>0, <1>2, OutputStep, SameSelf DEF Tab
<1>3. CASE Spc(n)
  BY <1>0, <1>3, ManyStep, SameSelf DEF Spc
<1> QED
  BY <1>1, <1>2, <1>3

LEMMA PromptStep ==
  ASSUME IInv, Prompt \/ Input
  PROVE  IInv'
<1>1. PICK u \in {CRLFIfNeeded(t), t} : Edit(Prompted(u)) /\ UNCHANGED limit
  BY DEF Prompt, Input
<1>2. Sound(u) /\ Same(t, u)
  BY NewLineSound, SameSelf DEF IInv
<1>3. Sound(Prompted(u)) /\ Same(u, Prompted(u))
  BY <1>2, PromptedSound
<1>4. Same(t, Prompted(u))
  BY <1>2, <1>3, SameTrans
<1> QED
  BY <1>1, <1>3, <1>4, EditStep

LEMMA RefusedStep ==
  ASSUME IInv, Refused
  PROVE  IInv'
<1>1. Sound(Message(t)) /\ Same(t, Message(t))
  BY MessageSound DEF IInv
<1>2. Edit(Message(t)) /\ UNCHANGED limit
  BY DEF Refused, ErrorPrompt, Message
<1> QED
  BY <1>1, <1>2, EditStep

LEMMA DoneStep ==
  ASSUME IInv, NEW w \in 0..255, NEW n \in 1..127, w # 0 => n <= w, Done(w, n)
  PROVE  IInv'
<1>1. Sound(t') /\ t'.TWidth = w /\ t'.TabSiz = n
  BY ResizedSound DEF IInv, Done
<1>2. Iclim' = LimitFor(w, n) /\ stale' = FALSE /\ mode' = "run" /\ line' = line
  BY DEF Done
<1>3. LimitCurrent'
  BY <1>1, <1>2 DEF LimitCurrent, LimitFor
<1>4. Iclim' \in 0..255
  BY <1>2, LimitForIs
<1> QED
  BY <1>1, <1>2, <1>3, <1>4 DEF IInv, LineOK

LEMMA HalfDoneStep ==
  ASSUME IInv, NEW w \in 0..255, HalfDone(w)
  PROVE  IInv'
<1> DEFINE u == Resized(w, TabFor(w))
<1>1. Sound(u)
  <2>1. TabFor(w) \in 1..127 /\ (w # 0 => TabFor(w) <= w) /\ Sound(t)
    BY TabForIs DEF IInv
  <2> QED
    BY <2>1, ResizedSound
<1>2. Edit(Message(u)) /\ stale' = TRUE /\ Iclim' = Iclim
  BY DEF HalfDone, ErrorPrompt, Message
<1> HIDE DEF u
<1>3. Sound(Message(u))
  BY <1>1, MessageSound
<1>4. Sound(t') /\ mode' = "edit" /\ line' = <<>>
  BY <1>2, <1>3, EditSound
<1> QED
  BY <1>2, <1>4, EmptyLine DEF IInv, LineOK, LimitCurrent

LEMMA WidthStep ==
  ASSUME IInv, NEW w \in 0..255, SetWidth(w) \/ \E n \in Tabs : SetWidthAndTab(w, n)
  PROVE  IInv'
<1>1. TabFor(w) \in 1..127 /\ (w # 0 => TabFor(w) <= w)
  BY TabForIs DEF IInv
<1>2. CASE SetWidth(w)
  <2>1. Refused \/ Done(w, TabFor(w))
    BY <1>2 DEF SetWidth
  <2> QED
    BY <1>1, <2>1, RefusedStep, DoneStep
<1>3. ASSUME NEW n \in Tabs, SetWidthAndTab(w, n) PROVE IInv'
  <2>1. n \in 0..255
    BY TerminalLineAssumption DEF TerminalLineAssumption
  <2>2. Refused \/ HalfDone(w) \/ (~TabRefused(n, w) /\ Done(w, n))
    BY <1>3 DEF SetWidthAndTab
  <2>3. ~TabRefused(n, w) => n \in 1..127 /\ (w # 0 => n <= w)
    BY <2>1, NotRefused
  <2> QED
    BY <2>2, <2>3, RefusedStep, HalfDoneStep, DoneStep
<1> QED
  BY <1>2, <1>3

LEMMA SetTabStep ==
  ASSUME IInv, NEW n \in 0..255, SetTab(n)
  PROVE  IInv'
<1>1. t.TWidth \in 0..255
  BY FieldTypes DEF IInv, Sound
<1>2. Refused \/ (~TabRefused(n, t.TWidth) /\ Done(t.TWidth, n))
  BY DEF SetTab
<1>3. ~TabRefused(n, t.TWidth) => n \in 1..127 /\ (t.TWidth # 0 => n <= t.TWidth)
  BY <1>1, NotRefused
<1> QED
  BY <1>1, <1>2, <1>3, RefusedStep, DoneStep

LEMMA SetNullStep ==
  ASSUME IInv, NEW n \in 0..255, SetNull(n)
  PROVE  IInv'
<1> DEFINE v == [t EXCEPT !.Nullct = n]
<1>0. t \in TState /\ Fitted(t) /\ InStep(t)
  BY DEF IInv, Sound
<1>1. v \in TState
  BY <1>0, FieldIs
<1>2. v.pos = t.pos /\ v.col = t.col /\ v.off = t.off /\ v.TWidth = t.TWidth /\ v.TabSiz = t.TabSiz
  BY <1>0 DEF TState
<1>3. t' = v /\ Iclim' = Iclim /\ stale' = stale /\ mode' = mode /\ line' = line
  BY DEF SetNull, limit
<1> HIDE DEF v
<1>4. Sound(v)
  BY <1>0, <1>1, <1>2 DEF Sound, Fitted, InStep
<1>5. LimitCurrent'
  BY <1>2, <1>3 DEF IInv, LimitCurrent, LimitFor
<1> QED
  BY <1>3, <1>4, <1>5 DEF IInv, LineOK

\* What the greeting starts from.
Cleared == [t EXCEPT !.term = Window!Home, !.col = 0, !.off = @ \/ t.pos # 0]

LEMMA ClearedSound ==
  ASSUME Sound(t)
  PROVE  Sound(Cleared) /\ Same(t, Cleared)
<1> DEFINE off == t.off \/ t.pos # 0
           v1 == [t EXCEPT !.term = Window!Home]
           v2 == [v1 EXCEPT !.col = 0]
           v == [v2 EXCEPT !.off = off]
<1>0. t \in TState /\ Fitted(t) /\ InStep(t)
  BY DEF Sound
<1>1. off \in BOOLEAN
  BY Zenon
<1> HIDE DEF off
<1>2. Cleared = v
  BY DEF Cleared, off
<1>3. v1 \in TState /\ v1.pos = t.pos /\ Same(t, v1)
  <2>1. v1 \in TState
    BY <1>0, HomeIs, FieldIs
  <2> QED
    BY <1>0, <2>1 DEF TState, Same
<1> HIDE DEF v1
<1>4. v2 \in TState /\ v2.pos = t.pos /\ v2.col = 0 /\ Same(v1, v2)
  <2>1. v2 \in TState
    <3>1. 0 \in Int
      OBVIOUS
    <3> QED
      BY <1>3, <3>1, FieldIs, Zenon
  <2> QED
    BY <1>3, <2>1 DEF TState, Same
<1> HIDE DEF v2
<1>5. v \in TState /\ v.pos = t.pos /\ v.col = 0 /\ Same(v2, v)
  <2>1. v \in TState
    BY <1>1, <1>4, FieldIs
  <2> QED
    BY <1>4, <2>1 DEF TState, Same
<1>6. v.off = off
  BY <1>1, <1>4, Zenon DEF TState
<1> HIDE DEF v
<1>7. Same(t, v)
  BY <1>3, <1>4, <1>5 DEF Same
<1>8. Fitted(v)
  BY <1>0, <1>7, SameFits
<1>9. InStep(v)
  <2> SUFFICES ASSUME ~v.off PROVE InStep(v)
    BY DEF InStep
  <2>1. v.pos = 0 /\ v.col = 0
    BY <1>5, <1>6 DEF off
  <2>2. v.TabSiz \in 1..127 /\ v.TWidth \in 0..255
    BY <1>5, FieldTypes
  <2> QED
    BY <2>1, <2>2 DEF InStep
<1> QED
  BY <1>2, <1>5, <1>7, <1>8, <1>9 DEF Sound

LEMMA SetFocusStep ==
  ASSUME IInv, SetFocus
  PROVE  IInv'
<1> DEFINE a == PRNA(Cleared, Glyph)
           b == CRLF(a)
           c == CRLF(b)
           d == Prompted(c)
<1>0. Glyph \in Chars
  BY DEF Chars
<1>1. Sound(Cleared) /\ Same(t, Cleared)
  BY ClearedSound DEF IInv
<1>2. Sound(a) /\ Same(Cleared, a)
  BY <1>0, <1>1, PRNASound
<1>6. Edit(d) /\ UNCHANGED limit
  BY DEF SetFocus, Cleared
<1> HIDE DEF a
<1>3. Sound(b) /\ Same(a, b)
  BY <1>2, NewLineSound
<1> HIDE DEF b
<1>4. Sound(c) /\ Same(b, c)
  BY <1>3, NewLineSound
<1> HIDE DEF c
<1>5. Sound(d) /\ Same(c, d)
  BY <1>4, PromptedSound
<1> HIDE DEF d
<1>7. Same(t, a)
  BY <1>1, <1>2, SameTrans
<1>8. Same(t, b)
  BY <1>3, <1>7, SameTrans
<1>9. Same(t, c)
  BY <1>4, <1>8, SameTrans
<1>10. Same(t, d)
  BY <1>5, <1>9, SameTrans
<1> QED
  BY <1>5, <1>6, <1>10, EditStep

LEMMA LeaveStep ==
  ASSUME IInv, Leave
  PROVE  IInv'
BY Settled, SameSelf DEF Leave, IInv

LEMMA StutterStep ==
  ASSUME IInv, UNCHANGED vars
  PROVE  IInv'
<1>1. t' = t /\ UNCHANGED limit /\ line' = line /\ mode' = mode
  BY DEF vars
<1> QED
  BY <1>1, Settled, SameSelf DEF IInv

LEMMA NextStep ==
  ASSUME IInv, [Next]_vars
  PROVE  IInv'
<1>0. /\ Columns \subseteq 0..255 /\ Widths \subseteq 0..255 /\ Tabs \subseteq 0..255 /\ Nulls \subseteq 0..255
      /\ MinWidth \in 0..255
  BY TerminalLineAssumption DEF TerminalLineAssumption
<1>1. CASE \E ch \in {Glyph, Blank, CTRL} : Type(ch)
  BY <1>1, TypeStep DEF Cell
<1>2. CASE RubOut \/ Enter
  BY <1>2, RubOutStep, EnterStep
<1>3. CASE PrintChar \/ PrintEnd \/ Comma \/ Prompt \/ Input
  BY <1>3, PrintCharStep, PrintEndStep, CommaStep, PromptStep
<1>4. CASE PrintNumber(MinWidth)
  BY <1>0, <1>4, PrintNumberStep
<1>5. CASE \E n \in Columns : Tab(n) \/ Spc(n)
  BY <1>0, <1>5, TabStep
<1>6. CASE \E w \in Widths : SetWidth(w) \/ \E n \in Tabs : SetWidthAndTab(w, n)
  BY <1>0, <1>6, WidthStep
<1>7. CASE \E n \in Tabs : SetTab(n)
  BY <1>0, <1>7, SetTabStep
<1>8. CASE \E n \in Nulls : SetNull(n)
  BY <1>0, <1>8, SetNullStep
<1>9. CASE SetFocus \/ Leave
  BY <1>9, SetFocusStep, LeaveStep
<1>10. CASE UNCHANGED vars
  BY <1>10, StutterStep
<1> QED
  BY <1>1, <1>2, <1>3, <1>4, <1>5, <1>6, <1>7, <1>8, <1>9, <1>10 DEF Next

(***************************************************************************)
(* Whatever is printed, edited or set with WIDTH and NULL, the output      *)
(* record stays sound: the position is the column of LAB_PRNA's count      *)
(* unless something is known to have put it out of step, and the comma     *)
(* limit of WExit belongs to the width and the tab size.                   *)
(***************************************************************************)
THEOREM AlwaysSound == Spec => []IInv
<1>1. Init => IInv
  BY InitSound
<1>2. IInv /\ [Next]_vars => IInv'
  BY NextStep
<1> QED
  BY <1>1, <1>2, PTL DEF Spec

(***************************************************************************)
(* The position, WIDTH's settings and the limit are bytes, the tab size is *)
(* one from 1 to 127, the write position is on the window and the input    *)
(* line fits its buffer, after every routine.                              *)
(***************************************************************************)
THEOREM TypeCorrect == Spec => []TypeOK
<1>1. IInv => TypeOK
  <2> SUFFICES ASSUME IInv PROVE TypeOK
    OBVIOUS
  <2>1. t \in TState
    BY DEF IInv, Sound
  <2>2. /\ t.pos \in 0..255 /\ t.term \in Win /\ t.col \in Int /\ t.off \in BOOLEAN /\ t.start \in Starts
        /\ t.TWidth \in 0..255 /\ t.TabSiz \in 1..127 /\ t.Nullct \in 0..255
    BY <2>1, FieldTypes
  <2>3. t.term.row \in 1..Rows /\ t.term.col \in 1..(Cols + 1)
    BY <2>2 DEF Win
  <2> QED
    BY <2>2, <2>3 DEF IInv, LineOK, Cell, Starts, TypeOK
<1> QED
  BY <1>1, AlwaysSound, PTL

(***************************************************************************)
(* WIDTH never leaves a tab size greater than a width that is not          *)
(* infinite, an error behind its comma included (LAB_NSTT stores the       *)
(* fitted tab size before it looks at the second argument).                *)
(***************************************************************************)
THEOREM TabAlwaysFits == Spec => []TabFitsWidth
<1>1. IInv => TabFitsWidth
  BY DEF IInv, Sound, Fitted, TabFitsWidth
<1> QED
  BY <1>1, AlwaysSound, PTL

(***************************************************************************)
(* TPos, which LAB_PRNA counts up, resets at a full tab size and a full    *)
(* line, and counts down for a backspace, says how far the line has come,  *)
(* or that modulo the tab size on an infinite line, as long as nothing     *)
(* uncounted was drawn.                                                    *)
(***************************************************************************)
THEOREM PositionAlwaysCounts == Spec => []PositionCounts
<1>1. IInv => PositionCounts
  <2> SUFFICES ASSUME IInv, ~t.off PROVE PositionCounts
    BY DEF PositionCounts
  <2>1. InStep(t)
    BY DEF IInv, Sound
  <2> QED
    BY <2>1 DEF PositionCounts, InStep
<1> QED
  BY <1>1, AlwaysSound, PTL

\* Where a comma goes on a line with a width: pos and n the tab size.
LEMMA TabMark ==
  ASSUME NEW n \in 1..127, NEW p \in 0..255
  PROVE  LET d == n - (p % n) IN
         d \in 1..n /\ (p + d) % n = 0 /\ p + d = n * (p \div n) + n
<1> DEFINE q == p \div n
           r == p % n
           d == n - r
<1>0. n \in Nat \ {0} /\ p \in Int
  OBVIOUS
<1>1. r \in 0..(n - 1) /\ q \in Int /\ p = n * q + r
  BY <1>0, Division
<1> HIDE DEF q, r
<1>2. d \in 1..n /\ p + d = n * q + n /\ p + d \in Int
  BY <1>1
<1>3. (p + d) % n = 0
  <2> DEFINE x == p + d
             j == q + 1
  <2>1. x = n * j + 0 /\ j \in Int /\ 0 \in 0..(n - 1)
    BY <1>1, <1>2
  <2> HIDE DEF x, j
  <2>2. x % n = 0
    BY <1>0, <2>1, RemainderIs, Zenon
  <2> QED
    BY <2>2 DEF x
<1> QED
  BY <1>2, <1>3 DEF q, d, r

\* Before the limit of its width, the mark has a whole tab behind it.
LEMMA MarkBeforeLimit ==
  ASSUME NEW w \in 1..255, NEW n \in 1..127, n <= w, NEW p \in 0..255, p < LimitFor(w, n)
  PROVE  (p + (n - (p % n))) + n <= w
<1> DEFINE q == p \div n
           r == p % n
           k == w \div n
           s == w % n
           l == w - (s + n)
<1>0. n \in Nat \ {0} /\ p \in Int /\ w \in Int
  OBVIOUS
<1>1. r \in 0..(n - 1) /\ q \in Int /\ p = n * q + r
  BY <1>0, Division
<1>2. s \in 0..(n - 1) /\ k \in Int /\ w = n * k + s
  BY <1>0, Division
<1>3. LimitFor(w, n) = l % 256
  BY DEF LimitFor
<1> HIDE DEF q, r, k, s
<1>4. k >= 1
  <2>1. k <= 0 => n * k <= 0
    BY <1>0, <1>2
  <2> QED
    BY <1>2, <2>1
<1>5. l = n * (k - 1) /\ l >= 0 /\ l < 256
  <2>1. k - 1 \in Nat
    BY <1>2, <1>4
  <2>2. n * (k - 1) >= 0 /\ n * (k - 1) = n * k - n
    BY <1>0, <2>1, <1>2
  <2> QED
    BY <1>2, <2>2
<1>6. LimitFor(w, n) = l
  <2>1. \A x \in 0..255 : x % 256 = x
    OBVIOUS
  <2>2. l \in 0..255
    BY <1>2, <1>5
  <2> HIDE DEF l
  <2> QED
    BY <1>3, <2>1, <2>2
<1> HIDE DEF l
<1>7. n * q < n * (k - 1)
  BY <1>1, <1>5, <1>6
<1>8. q + 2 <= k
  <2>1. q >= k - 1 => n * q >= n * (k - 1)
    BY <1>0, <1>1, <1>2
  <2> QED
    BY <1>1, <1>2, <1>7, <2>1
<1>9. n * (q + 2) <= n * k
  BY <1>0, <1>1, <1>2, <1>8
<1>10. (p + (n - r)) + n = n * (q + 2)
  BY <1>0, <1>1
<1>11. (p + (n - r)) + n <= w
  BY <1>0, <1>1, <1>2, <1>9, <1>10
<1> QED
  BY <1>11 DEF r

LEMMA CommaMark ==
  ASSUME IInv, Comma, ~t.off, ~stale
  PROVE  t'.col % t.TabSiz = 0 /\ (t.TWidth # 0 => t'.col + t.TabSiz <= t.TWidth)
<1> DEFINE n == t.TabSiz
           p == t.pos
           c == t.col
           w == t.TWidth
           d == n - (p % n)
<1>1. Sound(t) /\ t \in TState /\ n \in 1..127 /\ p \in 0..255 /\ c \in Int /\ w \in 0..255
  BY FieldTypes DEF IInv, Sound
<1>2. c >= 0 /\ IF w = 0 THEN p % n = c % n ELSE p = c
  BY DEF IInv, Sound, InStep
<1>3. w # 0 => n <= w
  BY DEF IInv, Sound, Fitted
<1>4. w # 0 => Iclim = LimitFor(w, n)
  BY DEF IInv, LimitCurrent
<1>5. CASE p >= Iclim
  <2>1. t' = CRLF(t)
    BY <1>5 DEF Comma, Output
  <2>2. t'.col = 0
    BY <1>1, <2>1, CRLFSound DEF Sound
  <2> HIDE DEF n, w
  <2>3. 0 % n = 0 /\ (w # 0 => 0 + n <= w)
    BY <1>1, <1>3
  <2> USE DEF n, w
  <2> QED
    BY <2>2, <2>3
<1>6. CASE ~(p >= Iclim)
  <2>1. t' = PrintMany(t, d, Blank)
    BY <1>6 DEF Comma, Output
  <2>2. p < Iclim
    BY <1>1, <1>6 DEF IInv
  <2> HIDE DEF n, p, c, w
  <2>3. d \in 1..n /\ (p + d) % n = 0
    BY <1>1, TabMark
  <2>4. w # 0 => (p + d) + n <= w
    <3> SUFFICES ASSUME w # 0 PROVE (p + d) + n <= w
      OBVIOUS
    <3>1. w \in 1..255 /\ n <= w /\ p < LimitFor(w, n)
      BY <1>1, <1>3, <1>4, <2>2
    <3> QED
      BY <1>1, <3>1, MarkBeforeLimit
  <2> HIDE DEF d
  <2>5. d \in 0..255 /\ (w = 0 \/ (~t.off /\ c + d <= w))
    BY <1>1, <1>2, <2>3, <2>4
  <2>6. t'.col = c + d
    <3>1. t.TWidth = 0 \/ (~t.off /\ t.col + d <= t.TWidth)
      BY <2>5 DEF w, c
    <3>2. PrintMany(t, d, Blank).col = t.col + d
      BY <1>1, <2>5, <3>1, PrintManyFlat
    <3> QED
      BY <2>1, <3>2 DEF c
  <2>7. (c + d) % n = 0
    <3>1. w = 0 => (c + d) % n = (p + d) % n
      <4> SUFFICES ASSUME w = 0 PROVE (c + d) % n = (p + d) % n
        OBVIOUS
      <4>1. n \in Nat \ {0} /\ c \in Int /\ p \in Int /\ d \in Int /\ c % n = p % n
        BY <1>1, <1>2, <2>5
      <4> QED
        BY <4>1, SameRemainder, Zenon
    <3>2. w # 0 => c + d = p + d
      BY <1>2
    <3> QED
      BY <2>3, <3>1, <3>2
  <2>8. w # 0 => (c + d) + n <= w
    BY <1>2, <2>4
  <2> QED
    BY <2>6, <2>7, <2>8 DEF n, w
<1> QED
  BY <1>5, <1>6

(***************************************************************************)
(* A comma in PRINT (LAB_188B) leads to a multiple of the tab size, and on *)
(* a line with a width to one that has a whole tab behind it, or to a new  *)
(* line: spaces printed one by one through LAB_PRNA do not meet the end of *)
(* the line on the way.                                                    *)
(***************************************************************************)
THEOREM CommaAlwaysAligns == Spec => CommaAligns
<1>1. IInv /\ [Next]_vars =>
        [Comma /\ ~t.off /\ ~stale =>
           /\ t'.col % t.TabSiz = 0
           /\ t.TWidth # 0 => t'.col + t.TabSiz <= t.TWidth]_vars
  BY CommaMark
<1> QED
  BY <1>1, AlwaysSound, PTL DEF Spec, CommaAligns

-----------------------------------------------------------------------------
(* The line on the window.                                                 *)

\* The cells of the window in the order in which they are written, counted from zero.
CellOf(s, p) == s.win[(p \div Cols) + 1][(p % Cols) + 1]
Cursor(s) == Place(s.row, s.col)

LEMMA PlaceIs ==
  ASSUME NEW r \in 1..Rows, NEW c \in 1..Cols
  PROVE  /\ Place(r, c) \in Nat /\ Place(r, c) = Cols * (r - 1) + (c - 1)
         /\ Place(r, c) \div Cols = r - 1 /\ Place(r, c) % Cols = c - 1
<1>1. Cols \in Nat \ {0} /\ r - 1 \in Nat /\ c - 1 \in 0..(Cols - 1)
  BY WindowSize
<1> DEFINE q == r - 1
           d == c - 1
           p == Place(r, c)
<1>2. p = Cols * q + d
  BY <1>1 DEF Place
<1> HIDE DEF q, d, p
<1>3. p \in Nat
  <2>1. Cols * q \in Nat
    BY <1>1 DEF q
  <2> QED
    BY <1>1, <1>2, <2>1 DEF d
<1>4. p % Cols = d /\ p \div Cols = q
  <2>1. Cols \in Nat \ {0} /\ q \in Int /\ d \in 0..(Cols - 1)
    BY <1>1 DEF q, d
  <2> QED
    BY <1>2, <2>1, RemainderIs, Zenon
<1> QED
  BY <1>2, <1>3, <1>4 DEF q, d, p

\* Where a write position lies.
LEMMA CursorIs ==
  ASSUME NEW s \in Win
  PROVE  /\ Cursor(s) \in Nat /\ Cursor(s) = Cols * (s.row - 1) + (s.col - 1)
         /\ Cursor(s) <= Cols * Rows /\ s.row - 1 \in Nat /\ s.col - 1 \in 0..Cols
<1> DEFINE q == s.row - 1
           d == s.col - 1
<1>1. q \in 0..(Rows - 1) /\ d \in 0..Cols /\ Rows \in Nat \ {0} /\ Cols \in Nat \ {0}
  BY WindowSize DEF Win
<1>2. Cursor(s) = Cols * q + d
  <2>1. s.row \in Int /\ s.col \in Int
    BY DEF Win
  <2> QED
    BY <1>1, <2>1 DEF Cursor, Place
<1> HIDE DEF q, d
<1>3. Cols * q \in Nat
  BY <1>1
<1>4. Cols * q <= Cols * (Rows - 1) /\ Cols * (Rows - 1) = Cols * Rows - Cols /\ Cols * Rows \in Nat
  BY <1>1
<1>5. Cursor(s) \in Nat /\ Cursor(s) <= Cols * Rows
  BY <1>1, <1>2, <1>3, <1>4
<1> QED
  BY <1>1, <1>2, <1>5 DEF q, d

\* The row and the column of a cell.
LEMMA CellIs ==
  ASSUME NEW p \in Nat, p < Cols * Rows
  PROVE  /\ p \div Cols \in 0..(Rows - 1) /\ p % Cols \in 0..(Cols - 1)
         /\ p = Cols * (p \div Cols) + (p % Cols)
<1> DEFINE q == p \div Cols
           d == p % Cols
<1>1. Cols \in Nat \ {0} /\ Rows \in Nat \ {0} /\ p \in Int
  BY WindowSize
<1>2. d \in 0..(Cols - 1) /\ q \in Int /\ p = Cols * q + d
  BY <1>1, Division
<1> HIDE DEF q, d
<1>3. q >= 0
  <2>1. q <= -1 => Cols * q <= -Cols
    BY <1>1, <1>2
  <2> QED
    BY <1>1, <1>2, <2>1
<1>4. q < Rows
  <2>1. q >= Rows => Cols * q >= Cols * Rows
    BY <1>1, <1>2
  <2>2. Cols * q \in Int /\ Cols * Rows \in Int
    BY <1>1, <1>2
  <2> QED
    BY <1>1, <1>2, <2>1, <2>2
<1> QED
  BY <1>2, <1>3, <1>4, <1>1 DEF q, d

\* By how many cells the window moves up when a character is printed.
Lift(s, ch) == IF ScrolledBy(s, ch) THEN Cols ELSE 0

LEMMA RoomMoves ==
  ASSUME NEW s \in Win, NEW ch \in Cell
  PROVE  LET r == Room(s)
             k == Lift(s, ch)
         IN  /\ Cursor(r) = Cursor(s) - k
             /\ \A p \in Nat : k <= p /\ p < Cursor(s) => CellOf(r, p - k) = CellOf(s, p)
<1>0. s.row \in 1..Rows /\ s.col \in 1..(Cols + 1) /\ Cols \in Nat \ {0} /\ Rows \in Nat \ {0}
  BY WindowSize DEF Win
<1>1. ScrolledBy(s, ch) <=> s.col > Cols /\ s.row = Rows
  BY Distinct DEF ScrolledBy, Cell
<1>2. CASE ~(s.col > Cols)
  <2>1. Room(s) = s /\ Lift(s, ch) = 0 /\ Cursor(s) \in Nat
    BY <1>1, <1>2, CursorIs DEF Room, Lift
  <2>2. \A p \in Nat : p - 0 = p
    OBVIOUS
  <2> QED
    BY <2>1, <2>2
<1>3. CASE s.col > Cols /\ s.row # Rows
  <2> DEFINE r == Room(s)
  <2>1. r.row = s.row + 1 /\ r.win = s.win /\ r.col = 1 /\ r \in Win /\ s.col = Cols + 1
    BY <1>0, <1>3, LineFeedIs DEF Room
  <2>2. Lift(s, ch) = 0
    BY <1>1, <1>3 DEF Lift
  <2> HIDE DEF r
  <2>3. Cursor(r) = Cols * s.row + 0 /\ Cursor(s) = Cols * (s.row - 1) + Cols
    <3>1. (s.row + 1) - 1 = s.row /\ 1 - 1 = 0 /\ (Cols + 1) - 1 = Cols
      BY <1>0
    <3> QED
      BY <2>1, <3>1, CursorIs
  <2>4. Cols * (s.row - 1) + Cols = Cols * s.row /\ Cols * s.row \in Int
    BY <1>0
  <2>5. \A p \in Nat : p - 0 = p /\ CellOf(r, p) = CellOf(s, p)
    BY <2>1 DEF CellOf
  <2> QED
    BY <2>2, <2>3, <2>4, <2>5 DEF r
<1>4. CASE s.col > Cols /\ s.row = Rows
  <2> DEFINE r == Room(s)
  <2>1. r.row = Rows /\ r.win = Window!ScrolledUp(s.win) /\ r.col = 1 /\ r \in Win /\ s.col = Cols + 1
    BY <1>0, <1>4, LineFeedIs DEF Room
  <2>2. Lift(s, ch) = Cols
    BY <1>1, <1>4 DEF Lift
  <2> HIDE DEF r
  <2>3. Cursor(r) = Cols * (Rows - 1) + 0 /\ Cursor(s) = Cols * (Rows - 1) + Cols /\ Cursor(s) <= Cols * Rows
    <3>1. 1 - 1 = 0 /\ (Cols + 1) - 1 = Cols
      BY <1>0
    <3> QED
      BY <1>4, <2>1, <3>1, CursorIs
  <2>4. Cursor(r) = Cursor(s) - Cols
    <3>1. Cols * (Rows - 1) \in Int
      BY <1>0
    <3> QED
      BY <1>0, <2>3, <3>1
  <2>5. ASSUME NEW p \in Nat, Cols <= p, p < Cursor(s)
        PROVE  CellOf(r, p - Cols) = CellOf(s, p)
    <3> DEFINE q == p \div Cols
               d == p % Cols
               o == p - Cols
    <3>1. p < Cols * Rows
      <4>1. Cursor(s) \in Nat /\ Cols * Rows \in Nat
        BY <1>0, CursorIs
      <4> QED
        BY <2>3, <2>5, <4>1
    <3>2. q \in 0..(Rows - 1) /\ d \in 0..(Cols - 1) /\ p = Cols * q + d
      BY <3>1, CellIs
    <3>3. CellOf(s, p) = s.win[q + 1][d + 1]
      BY DEF CellOf
    <3> HIDE DEF q, d
    <3>4. q >= 1
      <4>1. q = 0 => Cols * q = 0
        BY <1>0
      <4> QED
        BY <1>0, <2>5, <3>2, <4>1
    <3>5. o = Cols * (q - 1) + d
      BY <1>0, <3>2, <3>4
    <3> HIDE DEF o
    <3>6. o % Cols = d /\ o \div Cols = q - 1
      <4> DEFINE k == q - 1
      <4>1. Cols \in Nat \ {0} /\ k \in Int /\ d \in 0..(Cols - 1) /\ o = Cols * k + d
        BY <1>0, <3>2, <3>5
      <4> HIDE DEF k
      <4>2. o % Cols = d /\ o \div Cols = k
        BY <4>1, RemainderIs, Zenon
      <4> QED
        BY <4>2 DEF k
    <3>7. CellOf(r, o) = r.win[(q - 1) + 1][d + 1]
      BY <3>6 DEF CellOf
    <3>8. (q - 1) + 1 = q /\ q \in 1..Rows /\ q < Rows
      BY <3>2, <3>4, <1>0
    <3>9. r.win[q] = s.win[q + 1]
      BY <2>1, <3>8 DEF Window!ScrolledUp
    <3> QED
      BY <3>3, <3>7, <3>8, <3>9 DEF o
  <2> QED
    BY <2>2, <2>4, <2>5 DEF r
<1> QED
  BY <1>2, <1>3, <1>4

\* The character comes behind what was there.
LEMMA PrintedCells ==
  ASSUME NEW s \in Win, NEW ch \in Cell
  PROVE  LET v == Window!Printed(s, ch)
             r == Room(s)
         IN  /\ Cursor(v) = Cursor(r) + 1
             /\ CellOf(v, Cursor(r)) = ch
             /\ \A p \in Nat : p < Cursor(r) => CellOf(v, p) = CellOf(r, p)
<1> DEFINE v == Window!Printed(s, ch)
           r == Room(s)
           i == r.row
           j == r.col
           m == Cursor(r)
<1>0. Cols \in Nat \ {0} /\ Rows \in Nat \ {0}
  BY WindowSize
<1>1. /\ v \in Win /\ r \in Win /\ j \in 1..Cols /\ v.row = i /\ v.col = j + 1
      /\ v.win = [r.win EXCEPT ![i] = [r.win[i] EXCEPT ![j] = ch]]
  BY PrintedIs
<1>2. i \in 1..Rows /\ r.win \in [1..Rows -> [1..Cols -> Cell]]
  BY <1>1 DEF Win
<1> HIDE DEF v, r
<1>3. m = Place(i, j)
  BY DEF Cursor
<1>4. m \in Nat /\ m = Cols * (i - 1) + (j - 1) /\ m \div Cols = i - 1 /\ m % Cols = j - 1
  BY <1>1, <1>2, <1>3, PlaceIs
<1> HIDE DEF i, j, m
<1>5. Cursor(v) = m + 1
  <2>1. Cursor(v) = Cols * (i - 1) + ((j + 1) - 1)
    BY <1>1, CursorIs
  <2>2. Cols * (i - 1) \in Int /\ (j + 1) - 1 = (j - 1) + 1 /\ j - 1 \in Int
    BY <1>0, <1>1, <1>2
  <2> QED
    BY <1>4, <2>1, <2>2
<1>6. m < Cols * Rows
  <2>1. Cursor(v) <= Cols * Rows /\ Cols * Rows \in Nat
    BY <1>0, <1>1, CursorIs
  <2> QED
    BY <1>4, <1>5, <2>1
<1>7. v.win[i][j] = ch
  <2>1. v.win[i] = [r.win[i] EXCEPT ![j] = ch] /\ r.win[i] \in [1..Cols -> Cell]
    BY <1>1, <1>2
  <2> QED
    BY <1>1, <2>1
<1>8. CellOf(v, m) = ch
  <2>1. (i - 1) + 1 = i /\ (j - 1) + 1 = j
    BY <1>1, <1>2
  <2> QED
    BY <1>4, <1>7, <2>1 DEF CellOf
<1>9. ASSUME NEW p \in Nat, p < m PROVE CellOf(v, p) = CellOf(r, p)
  <2> DEFINE a == (p \div Cols) + 1
             b == (p % Cols) + 1
  <2>1. p < Cols * Rows
    <3>1. Cols * Rows \in Nat
      BY <1>0
    <3> QED
      BY <1>4, <1>6, <1>9, <3>1
  <2>2. a \in 1..Rows /\ b \in 1..Cols /\ p = Cols * (a - 1) + (b - 1)
    <3> DEFINE q == p \div Cols
               d == p % Cols
    <3>1. q \in 0..(Rows - 1) /\ d \in 0..(Cols - 1) /\ p = Cols * q + d
      BY <2>1, CellIs
    <3> HIDE DEF q, d
    <3>2. (q + 1) - 1 = q /\ (d + 1) - 1 = d /\ q + 1 \in 1..Rows /\ d + 1 \in 1..Cols
      BY <1>0, <3>1
    <3> QED
      BY <3>1, <3>2 DEF q, d
  <2>3. CellOf(v, p) = v.win[a][b] /\ CellOf(r, p) = r.win[a][b]
    BY DEF CellOf
  <2> HIDE DEF a, b
  <2>4. a # i \/ b # j
    BY <1>4, <1>9, <2>2
  <2>5. v.win[a][b] = r.win[a][b]
    <3>1. CASE a # i
      BY <1>1, <1>2, <2>2, <3>1
    <3>2. CASE a = i
      <4>1. v.win[i] = [r.win[i] EXCEPT ![j] = ch]
        BY <1>1, <1>2
      <4>2. r.win[i] \in [1..Cols -> Cell] /\ b # j
        BY <1>2, <2>4, <3>2
      <4> QED
        BY <2>2, <3>2, <4>1, <4>2
    <3> QED
      BY <3>1, <3>2
  <2> QED
    BY <2>3, <2>5
<1> QED
  BY <1>5, <1>8, <1>9 DEF m, r, v

\* A backspace anywhere but at the top.
LEMMA BackspaceMoves ==
  ASSUME NEW s \in Win, Cursor(s) > 0
  PROVE  LET v == Window!Backspace(s) IN
         /\ v \in Win /\ ~ScrolledBy(s, BS)
         /\ Cursor(v) = Cursor(s) - 1 /\ v.win = s.win /\ v.col <= Cols
<1> DEFINE v == Window!Backspace(s)
<1>0. Cols \in Nat \ {0} /\ s.row \in 1..Rows /\ s.col \in 1..(Cols + 1)
  BY WindowSize DEF Win
<1>1. v \in Win
  BY BackspaceIs
<1>2. Cursor(s) = Cols * (s.row - 1) + (s.col - 1)
  BY CursorIs
<1>3. Cursor(v) = Cols * (v.row - 1) + (v.col - 1)
  BY <1>1, CursorIs
<1>4. ScrolledBy(s, BS) <=> s.col = 1 /\ s.row = 1
  BY Distinct DEF ScrolledBy
<1>5. ~(s.col = 1 /\ s.row = 1)
  BY <1>0, <1>2
<1>6. CASE s.col > 1
  <2>1. v.row = s.row /\ v.col = s.col - 1 /\ v.win = s.win
    BY <1>6, BackspaceIs
  <2> HIDE DEF v
  <2>2. Cols * (s.row - 1) \in Int
    BY <1>0
  <2>3. Cursor(v) = Cols * (s.row - 1) + ((s.col - 1) - 1)
    BY <1>3, <2>1
  <2>4. Cursor(v) = Cursor(s) - 1 /\ v.col <= Cols
    BY <1>0, <1>2, <2>1, <2>2, <2>3
  <2> QED
    BY <1>1, <1>4, <1>5, <2>1, <2>4 DEF v
<1>7. CASE ~(s.col > 1)
  <2>1. s.col = 1 /\ s.row > 1
    BY <1>0, <1>5, <1>7
  <2>2. v.row = s.row - 1 /\ v.col = Cols /\ v.win = s.win
    BY <2>1, BackspaceIs
  <2> HIDE DEF v
  <2>3. Cursor(v) = Cols * ((s.row - 1) - 1) + (Cols - 1)
    BY <1>3, <2>2
  <2>4. Cursor(v) = Cursor(s) - 1
    BY <1>0, <1>2, <2>1, <2>3
  <2> QED
    BY <1>0, <1>1, <1>4, <1>5, <2>2, <2>4 DEF v
<1> QED
  BY <1>6, <1>7

First(u) == Place(u.start.row, u.start.col)

\* The window of u shows the line l from where it starts to the cursor.
Echoed(u, l) ==
  u.start.row > 0 =>
    /\ Cursor(u.term) = First(u) + Len(l)
    /\ \A i \in DOMAIN l : CellOf(u.term, First(u) + i - 1) = l[i]

LEMMA EchoIs == EchoIsLine <=> (mode = "edit" /\ t.TWidth = 0 => Echoed(t, line))
BY DEF EchoIsLine, Echoed, First, Cursor, CellAt, CellOf

LEMMA FirstIs ==
  ASSUME NEW u \in TState, u.start.row > 0
  PROVE  First(u) \in Nat /\ First(u) = Cols * (u.start.row - 1) + (u.start.col - 1)
<1>1. u.start.row \in 1..Rows /\ u.start.col \in 1..(Cols + 1) /\ Cols \in Nat \ {0}
  BY WindowSize, FieldTypes DEF Starts
<1> DEFINE a == u.start.row
           b == u.start.col
<1> SUFFICES Place(a, b) \in Nat /\ Place(a, b) = Cols * (a - 1) + (b - 1)
  BY DEF First
<1>2. a \in 1..Rows /\ b \in 1..(Cols + 1)
  BY <1>1
<1> HIDE DEF a, b
<1>3. a - 1 \in Nat /\ b - 1 \in Nat /\ a \in Int /\ b \in Int
  BY <1>2
<1>4. Place(a, b) = Cols * (a - 1) + (b - 1) /\ Cols * (a - 1) \in Nat
  BY <1>1, <1>3 DEF Place
<1> QED
  BY <1>3, <1>4

\* Where the edited line starts after a character.
LEMMA StartIs ==
  ASSUME NEW u \in TState, NEW ch \in Chars, NEW v, v.start = StartAfter(u, ch)
  PROVE  v.start.row = StartRow(u, ch) /\ v.start.col = u.start.col
<1>1. u.start \in Starts
  BY FieldTypes
<1> QED
  BY <1>1 DEF StartAfter, Starts

\* A character behind the line, on the window and in the buffer.
LEMMA PrintedEcho ==
  ASSUME NEW u \in TState, NEW p \in 0..255, NEW ch \in Cell, NEW l \in Seq(Cell), Echoed(u, l)
  PROVE  Echoed(Put(u, p, ch), Append(l, ch))
<1> DEFINE v == Put(u, p, ch)
           s == u.term
           r == Room(s)
           k == Lift(s, ch)
           m == Append(l, ch)
<1>0. ch \in Chars /\ s \in Win /\ Cols \in Nat \ {0} /\ Len(l) \in Nat /\ Shown(s, ch) = Window!Printed(s, ch)
  BY WindowSize, FieldTypes, Distinct DEF Chars, Cell, Shown
<1>1. v \in TState /\ v.term = Window!Printed(s, ch) /\ v.start = StartAfter(u, ch)
  BY <1>0, PutIs
<1>2. v.start.row = StartRow(u, ch) /\ v.start.col = u.start.col
  BY <1>0, <1>1, StartIs
<1>3. u.start.row \in 0..Rows /\ u.start.col \in 1..(Cols + 1)
  BY FieldTypes DEF Starts
<1> SUFFICES ASSUME v.start.row > 0 PROVE Cursor(v.term) = First(v) + Len(m)
                                          /\ \A i \in DOMAIN m : CellOf(v.term, First(v) + i - 1) = m[i]
  BY DEF Echoed
<1>4. u.start.row > 0 /\ First(v) = First(u) - k /\ k \in {0, Cols}
  <2>1. CASE ScrolledBy(s, ch)
    <3>1. u.start.row # 0 /\ v.start.row = u.start.row - 1
      BY <1>0, <1>2, <2>1, Distinct DEF StartRow, Cell
    <3>2. k = Cols
      BY <2>1 DEF Lift
    <3> HIDE DEF v
    <3> DEFINE a == u.start.row
               b == u.start.col
    <3>3. First(v) = Cols * ((a - 1) - 1) + (b - 1)
      BY <1>1, <1>2, <3>1, FirstIs
    <3>4. First(u) = Cols * (a - 1) + (b - 1) /\ a > 0
      BY <1>3, <3>1, FirstIs
    <3>5. a \in Int /\ b \in Int
      BY <1>3
    <3> HIDE DEF a, b
    <3>6. First(v) = First(u) - Cols
      BY <1>0, <3>3, <3>4, <3>5
    <3> QED
      BY <3>2, <3>4, <3>6 DEF a
  <2>2. CASE ~ScrolledBy(s, ch)
    <3>1. v.start.row = u.start.row /\ k = 0
      BY <1>2, <2>2 DEF StartRow, Lift
    <3>2. u.start.row > 0
      BY <3>1
    <3> HIDE DEF v
    <3>3. First(v) = First(u) /\ First(u) \in Nat
      BY <1>2, <3>1, <3>2, FirstIs DEF First
    <3> QED
      BY <3>1, <3>2, <3>3
  <2> QED
    BY <2>1, <2>2
<1>5. Cursor(s) = First(u) + Len(l) /\ \A i \in DOMAIN l : CellOf(s, First(u) + i - 1) = l[i]
  BY <1>4 DEF Echoed
<1>6. Cursor(r) = Cursor(s) - k /\ \A q \in Nat : k <= q /\ q < Cursor(s) => CellOf(r, q - k) = CellOf(s, q)
  BY <1>0, RoomMoves
<1>7. /\ Cursor(v.term) = Cursor(r) + 1 /\ CellOf(v.term, Cursor(r)) = ch
      /\ \A q \in Nat : q < Cursor(r) => CellOf(v.term, q) = CellOf(r, q)
  BY <1>0, <1>1, PrintedCells
<1>8. First(u) \in Nat /\ First(v) \in Nat
  BY <1>1, <1>4, FirstIs
<1>9. Len(m) = Len(l) + 1 /\ DOMAIN m = 1..(Len(l) + 1) /\ m[Len(l) + 1] = ch
      /\ DOMAIN l = 1..Len(l) /\ \A i \in 1..Len(l) : m[i] = l[i]
  <2>1. ch \in Cell /\ l \in Seq(Cell)
    OBVIOUS
  <2> QED
    BY <2>1
<1> HIDE DEF v, s, r, k, m
<1>10. k \in Int /\ Cursor(r) = First(v) + Len(l)
  BY <1>0, <1>4, <1>5, <1>6, <1>8
<1>11. Cursor(v.term) = First(v) + Len(m)
  BY <1>0, <1>7, <1>8, <1>9, <1>10
<1>12. ASSUME NEW i \in DOMAIN m PROVE CellOf(v.term, First(v) + i - 1) = m[i]
  <2>1. CASE i = Len(l) + 1
    <3>1. First(v) + i - 1 = Cursor(r)
      BY <1>0, <1>8, <1>10, <2>1
    <3> QED
      BY <1>7, <1>9, <2>1, <3>1
  <2>2. CASE i # Len(l) + 1
    <3> DEFINE a == First(u) + i - 1
               b == First(v) + i - 1
    <3>1. i \in 1..Len(l)
      BY <1>0, <1>9, <2>2
    <3>2. a \in Nat /\ b \in Nat /\ b = a - k /\ k <= a
      BY <1>0, <1>4, <1>8, <1>10, <3>1
    <3>3. a < Cursor(s) /\ b < Cursor(r)
      BY <1>0, <1>5, <1>8, <1>10, <3>1
    <3>4. CellOf(s, a) = l[i]
      BY <1>5, <1>9, <3>1
    <3> HIDE DEF a, b
    <3>5. CellOf(r, b) = l[i]
      BY <1>6, <3>2, <3>3, <3>4
    <3>6. CellOf(v.term, b) = l[i]
      BY <1>7, <3>2, <3>3, <3>5
    <3> QED
      BY <1>9, <3>1, <3>6 DEF b
  <2> QED
    BY <2>1, <2>2
<1> QED
  BY <1>11, <1>12 DEF v, m

\* Back over the last character, a space, and back again.
Rubbed(u, p, q, o) == Put(Put(Put(u, p, BS), q, Blank), o, BS)

LEMMA RubbedEcho ==
  ASSUME NEW u \in TState, NEW p \in 0..255, NEW q \in 0..255, NEW o \in 0..255,
         NEW l \in Seq(Cell), l # <<>>, Echoed(u, l)
  PROVE  Echoed(Rubbed(u, p, q, o), SubSeq(l, 1, Len(l) - 1))
<1> DEFINE x == Put(u, p, BS)
           y == Put(x, q, Blank)
           z == Put(y, o, BS)
           m == SubSeq(l, 1, Len(l) - 1)
           n == Len(l) - 1
<1>0. BS \in Chars /\ Blank \in Chars /\ Blank \in Cell /\ Cols \in Nat \ {0} 
      /\ (\A w : Shown(w, BS) = Window!Backspace(w) /\ Shown(w, Blank) = Window!Printed(w, Blank))
  BY WindowSize, Distinct DEF Chars, Cell, Shown
<1>1. Len(l) \in Nat \ {0} /\ m \in Seq(Cell) /\ Len(m) = n /\ DOMAIN m = 1..n /\ \A i \in 1..n : m[i] = l[i]
  <2>1. m \in Seq(Cell) /\ Len(m) = n /\ Len(l) \in Nat \ {0} /\ \A i \in 1..n : m[i] = l[i]
    BY Shorter
  <2> QED
    BY <2>1
<1>2. DOMAIN l = 1..Len(l) /\ n \in Nat /\ Len(l) = n + 1
  BY <1>1
<1> HIDE DEF m
<1>3. x \in TState /\ x.term = Window!Backspace(u.term) /\ x.start = StartAfter(u, BS)
  BY <1>0, PutIs
<1>4. x.start.row = StartRow(u, BS) /\ x.start.col = u.start.col
  BY <1>0, <1>3, StartIs
<1> HIDE DEF x
<1>5. y \in TState /\ y.term = Window!Printed(x.term, Blank) /\ y.start = StartAfter(x, Blank)
  <2>1. Blank \in Chars /\ x \in TState
    BY <1>0, <1>3
  <2>2. y \in TState /\ y.term = Shown(x.term, Blank) /\ y.start = StartAfter(x, Blank)
    BY <2>1, PutIs
  <2> QED
    BY <1>0, <2>2
<1>6. y.start.row = StartRow(x, Blank) /\ y.start.col = x.start.col
  BY <1>0, <1>3, <1>5, StartIs
<1> HIDE DEF y
<1>7. z \in TState /\ z.term = Window!Backspace(y.term) /\ z.start = StartAfter(y, BS)
  <2>1. BS \in Chars /\ y \in TState
    BY <1>0, <1>5
  <2>2. z \in TState /\ z.term = Shown(y.term, BS) /\ z.start = StartAfter(y, BS)
    BY <2>1, PutIs
  <2> QED
    BY <1>0, <2>2
<1>8. z.start.row = StartRow(y, BS) /\ z.start.col = y.start.col
  BY <1>0, <1>5, <1>7, StartIs
<1> HIDE DEF z
<1>9. u.start.row \in 0..Rows /\ x.start.row \in 0..Rows /\ y.start.row \in 0..Rows /\ Rows \in Nat
      /\ u.term \in Win /\ x.term \in Win /\ y.term \in Win
  BY <1>3, <1>5, FieldTypes, WindowSize DEF Starts
<1> SUFFICES ASSUME z.start.row > 0
             PROVE  /\ Cursor(z.term) = First(z) + Len(m)
                    /\ \A i \in DOMAIN m : CellOf(z.term, First(z) + i - 1) = m[i]
  BY DEF Echoed, Rubbed, x, y, z, m
<1>10. \A w \in TState, ch \in Chars : w.start.row = 0 => StartRow(w, ch) = 0
  BY DEF StartRow
<1>11. u.start.row > 0
  BY <1>0, <1>3, <1>4, <1>5, <1>6, <1>8, <1>9, <1>10
<1>12. First(u) \in Nat /\ Cursor(u.term) = First(u) + Len(l)
       /\ \A i \in DOMAIN l : CellOf(u.term, First(u) + i - 1) = l[i]
  BY <1>11, FirstIs DEF Echoed
<1>13. /\ ~ScrolledBy(u.term, BS) /\ Cursor(x.term) = Cursor(u.term) - 1 /\ x.term.win = u.term.win
       /\ x.term.col <= Cols
  <2>1. Cursor(u.term) > 0
    BY <1>1, <1>12
  <2> QED
    BY <1>3, <1>9, <2>1, BackspaceMoves
<1>14. x.start.row = u.start.row
  BY <1>4, <1>13 DEF StartRow
<1>15. ~ScrolledBy(x.term, Blank) /\ Room(x.term) = x.term
  <2>1. x.term.col \in 1..(Cols + 1) /\ ~(x.term.col > Cols)
    BY <1>0, <1>9, <1>13 DEF Win
  <2> QED
    BY <2>1, Distinct DEF ScrolledBy, Room
<1>16. y.start.row = x.start.row
  BY <1>6, <1>15 DEF StartRow
<1>17. Cursor(y.term) = Cursor(x.term) + 1
       /\ \A a \in Nat : a < Cursor(x.term) => CellOf(y.term, a) = CellOf(x.term, a)
  BY <1>0, <1>5, <1>9, <1>15, PrintedCells
<1>18. Cursor(u.term) \in Nat /\ Cursor(x.term) \in Nat
  BY <1>9, CursorIs
<1>19. ~ScrolledBy(y.term, BS) /\ Cursor(z.term) = Cursor(y.term) - 1 /\ z.term.win = y.term.win
  <2>1. Cursor(y.term) > 0
    BY <1>17, <1>18
  <2> QED
    BY <1>7, <1>9, <2>1, BackspaceMoves
<1>20. First(z) = First(u)
  BY <1>4, <1>6, <1>8, <1>14, <1>16, <1>19 DEF StartRow, First
<1>21. Cursor(x.term) = First(u) + n /\ Cursor(z.term) = First(z) + Len(m)
  BY <1>1, <1>2, <1>12, <1>13, <1>17, <1>18, <1>19, <1>20
<1>22. ASSUME NEW i \in DOMAIN m PROVE CellOf(z.term, First(z) + i - 1) = m[i]
  <2> DEFINE a == First(u) + i - 1
  <2>1. i \in 1..n /\ i \in 1..Len(l)
    BY <1>1, <1>2
  <2>2. a \in Nat /\ a < Cursor(x.term)
    BY <1>2, <1>12, <1>21, <2>1
  <2>3. CellOf(u.term, a) = l[i]
    BY <1>2, <1>12, <2>1
  <2> HIDE DEF a
  <2>4. CellOf(z.term, a) = CellOf(y.term, a) /\ CellOf(x.term, a) = CellOf(u.term, a)
    BY <1>13, <1>19 DEF CellOf
  <2>5. CellOf(z.term, a) = l[i]
    BY <1>17, <2>2, <2>3, <2>4
  <2> QED
    BY <1>1, <1>20, <2>1, <2>5 DEF a
<1> QED
  BY <1>21, <1>22

\* A line without a width is never broken by the program: a character is put where the cursor is.
LEMMA PRNAIsPut ==
  ASSUME NEW u, Sound(u), u.TWidth = 0, NEW ch \in Cell \cup {BS}
  PROVE  \E p \in 0..255 : PRNA(u, ch) = Put(u, p, ch)
<1>0. u \in TState
  BY DEF Sound
<1>1. CASE ch \in {Glyph, Blank}
  <2>1. ~Broken(u)
    BY DEF Broken
  <2>2. PrintedPos(u) \in 0..255 /\ Printed(u, ch) = Put(u, PrintedPos(u), ch)
    BY <1>0, <2>1, PrintedAs
  <2>3. PRNA(u, ch) = Printed(u, ch)
    BY <1>1 DEF PRNA
  <2> QED
    BY <2>2, <2>3
<1>2. CASE ch \notin {Glyph, Blank}
  <2>1. ch \in {CTRL, BS, CR, LF} /\ ch # CR
    BY <1>2, Distinct DEF Cell
  <2>2. ControlPos(u, ch) \in 0..255 /\ Control(u, ch) = Put(u, ControlPos(u, ch), ch)
    BY <1>0, <2>1, ControlIs
  <2>3. PRNA(u, ch) = Control(u, ch)
    BY <1>2 DEF PRNA
  <2> QED
    BY <2>2, <2>3
<1> QED
  BY <1>1, <1>2

LEMMA TypeEcho ==
  ASSUME IInv, EchoIsLine, NEW ch \in Cell, Type(ch)
  PROVE  EchoIsLine'
<1>0. mode = "edit" /\ mode' = mode
  BY DEF Type
<1>1. CASE Len(line) = MaxLine
  <2>1. t' = t /\ line' = line
    BY <1>1 DEF Type
  <2> QED
    BY <1>0, <2>1 DEF EchoIsLine, CellAt
<1>2. CASE Len(line) # MaxLine
  <2>1. t' = PRNA(t, ch) /\ line' = Append(line, ch)
    BY <1>2 DEF Type
  <2>2. Sound(t) /\ t \in TState /\ line \in Seq(Cell)
    BY DEF IInv, Sound, LineOK
  <2>3. ch \in Chars
    BY DEF Chars, Cell
  <2>4. t'.TWidth = t.TWidth
    BY <2>1, <2>2, <2>3, PRNASound DEF Same
  <2> SUFFICES ASSUME t.TWidth = 0 PROVE Echoed(t', line')
    BY <2>4 DEF EchoIsLine, Echoed, First, Cursor, CellAt, CellOf
  <2>5. PICK p \in 0..255 : PRNA(t, ch) = Put(t, p, ch)
    BY <2>2, PRNAIsPut
  <2>6. Echoed(t, line)
    BY <1>0, EchoIs
  <2>7. Echoed(Put(t, p, ch), Append(line, ch))
    BY <2>2, <2>6, PrintedEcho
  <2> QED
    BY <2>1, <2>5, <2>7
<1> QED
  BY <1>1, <1>2

LEMMA RubbedLine ==
  ASSUME IInv, mode = "edit", t.TWidth = 0, EchoIsLine, line # <<>>
  PROVE  \A p \in 0..255, q \in 0..255, o \in 0..255 : Echoed(Rubbed(t, p, q, o), SubSeq(line, 1, Len(line) - 1))
<1>1. Echoed(t, line)
  BY EchoIs
<1>2. t \in TState /\ line \in Seq(Cell) /\ line # <<>>
  BY DEF IInv, Sound, LineOK
<1> QED
  BY ONLY <1>1, <1>2, RubbedEcho

LEMMA RubOutEcho ==
  ASSUME IInv, EchoIsLine, RubOut
  PROVE  EchoIsLine'
<1> DEFINE x == PRNA(t, BS)
           y == PRNA(x, Blank)
           z == PRNA(y, BS)
<1>0. /\ mode = "edit" /\ mode' = mode /\ line # <<>>
      /\ t' = z /\ line' = SubSeq(line, 1, Len(line) - 1)
  BY DEF RubOut
<1>1. Sound(t) /\ t \in TState /\ line \in Seq(Cell)
  BY DEF IInv, Sound, LineOK
<1>2. BS \in Chars /\ Blank \in Chars /\ Blank \in Cell \cup {BS} /\ BS \in Cell \cup {BS}
  BY DEF Chars, Cell
<1>3. Sound(x) /\ Same(t, x)
  BY <1>1, <1>2, PRNASound
<1> HIDE DEF x
<1>4. Sound(y) /\ Same(x, y)
  BY <1>2, <1>3, PRNASound
<1> HIDE DEF y
<1>5. Sound(z) /\ Same(y, z)
  BY <1>2, <1>4, PRNASound
<1> HIDE DEF z
<1>6. x.TWidth = t.TWidth /\ y.TWidth = t.TWidth /\ z.TWidth = t.TWidth
  BY <1>3, <1>4, <1>5 DEF Same
<1> SUFFICES ASSUME t.TWidth = 0 PROVE Echoed(t', line')
  BY <1>0, <1>6 DEF EchoIsLine, Echoed, First, Cursor, CellAt, CellOf
<1>7. PICK p \in 0..255 : PRNA(t, BS) = Put(t, p, BS)
  BY <1>1, <1>2, PRNAIsPut
<1>8. PICK q \in 0..255 : PRNA(x, Blank) = Put(x, q, Blank)
  BY <1>2, <1>3, <1>6, PRNAIsPut
<1>9. PICK o \in 0..255 : PRNA(y, BS) = Put(y, o, BS)
  BY <1>2, <1>4, <1>6, PRNAIsPut
<1>11. Echoed(Rubbed(t, p, q, o), SubSeq(line, 1, Len(line) - 1))
  BY <1>0, RubbedLine
<1>12. z = Rubbed(t, p, q, o)
  BY <1>7, <1>8, <1>9 DEF x, y, z, Rubbed
<1> QED
  BY <1>0, <1>11, <1>12

\* An empty line is where the cursor is.
LEMMA EditEcho ==
  ASSUME NEW u, Sound(u), Edit(u)
  PROVE  EchoIsLine'
<1>1. t'.term = u.term /\ t'.start.row = u.term.row /\ t'.start.col = u.term.col /\ line' = <<>>
  BY EditSound
<1>2. Place(t'.term.row, t'.term.col) \in Int
  <2>1. u \in TState
    BY DEF Sound
  <2>2. u.term \in Win
    BY <2>1, FieldTypes
  <2> QED
    BY <1>1, <2>2, CursorIs DEF Cursor
<1> QED
  BY <1>1, <1>2 DEF EchoIsLine

LEMMA NextEcho ==
  ASSUME IInv, EchoIsLine, [Next]_vars
  PROVE  EchoIsLine'
<1> DEFINE Away == mode' # "edit"
           Edited == \E u : Sound(u) /\ Edit(u)
<1>0. Sound(t) /\ Widths \subseteq 0..255 /\ Tabs \subseteq 0..255 /\ t.TWidth \in 0..255
  BY FieldTypes, TerminalLineAssumption DEF TerminalLineAssumption, IInv, Sound
<1>1. Away => EchoIsLine'
  BY DEF EchoIsLine
<1>2. Edited => EchoIsLine'
  BY EditEcho
<1>3. \A u : Output(u) => Away
  BY DEF Output
<1>4. Refused => Edited
  <2>1. Refused => Edit(Message(t))
    BY DEF Refused, ErrorPrompt, Message
  <2> QED
    BY <1>0, <2>1, MessageSound
<1>5. \A w \in 0..255 : HalfDone(w) => Edited
  <2> SUFFICES ASSUME NEW w \in 0..255, HalfDone(w) PROVE Edited
    OBVIOUS
  <2>1. Edit(Message(Resized(w, TabFor(w))))
    BY DEF HalfDone, ErrorPrompt, Message
  <2>2. Sound(Resized(w, TabFor(w)))
    <3>1. TabFor(w) \in 1..127 /\ (w # 0 => TabFor(w) <= w)
      BY <1>0, TabForIs
    <3> QED
      BY <1>0, <3>1, ResizedSound
  <2>3. Sound(Message(Resized(w, TabFor(w))))
    BY <2>2, MessageSound
  <2> QED
    BY <2>1, <2>3
<1>6. \A w, n : Done(w, n) => Away
  BY DEF Done
<1>7. CASE \E ch \in {Glyph, Blank, CTRL} : Type(ch)
  BY <1>7, TypeEcho DEF Cell
<1>8. CASE RubOut
  BY <1>8, RubOutEcho
<1>9. CASE Enter
  <2>1. mode' = "run" \/ Edit(CRLFIfNeeded(t))
    BY <1>9 DEF Enter
  <2>2. Sound(CRLFIfNeeded(t))
    BY <1>0, NewLineSound
  <2>3. Away \/ Edited
    BY <2>1, <2>2
  <2> HIDE DEF Away, Edited
  <2> QED
    BY <1>1, <1>2, <2>3
<1>10. CASE PrintChar \/ PrintEnd \/ Comma \/ PrintNumber(MinWidth) \/ \E n \in Columns : Tab(n) \/ Spc(n)
  <2>1. Away
    BY <1>3, <1>10 DEF PrintChar, PrintEnd, Comma, PrintNumber, Tab, Spc
  <2> QED
    BY <1>1, <2>1
<1>11. CASE Prompt \/ Input
  <2>1. PICK u \in {CRLFIfNeeded(t), t} : Edit(Prompted(u))
    BY <1>11 DEF Prompt, Input
  <2>2. Sound(Prompted(u))
    BY <1>0, NewLineSound, PromptedSound
  <2> QED
    BY <1>2, <2>1, <2>2
<1>12. CASE \E w \in Widths : SetWidth(w) \/ \E n \in Tabs : SetWidthAndTab(w, n)
  <2>1. PICK w \in 0..255 : SetWidth(w) \/ \E n \in Tabs : SetWidthAndTab(w, n)
    BY <1>0, <1>12
  <2>2. Refused \/ HalfDone(w) \/ \E n : Done(w, n)
    BY <2>1 DEF SetWidth, SetWidthAndTab
  <2> HIDE DEF Away, Edited
  <2> QED
    BY <1>1, <1>2, <1>4, <1>5, <1>6, <2>2
<1>13. CASE \E n \in Tabs : SetTab(n)
  <2>1. Refused \/ \E n : Done(t.TWidth, n)
    BY <1>13 DEF SetTab
  <2> HIDE DEF Away, Edited
  <2> QED
    BY <1>1, <1>2, <1>4, <1>6, <2>1
<1>14. CASE \E n \in Nulls : SetNull(n)
  <2>1. mode' # "edit"
    BY <1>14 DEF SetNull
  <2> QED
    BY <1>1, <2>1
<1>15. CASE SetFocus
  <2> DEFINE a == PRNA(Cleared, Glyph)
             b == CRLF(a)
             c == CRLF(b)
             d == Prompted(c)
  <2>1. Edit(d)
    BY <1>15 DEF SetFocus, Cleared
  <2>2. Sound(Cleared) /\ Glyph \in Chars
    BY <1>0, ClearedSound DEF Chars
  <2>3. Sound(a)
    BY <2>2, PRNASound
  <2> HIDE DEF a
  <2>4. Sound(b)
    BY <2>3, NewLineSound
  <2> HIDE DEF b
  <2>5. Sound(c)
    BY <2>4, NewLineSound
  <2> HIDE DEF c
  <2>6. Sound(d)
    BY <2>5, PromptedSound
  <2> HIDE DEF d
  <2> QED
    BY <1>2, <2>1, <2>6
<1>16. CASE Leave
  BY <1>1, <1>16 DEF Leave
<1>17. CASE UNCHANGED vars
  <2>1. t' = t /\ line' = line /\ mode' = mode
    BY <1>17 DEF vars
  <2> QED
    BY <2>1 DEF EchoIsLine, CellAt
<1> HIDE DEF Away, Edited
<1> QED
  BY <1>7, <1>8, <1>9, <1>10, <1>11, <1>12, <1>13, <1>14, <1>15, <1>16, <1>17 DEF Next

(***************************************************************************)
(* While a line is edited on an infinite line, the window shows the input  *)
(* buffer from where the editor began to the cursor: typing and rubbing    *)
(* out (LAB_134B) change both alike, across the wraps and scrolls of the   *)
(* console.                                                                *)
(***************************************************************************)
THEOREM EchoAlwaysIsLine == Spec => []EchoIsLine
<1>1. Init => EchoIsLine
  BY DEF Init, EchoIsLine
<1>2. IInv /\ EchoIsLine /\ [Next]_vars => EchoIsLine'
  BY NextEcho
<1> QED
  BY <1>1, <1>2, AlwaysSound, PTL DEF Spec

=============================================================================
