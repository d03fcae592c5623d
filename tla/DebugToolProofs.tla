---------------------------- MODULE DebugToolProofs ----------------------------
EXTENDS DebugTool, TLAPS

(***************************************************************************)
(* Proofs about the debugging tool, for every size of memory, font and set *)
(* of addresses that fault.  The cursor can only be on the screen because  *)
(* the number of rows never shrinks: a terminal font, once found, is kept. *)
(* IInv says that, and that the bus error vector is the system's between   *)
(* messages; a lemma for every C function shows that it takes a quiet      *)
(* state, one with the system's vector and nothing trapped, to another.    *)
(***************************************************************************)

-----------------------------------------------------------------------------
(* Quotients and remainders.                                               *)

\* A number is a multiple of the divisor and a remainder.
LEMMA Division ==
  ASSUME NEW m \in Nat \ {0}, NEW n \in Int
  PROVE  n % m \in 0..(m - 1) /\ n \div m \in Int /\ n = m * (n \div m) + (n % m)
OBVIOUS

\* What a quotient and a remainder are determined by.
LEMMA RemainderIs ==
  ASSUME NEW m \in Nat \ {0}, NEW q \in Int, NEW r \in 0..(m - 1), NEW n, n = m * q + r
  PROVE  n % m = r /\ n \div m = q
OBVIOUS

\* A remainder of a number at most one size below or above.
LEMMA WrapAround ==
  ASSUME NEW m \in Nat \ {0}, NEW n \in Int, -m <= n, n < 2 * m
  PROVE  n % m = IF n < 0 THEN n + m ELSE IF n < m THEN n ELSE n - m
<1> DEFINE q == n \div m
           r == n % m
<1>1. r \in 0..(m - 1) /\ q \in Int /\ n = m * q + r
  BY Division
<1> HIDE DEF q, r
<1>2. q >= 2 => m * q >= 2 * m
  BY <1>1
<1>3. q <= -2 => m * q <= -2 * m
  BY <1>1
<1>4. q \in {-1, 0, 1}
  BY <1>1, <1>2, <1>3
<1> QED
  BY <1>1, <1>4 DEF r

\* Going around a whole number of times changes no remainder.
LEMMA WholeTurns ==
  ASSUME NEW m \in Nat \ {0}, NEW n \in Int, NEW j \in Int
  PROVE  (n + j * m) % m = n % m
<1> DEFINE q == n \div m
           r == n % m
           x == n + j * m
<1>1. r \in 0..(m - 1) /\ q \in Int /\ n = m * q + r
  BY Division
<1> HIDE DEF q, r
<1>2. x = m * (q + j) + r /\ q + j \in Int /\ x \in Int
  BY <1>1
<1> HIDE DEF x
<1>3. \A i \in Int : x = m * i + r => x % m = r
  BY <1>1, <1>2
<1> QED
  BY <1>2, <1>3 DEF x, r

-----------------------------------------------------------------------------
(* The state between messages.                                             *)

Vectors == {"system", "applet"}

\* What may have been drawn: a byte or an error at each offset of some screen.
Drawn == UNION {[D -> Bytes \cup {Error}] : D \in SUBSET Int}

Tops == 0..(Lines - 1)

DState ==
  [top : Tops, cursor : Int, mode : Modes, prev : Addresses, rows : 0..8,
   vector : Vectors, saved : Vectors, mem : [Addresses -> Bytes], trapped : BOOLEAN,
   shown : [top : Tops, bytes : Drawn],
   caret : [row : Int, col : Int, on : BOOLEAN]]

Quiet(s) == s \in DState /\ s.vector = "system" /\ ~s.trapped

\* The cursor is in the window.
OnScreen(s) == s.cursor \in 0..(bytesPerScreen(s) - 1)

RowsNow == IF terminal THEN TerminalRows ELSE SystemRows

IInv ==
  /\ phase \in {"loaded", "background", "focus"} /\ terminal \in BOOLEAN
  /\ prompt \in {"none", "goto", "dialog", "field", "result"} /\ choice \in Fields
  /\ fields \in [Fields -> Entry] /\ opcode \in 0..511
  /\ Quiet(d)
  /\ d.rows \in {0, SystemRows, TerminalRows} /\ d.rows <= RowsNow
  /\ IF d.rows = 0 THEN d.cursor = 0 ELSE OnScreen(d)
  /\ phase = "focus" => d.rows = RowsNow

-----------------------------------------------------------------------------
(* Addresses and bytes.                                                    *)

\* There is at least one row of memory, and every offset is an address.
LEMMA SomeMemory ==
  /\ Lines \in Nat /\ Lines >= 1 /\ Size \in Nat /\ Size = 8 * Lines
  /\ 0 \in Addresses /\ Addresses \subseteq Int
BY DebugToolAssumption DEF DebugToolAssumption, Size, BYTES_PER_ROW, Addresses

LEMMA OffsetIsAddress ==
  ASSUME NEW s \in DState, NEW o \in Int
  PROVE  AddressOf(s, o) \in Addresses
BY SomeMemory DEF AddressOf, Addresses, DState, Tops, BYTES_PER_ROW

LEMMA SelectedIsAddress ==
  ASSUME NEW s \in DState
  PROVE  Selected(s) \in Addresses
BY OffsetIsAddress DEF Selected, DState

\* The two digits of a byte of memory.
LEMMA Digits ==
  ASSUME NEW b \in Bytes
  PROVE  /\ b[1] \in Nibbles /\ b[2] \in Nibbles
         /\ b[1] \in 0..15 /\ b[2] \in 0..15
         /\ \A n \in Nibbles : <<n, b[2]>> \in Bytes /\ <<b[1], n>> \in Bytes
BY DebugToolAssumption DEF DebugToolAssumption, Bytes

\* What is read of an address may be drawn.
LEMMA ReadIsDrawn ==
  ASSUME NEW s \in DState, NEW a \in Addresses
  PROVE  Read(s, a) \in Bytes \cup {Error}
BY DEF Read, DState

LEMMA PlaceTyped ==
  ASSUME NEW o \in Int, NEW m \in Modes
  PROVE  Place(o, m) \in [row : Int, col : Int, on : BOOLEAN]
BY DebugToolAssumption DEF DebugToolAssumption, Place, BYTES_PER_ROW

LEMMA RemainderIsAddress ==
  ASSUME NEW n \in Int
  PROVE  n % Size \in Addresses
<1>1. \A m \in Nat \ {0} : n % m \in 0..(m - 1)
  OBVIOUS
<1> QED
  BY <1>1, SomeMemory DEF Addresses

\* One more byte of a pointer.
PushedOn(s, n, k) ==
  (256 * n + 16 * s.mem[(Selected(s) + k) % Size][1] + s.mem[(Selected(s) + k) % Size][2]) % Size

LEMMA PushedIsAddress ==
  ASSUME NEW s \in DState, NEW n \in Int, NEW k \in Int
  PROVE  PushedOn(s, n, k) \in Addresses
<1> DEFINE b == s.mem[(Selected(s) + k) % Size]
<1>1. (Selected(s) + k) % Size \in Addresses
  <2>1. Selected(s) \in Int
    BY SelectedIsAddress, SomeMemory
  <2>2. Selected(s) + k \in Int
    BY <2>1
  <2> QED
    BY <2>2, RemainderIsAddress, Zenon
<1>2. b \in Bytes
  BY <1>1 DEF DState
<1>3. b[1] \in Int /\ b[2] \in Int
  BY <1>2, Digits
<1> HIDE DEF b
<1>4. 256 * n + 16 * b[1] + b[2] \in Int
  BY <1>3
<1>5. PushedOn(s, n, k) = (256 * n + 16 * b[1] + b[2]) % Size
  BY DEF PushedOn, b
<1> QED
  BY <1>4, <1>5, RemainderIsAddress, Zenon

\* A pointer read from memory is an address.
LEMMA PointerIsAddress ==
  ASSUME NEW s \in DState
  PROVE  Pointer(s) \in Addresses
<1> DEFINE p1 == PushedOn(s, 0, 0)
           p2 == PushedOn(s, p1, 1)
           p3 == PushedOn(s, p2, 2)
<1>1. Pointer(s) = PushedOn(s, p3, 3)
  BY DEF Pointer, PushedOn
<1>2. Addresses \subseteq Int /\ 0 \in Int /\ 1 \in Int /\ 2 \in Int /\ 3 \in Int
  BY SomeMemory
<1>3. p1 \in Int
  BY <1>2, PushedIsAddress, Zenon
<1>4. p2 \in Int
  BY <1>2, <1>3, PushedIsAddress, Zenon
<1>5. p3 \in Int
  BY <1>2, <1>4, PushedIsAddress, Zenon
<1> QED
  BY <1>1, <1>2, <1>5, PushedIsAddress, Zenon

-----------------------------------------------------------------------------
(* The functions of DebugTool.c.                                           *)

\* Under the applet's handler nothing is trapped.
LEMMA FetchedQuietly ==
  ASSUME NEW s, Quiet(s), NEW set
  PROVE  Touched(InstallBusErrorHandler(s), set) = [s EXCEPT !.saved = "system", !.vector = "applet"]
<1> DEFINE i == InstallBusErrorHandler(s)
<1>1. i = [s EXCEPT !.saved = "system", !.vector = "applet"] /\ i.vector = "applet" /\ i.trapped = FALSE
  BY DEF InstallBusErrorHandler, Quiet, DState
<1>2. i \in DState
  BY <1>1 DEF Quiet, DState, Vectors
<1>3. Touched(i, set) = [i EXCEPT !.trapped = FALSE]
  BY <1>1 DEF Touched
<1> HIDE DEF i
<1>4. [i EXCEPT !.trapped = FALSE] = i
  BY <1>1, <1>2 DEF DState
<1> QED
  BY <1>1, <1>3, <1>4 DEF i

LEMMA CaretGood ==
  ASSUME NEW s, Quiet(s)
  PROVE  /\ Quiet(DumpSetCursorCur(s))
         /\ DumpSetCursorCur(s).cursor = s.cursor /\ DumpSetCursorCur(s).rows = s.rows
BY PlaceTyped DEF DumpSetCursorCur, Quiet, DState

LEMMA RedrawGood ==
  ASSUME NEW s, Quiet(s)
  PROVE  /\ Quiet(DumpRedrawScreen(s))
         /\ DumpRedrawScreen(s).cursor = s.cursor /\ DumpRedrawScreen(s).rows = s.rows
<1> DEFINE set == {AddressOf(s, i) : i \in Screen(s)}
           f == Touched(InstallBusErrorHandler(s), set)
           new == [top |-> s.top, bytes |-> [i \in Screen(s) |-> Read(s, AddressOf(s, i))]]
           drawn == [f EXCEPT !.shown = new]
           back == UninstallBusErrorHandler(drawn)
<1>1. f = [s EXCEPT !.saved = "system", !.vector = "applet"]
  BY FetchedQuietly
<1>2. new \in [top : Tops, bytes : Drawn]
  <2>1. Screen(s) \subseteq Int
    BY DEF Screen
  <2>2. [i \in Screen(s) |-> Read(s, AddressOf(s, i))] \in [Screen(s) -> Bytes \cup {Error}]
    BY <2>1, OffsetIsAddress, ReadIsDrawn DEF Quiet
  <2>3. [i \in Screen(s) |-> Read(s, AddressOf(s, i))] \in Drawn
    BY <2>1, <2>2 DEF Drawn
  <2> QED
    BY <2>3 DEF Quiet, DState
<1> HIDE DEF f, new
<1>3. /\ back \in DState /\ back.vector = "system" /\ ~back.trapped
      /\ back.cursor = s.cursor /\ back.rows = s.rows
  BY <1>1, <1>2 DEF UninstallBusErrorHandler, Quiet, DState, Vectors
<1>4. DumpRedrawScreen(s) = DumpSetCursorCur(back)
  BY DEF DumpRedrawScreen, f, new
<1> QED
  BY <1>3, <1>4, CaretGood DEF Quiet

\* Under the applet's handler another access changes nothing.
LEMMA TouchedUnder ==
  ASSUME NEW s \in DState, s.vector = "applet", ~s.trapped, NEW set
  PROVE  Touched(s, set) = s
<1>1. Touched(s, set) = [s EXCEPT !.trapped = FALSE]
  BY DEF Touched
<1>2. [s EXCEPT !.trapped = FALSE] = s
  BY DEF DState
<1> QED
  BY <1>1, <1>2

\* One byte of the dump is drawn again.
LEMMA DrawnStays ==
  ASSUME NEW b \in Drawn, NEW c, NEW v \in Bytes \cup {Error}
  PROVE  [b EXCEPT ![c] = v] \in Drawn
<1>1. PICK D \in SUBSET Int : b \in [D -> Bytes \cup {Error}]
  BY DEF Drawn
<1>2. [b EXCEPT ![c] = v] \in [D -> Bytes \cup {Error}]
  BY <1>1
<1> QED
  BY <1>1, <1>2 DEF Drawn

LEMMA WriteGood ==
  ASSUME NEW s, Quiet(s), NEW new \in Bytes, NEW masked \in BOOLEAN
  PROVE  LET w == DumpWriteAndRedrawCur(s, new, masked)
         IN  Quiet(w) /\ w.cursor = s.cursor /\ w.rows = s.rows /\ w.mode = s.mode
<1> DEFINE a == Selected(s)
           f == Touched(InstallBusErrorHandler(s), {a})
           mem == IF a \in Writable /\ (masked => a \in Readable) THEN [f.mem EXCEPT ![a] = new] ELSE f.mem
           written == [f EXCEPT !.mem = mem]
           again == UninstallBusErrorHandler(Touched(written, {a}))
<1>1. f = [s EXCEPT !.saved = "system", !.vector = "applet"]
  BY FetchedQuietly
<1>2. a \in Addresses
  BY SelectedIsAddress DEF Quiet
<1>3. f \in DState /\ f.vector = "applet" /\ ~f.trapped /\ f.saved = "system"
      /\ f.cursor = s.cursor /\ f.rows = s.rows /\ f.mode = s.mode
  BY <1>1 DEF Quiet, DState, Vectors
<1> HIDE DEF f, a
<1>4. mem \in [Addresses -> Bytes]
  BY <1>2, <1>3 DEF DState
<1> HIDE DEF mem
<1>5. written \in DState /\ written.vector = "applet" /\ ~written.trapped /\ written.saved = "system"
      /\ written.cursor = s.cursor /\ written.rows = s.rows /\ written.mode = s.mode
  BY <1>3, <1>4 DEF DState
<1> HIDE DEF written
<1>6. again = [written EXCEPT !.vector = "system"]
  BY <1>5, TouchedUnder DEF UninstallBusErrorHandler
<1>7. Quiet(again) /\ again.cursor = s.cursor /\ again.rows = s.rows /\ again.mode = s.mode
  BY <1>5, <1>6 DEF Quiet, DState, Vectors
<1> HIDE DEF again
<1>8. Read(again, a) \in Bytes \cup {Error}
  BY <1>2, <1>7, ReadIsDrawn DEF Quiet
<1> DEFINE v == Read(again, a)
           bytes == [again.shown.bytes EXCEPT ![s.cursor] = v]
<1>9. bytes \in Drawn
  <2>1. again.shown.bytes \in Drawn
    BY <1>7 DEF Quiet, DState
  <2> QED
    BY <2>1, <1>8, DrawnStays
<1>10. DumpWriteAndRedrawCur(s, new, masked) = [again EXCEPT !.shown.bytes[s.cursor] = v, !.caret.on = FALSE]
  BY DEF DumpWriteAndRedrawCur, again, written, mem, f, a
<1>11. [again EXCEPT !.shown.bytes[s.cursor] = v, !.caret.on = FALSE]
         = [again EXCEPT !.shown = [again.shown EXCEPT !.bytes = bytes],
                         !.caret = [again.caret EXCEPT !.on = FALSE]]
  OBVIOUS
<1> HIDE DEF bytes, v
<1>12. [again.shown EXCEPT !.bytes = bytes] \in [top : Tops, bytes : Drawn]
  BY <1>7, <1>9 DEF Quiet, DState
<1>13. [again.caret EXCEPT !.on = FALSE] \in [row : Int, col : Int, on : BOOLEAN]
  BY <1>7 DEF Quiet, DState
<1> QED
  BY <1>7, <1>10, <1>11, <1>12, <1>13 DEF Quiet, DState

\* The window and the cursor move, with or without a jump.
Shifted(s, top, c) == [s EXCEPT !.top = top, !.cursor = c]

LEMMA MovedQuietly ==
  ASSUME NEW s, Quiet(s), NEW top \in Tops, NEW c \in Int
  PROVE  Quiet(Shifted(s, top, c)) /\ Shifted(s, top, c).rows = s.rows /\ Shifted(s, top, c).cursor = c
BY DEF Quiet, DState, Shifted

Jumped(s, prev, top, c, m) ==
  [s EXCEPT !.prev = prev, !.top = top, !.cursor = c, !.mode = m]

LEMMA JumpedQuietly ==
  ASSUME NEW s, Quiet(s), NEW prev \in Addresses, NEW top \in Tops, NEW c \in Int, NEW m \in Modes
  PROVE  /\ Quiet(Jumped(s, prev, top, c, m)) /\ Jumped(s, prev, top, c, m).rows = s.rows
         /\ Jumped(s, prev, top, c, m).cursor = c
BY DEF Quiet, DState, Jumped

LEMMA MoveGood ==
  ASSUME NEW s, Quiet(s), s.rows >= 1, NEW c \in Int, -8 <= c, c < bytesPerScreen(s) + 8
  PROVE  /\ Quiet(DumpMoveCursor(s, c)) /\ DumpMoveCursor(s, c).rows = s.rows
         /\ OnScreen(DumpMoveCursor(s, c))
<1> DEFINE above == (s.top - 1) % Lines
           below == (s.top + 1) % Lines
           up == Shifted(s, above, c + BYTES_PER_ROW)
           down == Shifted(s, below, c - BYTES_PER_ROW)
           stay == [s EXCEPT !.cursor = c]
<1>1. /\ above \in Tops /\ below \in Tops
      /\ s.rows \in Int
  <2>1. \A m \in Nat \ {0}, n \in Int : n % m \in 0..(m - 1)
    OBVIOUS
  <2>2. s.top \in Int /\ s.rows \in Int /\ Lines \in Nat \ {0}
    BY SomeMemory DEF Quiet, DState, Tops
  <2>3. s.top - 1 \in Int /\ s.top + 1 \in Int
    BY <2>2
  <2> QED
    BY <2>1, <2>2, <2>3, Zenon DEF Tops
<1> HIDE DEF above, below
<1>9. c + BYTES_PER_ROW \in Int /\ c - BYTES_PER_ROW \in Int
  BY DEF BYTES_PER_ROW
<1>2. Quiet(up) /\ up.rows = s.rows /\ up.cursor = c + BYTES_PER_ROW
  BY <1>1, <1>9, MovedQuietly
<1>3. Quiet(down) /\ down.rows = s.rows /\ down.cursor = c - BYTES_PER_ROW
  BY <1>1, <1>9, MovedQuietly
<1>4. Quiet(stay) /\ stay.rows = s.rows /\ stay.cursor = c
  BY DEF Quiet, DState
<1>5. DumpMoveCursor(s, c) = IF c < 0 THEN DumpRedrawScreen(up)
                             ELSE IF c >= bytesPerScreen(s) THEN DumpRedrawScreen(down)
                             ELSE DumpSetCursorCur(stay)
  BY DEF DumpMoveCursor, above, below, Shifted
<1> HIDE DEF up, down, stay
<1>6. CASE c < 0
  <2>1. DumpMoveCursor(s, c) = DumpRedrawScreen(up)
    BY <1>5, <1>6
  <2> QED
    BY <1>1, <1>2, <1>6, <2>1, RedrawGood DEF OnScreen, bytesPerScreen, BYTES_PER_ROW
<1>7. CASE ~(c < 0) /\ c >= bytesPerScreen(s)
  <2>1. DumpMoveCursor(s, c) = DumpRedrawScreen(down)
    BY <1>5, <1>7
  <2> QED
    BY <1>1, <1>3, <1>7, <2>1, RedrawGood DEF OnScreen, bytesPerScreen, BYTES_PER_ROW
<1>8. CASE ~(c < 0) /\ ~(c >= bytesPerScreen(s))
  <2>1. DumpMoveCursor(s, c) = DumpSetCursorCur(stay)
    BY <1>5, <1>8
  <2> QED
    BY <1>1, <1>4, <1>8, <2>1, CaretGood DEF OnScreen, bytesPerScreen, BYTES_PER_ROW
<1> QED
  BY <1>6, <1>7, <1>8

LEMMA SetAddressGood ==
  ASSUME NEW s, Quiet(s), s.rows >= 1, NEW a \in Addresses
  PROVE  /\ Quiet(DumpSetAddress(s, a)) /\ DumpSetAddress(s, a).rows = s.rows
         /\ OnScreen(DumpSetAddress(s, a))
<1> DEFINE q == a \div BYTES_PER_ROW
           r == a % BYTES_PER_ROW
           sel == Selected(s)
           m == IF s.mode = MODE_NIBBLE_LO THEN MODE_NIBBLE_HI ELSE s.mode
<1>1. q \in Tops /\ r \in 0..7
  BY SomeMemory DEF Addresses, BYTES_PER_ROW, Tops
<1>2. sel \in Addresses /\ s.rows \in Int
  BY SelectedIsAddress DEF Quiet, DState
<1>3. m \in Modes
  BY DEF Quiet, DState, Modes
<1>4. DumpSetAddress(s, a) = Jumped(s, sel, q, r, m)
  BY DEF DumpSetAddress, Jumped
<1> HIDE DEF q, r, sel, m
<1>5. r \in Int
  BY <1>1
<1>6. Quiet(DumpSetAddress(s, a)) /\ DumpSetAddress(s, a).rows = s.rows /\ DumpSetAddress(s, a).cursor = r
  BY <1>1, <1>2, <1>3, <1>4, <1>5, JumpedQuietly
<1> QED
  BY <1>1, <1>2, <1>6 DEF OnScreen, bytesPerScreen, BYTES_PER_ROW

-----------------------------------------------------------------------------
(* The invariant.                                                          *)

\* What every message leaves while the applet has the focus.
Shows(s) == Quiet(s) /\ OnScreen(s) /\ s.rows = RowsNow

LEMMA SomeRows ==
  /\ SystemRows \in 1..8 /\ TerminalRows \in 1..8 /\ SystemRows <= TerminalRows
BY DebugToolAssumption DEF DebugToolAssumption

LEMMA InFocus ==
  ASSUME IInv, phase = "focus"
  PROVE  Shows(d) /\ d.rows \in 1..8 /\ d.cursor \in 0..(8 * d.rows - 1)
BY SomeRows DEF IInv, Shows, RowsNow, OnScreen, bytesPerScreen, BYTES_PER_ROW

\* A message handled without asking the user.
LEMMA HandledGood ==
  ASSUME IInv, NEW s, Handled(s), Shows(s)
  PROVE  IInv'
BY SomeRows DEF IInv, Handled, Shows, RowsNow, OnScreen, bytesPerScreen

\* A prompt is drawn over the dump, or goes on.
LEMMA AskedGood ==
  ASSUME IInv, phase = "focus", Asking, Shows(d'),
         prompt' \in {"none", "goto", "dialog", "field", "result"}, choice' \in Fields,
         fields' \in [Fields -> Entry], opcode' \in 0..511
  PROVE  IInv'
BY SomeRows DEF IInv, Asking, Shows, RowsNow, OnScreen, bytesPerScreen

\* Drawing again what is there.
LEMMA RedrawShows ==
  ASSUME NEW s, Shows(s)
  PROVE  Shows(DumpRedrawScreen(s)) /\ Shows(DumpSetCursorCur(s))
BY RedrawGood, CaretGood DEF Shows, OnScreen, bytesPerScreen

\* A jump to any address.
LEMMA JumpShows ==
  ASSUME NEW s, Shows(s), NEW a \in Addresses
  PROVE  Shows(DumpSetAddress(s, a))
<1>1. s.rows >= 1
  BY SomeRows DEF Shows, RowsNow
<1> QED
  BY <1>1, SetAddressGood DEF Shows

\* A move of the cursor by at most a row beyond the window.
LEMMA MoveShows ==
  ASSUME NEW s, Shows(s), NEW c \in Int, -8 <= c, c < bytesPerScreen(s) + 8
  PROVE  Shows(DumpMoveCursor(s, c))
<1>1. s.rows >= 1
  BY SomeRows DEF Shows, RowsNow
<1> QED
  BY <1>1, MoveGood DEF Shows

\* Nothing that is typed reads as an address or a system call that does not exist.
LEMMA EntryRead ==
  ASSUME NEW e \in Entry, NEW was \in 0..511
  PROVE  NumberFromString(e) \in Addresses /\ RawSysCall(e, was) \in 0..511
<1>1. e.value \in Int
  BY SomeMemory DEF Entry
<1>2. e.value % 512 \in 0..511
  BY <1>1
<1> QED
  BY <1>2, DebugToolAssumption DEF DebugToolAssumption, Entry, NumberFromString, RawSysCall

LEMMA AllRead ==
  ASSUME NEW texts \in [Fields -> Entry], NEW was \in 0..511
  PROVE  AllParsed(texts, was) \in 0..511
<1> DEFINE calls == {i \in DOMAIN texts : texts[i].form = "syscall"}
           last  == {i \in calls : \A j \in calls : j <= i}
           one   == CHOOSE i \in last : TRUE
<1>1. AllParsed(texts, was) = IF last = {} THEN was ELSE RawSysCall(texts[one], was)
  BY DEF AllParsed
<1>2. last # {} => one \in Fields
  <2>1. last # {} => one \in last
    OBVIOUS
  <2> QED
    BY <2>1
<1> HIDE DEF last, one
<1> QED
  BY <1>1, <1>2, EntryRead

\* Before the applet was ever in the foreground no row is counted.
LEMMA InitInv == Init => IInv
<1> SUFFICES ASSUME Init PROVE IInv
  OBVIOUS
<1>1. NoBytes \in Drawn
  BY DEF NoBytes, Drawn
<1>2. Quiet(d)
  BY <1>1, SomeMemory, DebugToolAssumption
  DEF DebugToolAssumption, Init, Quiet, DState, Tops, Vectors, Modes, MODE_NIBBLE_HI
<1>3. 1 \in Fields /\ fields \in [Fields -> Entry]
  BY SomeMemory, DebugToolAssumption DEF DebugToolAssumption, Init, Entry
<1>4. d.rows = 0 /\ d.cursor = 0
  BY DEF Init
<1>5. RowsNow \in 1..8
  BY SomeRows DEF RowsNow
<1>6. d.rows \in {0, SystemRows, TerminalRows} /\ d.rows <= RowsNow
  BY <1>4, <1>5
<1>7. /\ phase \in {"loaded", "background", "focus"} /\ phase # "focus" /\ terminal \in BOOLEAN
      /\ prompt \in {"none", "goto", "dialog", "field", "result"} /\ choice \in Fields
      /\ opcode \in 0..511
  <2>1. phase = "loaded" /\ terminal = FALSE /\ prompt = "none" /\ choice = 1 /\ opcode = 0
    BY DEF Init
  <2>2. terminal \in BOOLEAN
    BY <2>1, Zenon
  <2>3. opcode \in 0..511
    BY <2>1
  <2> QED
    BY <1>3, <2>1, <2>2, <2>3, Zenon
<1> QED
  BY <1>2, <1>3, <1>4, <1>6, <1>7, Zenon DEF IInv

\* A focus that comes with more rows leaves the cursor on the screen.
LEMMA SetFocusStep == IInv /\ MsgSetFocus => IInv'
<1> SUFFICES ASSUME IInv, MsgSetFocus PROVE IInv'
  OBVIOUS
<1> DEFINE v == [d EXCEPT !.rows = IF terminal' THEN TerminalRows ELSE SystemRows]
<1>1. terminal' \in BOOLEAN /\ (terminal => terminal')
  BY DEF MsgSetFocus, IInv
<1>2. RowsNow' = (IF terminal' THEN TerminalRows ELSE SystemRows) /\ RowsNow <= RowsNow' /\ RowsNow' \in 1..8
  BY <1>1, SomeRows DEF RowsNow
<1>3. Quiet(v) /\ v.rows = RowsNow' /\ v.cursor = d.cursor
  BY <1>2 DEF IInv, Quiet, DState
<1>4. OnScreen(v)
  <2>1. d.rows \in Int /\ d.rows <= RowsNow /\ d.cursor \in Int /\ RowsNow \in Int
    BY SomeRows DEF IInv, Quiet, DState, RowsNow
  <2>2. d.cursor = 0 \/ d.cursor \in 0..(8 * d.rows - 1)
    BY DEF IInv, OnScreen, bytesPerScreen, BYTES_PER_ROW
  <2>3. d.cursor \in 0..(8 * RowsNow' - 1)
    BY <1>2, <2>1, <2>2
  <2> HIDE DEF v
  <2> QED
    BY <1>3, <2>3 DEF OnScreen, bytesPerScreen, BYTES_PER_ROW
<1>5. d' = DumpRedrawScreen(v)
  BY DEF MsgSetFocus
<1> HIDE DEF v
<1>6. Quiet(d') /\ d'.rows = RowsNow' /\ OnScreen(d')
  BY <1>3, <1>4, <1>5, RedrawGood DEF OnScreen, bytesPerScreen
<1> QED
  BY <1>1, <1>2, <1>6 DEF IInv, MsgSetFocus, RowsNow, OnScreen, bytesPerScreen

\* Messages that only change the phase.
LEMMA PhaseStep == IInv /\ (MsgInit \/ MsgKillFocus) => IInv'
BY DEF IInv, MsgInit, MsgKillFocus, RowsNow, OnScreen, bytesPerScreen

\* A mode of its own and a window that scrolls leave the cursor where it is.
LEMMA ModeShows ==
  ASSUME NEW s, Shows(s), NEW m \in Modes, NEW top \in Tops
  PROVE  /\ Shows([s EXCEPT !.mode = m]) /\ [s EXCEPT !.mode = m].cursor = s.cursor
         /\ [s EXCEPT !.mode = m].rows = s.rows
         /\ Shows([s EXCEPT !.top = top])
BY DEF Shows, Quiet, DState, OnScreen, bytesPerScreen

LEMMA TypedShows ==
  ASSUME NEW s, Shows(s), NEW new \in Bytes, NEW masked \in BOOLEAN
  PROVE  LET w == DumpWriteAndRedrawCur(s, new, masked)
         IN  Shows(w) /\ w.cursor = s.cursor /\ w.rows = s.rows /\ w.mode = s.mode
<1> DEFINE w == DumpWriteAndRedrawCur(s, new, masked)
<1>1. Quiet(w) /\ w.cursor = s.cursor /\ w.rows = s.rows /\ w.mode = s.mode
  BY WriteGood DEF Shows
<1> HIDE DEF w
<1>2. Shows(w)
  BY <1>1 DEF Shows, OnScreen, bytesPerScreen
<1> QED
  BY <1>1, <1>2 DEF w

\* Tab, and a key that goes to the other nibble of the byte.
LEMMA ModeStep ==
  ASSUME IInv, phase = "focus", NEW m \in Modes, Handled(DumpSetCursorCur([d EXCEPT !.mode = m]))
  PROVE  IInv'
<1> DEFINE v == [d EXCEPT !.mode = m]
<1>1. Shows(v)
  <2>1. 0 \in Tops
    BY SomeMemory DEF Tops
  <2> QED
    BY <2>1, InFocus, ModeShows
<1> HIDE DEF v
<1>2. Shows(DumpSetCursorCur(v))
  BY <1>1, RedrawShows
<1> QED
  BY <1>2, HandledGood DEF v

\* A digit or character typed: the cursor stays, or goes on to the next byte.
LEMMA TypingStep ==
  ASSUME IInv, phase = "focus", NEW new \in Bytes, NEW masked \in BOOLEAN, NEW m \in Modes,
         LET w == DumpWriteAndRedrawCur(d, new, masked)
         IN  \/ Handled(DumpSetCursorCur([w EXCEPT !.mode = m]))
             \/ Handled(DumpMoveCursor([w EXCEPT !.mode = m], d.cursor + 1))
             \/ Handled(DumpMoveCursor(w, d.cursor + 1))
  PROVE  IInv'
<1> DEFINE w == DumpWriteAndRedrawCur(d, new, masked)
           v == [w EXCEPT !.mode = m]
           c == d.cursor + 1
<1>1. Shows(w) /\ w.cursor = d.cursor /\ w.rows = d.rows
  BY InFocus, TypedShows
<1>2. 0 \in Tops
  BY SomeMemory DEF Tops
<1> HIDE DEF w
<1>3. Shows(v) /\ v.rows = d.rows
  BY <1>1, <1>2, ModeShows
<1>4. c \in Int /\ -8 <= c /\ c < 8 * d.rows + 8
  BY InFocus
<1> HIDE DEF v, c
<1>5. c < bytesPerScreen(w) + 8 /\ c < bytesPerScreen(v) + 8
  BY <1>1, <1>3, <1>4 DEF bytesPerScreen, BYTES_PER_ROW
<1>6. Shows(DumpSetCursorCur(v)) /\ Shows(DumpMoveCursor(v, c)) /\ Shows(DumpMoveCursor(w, c))
  BY <1>1, <1>3, <1>4, <1>5, RedrawShows, MoveShows
<1>7. Handled(DumpSetCursorCur(v)) \/ Handled(DumpMoveCursor(v, c)) \/ Handled(DumpMoveCursor(w, c))
  BY DEF v, w, c
<1> QED
  BY <1>6, <1>7, HandledGood

LEMMA TypingSteps == IInv /\ phase = "focus" /\ (CharHighNibble \/ CharLowNibble \/ CharText) => IInv'
<1> SUFFICES ASSUME IInv, phase = "focus" PROVE CharHighNibble \/ CharLowNibble \/ CharText => IInv'
  OBVIOUS
<1> DEFINE b == d.mem[Selected(d)]
<1>1. b \in Bytes
  BY SelectedIsAddress DEF IInv, Quiet, DState
<1>2. \A n \in Nibbles : <<n, b[2]>> \in Bytes /\ <<b[1], n>> \in Bytes
  BY <1>1, Digits
<1>3. MODE_NIBBLE_HI \in Modes /\ MODE_NIBBLE_LO \in Modes
  BY DEF Modes
<1>4. ASSUME CharHighNibble PROVE IInv'
  <2>1. PICK n \in Nibbles :
          Handled(DumpSetCursorCur([DumpWriteAndRedrawCur(d, <<n, b[2]>>, TRUE) EXCEPT !.mode = MODE_NIBBLE_LO]))
    BY <1>4 DEF CharHighNibble
  <2> DEFINE new == <<n, b[2]>>
  <2>2. new \in Bytes
    BY <1>2
  <2>3. Handled(DumpSetCursorCur([DumpWriteAndRedrawCur(d, new, TRUE) EXCEPT !.mode = MODE_NIBBLE_LO]))
    BY <2>1
  <2> HIDE DEF new
  <2> QED
    BY <1>3, <2>2, <2>3, TypingStep
<1>5. ASSUME CharLowNibble PROVE IInv'
  <2>1. PICK n \in Nibbles :
          Handled(DumpMoveCursor([DumpWriteAndRedrawCur(d, <<b[1], n>>, TRUE) EXCEPT !.mode = MODE_NIBBLE_HI],
                                 d.cursor + 1))
    BY <1>5 DEF CharLowNibble
  <2> DEFINE new == <<b[1], n>>
  <2>2. new \in Bytes
    BY <1>2
  <2>3. Handled(DumpMoveCursor([DumpWriteAndRedrawCur(d, new, TRUE) EXCEPT !.mode = MODE_NIBBLE_HI],
                               d.cursor + 1))
    BY <2>1
  <2> HIDE DEF new
  <2> QED
    BY <1>3, <2>2, <2>3, TypingStep
<1>6. ASSUME CharText PROVE IInv'
  <2>1. PICK new \in Bytes : Handled(DumpMoveCursor(DumpWriteAndRedrawCur(d, new, FALSE), d.cursor + 1))
    BY <1>6 DEF CharText
  <2> QED
    BY <1>3, <2>1, TypingStep
<1> QED
  BY <1>4, <1>5, <1>6

\* A key that moves the cursor, by at most a row beyond the window.
LEMMA CursorStep ==
  ASSUME IInv, phase = "focus", NEW m \in Modes, NEW c \in Int, -8 <= c, c < 8 * d.rows + 8,
         \/ Handled(DumpMoveCursor([d EXCEPT !.mode = m], c)) \/ Handled(DumpMoveCursor(d, c))
  PROVE  IInv'
<1> DEFINE v == [d EXCEPT !.mode = m]
<1>1. 0 \in Tops /\ Shows(d)
  BY SomeMemory, InFocus DEF Tops
<1>2. Shows(v) /\ v.rows = d.rows
  BY <1>1, ModeShows
<1> HIDE DEF v
<1>3. c < bytesPerScreen(d) + 8 /\ c < bytesPerScreen(v) + 8
  BY <1>2 DEF bytesPerScreen, BYTES_PER_ROW
<1>4. Shows(DumpMoveCursor(v, c)) /\ Shows(DumpMoveCursor(d, c))
  BY <1>1, <1>2, <1>3, MoveShows
<1>5. Handled(DumpMoveCursor(v, c)) \/ Handled(DumpMoveCursor(d, c))
  BY DEF v
<1> QED
  BY <1>4, <1>5, HandledGood

\* The ends of the line and of the screen: the size of a screen is a power of two.
LEMMA EndsNear ==
  ASSUME IInv, phase = "focus", NEW unit \in {BYTES_PER_ROW, bytesPerScreen(d)}
  PROVE  /\ FirstOf(d.cursor, unit) \in Int /\ -8 <= FirstOf(d.cursor, unit)
         /\ FirstOf(d.cursor, unit) < 8 * d.rows + 8
         /\ LastOf(d.cursor, unit) \in Int /\ -8 <= LastOf(d.cursor, unit)
         /\ LastOf(d.cursor, unit) < 8 * d.rows + 8
<1> DEFINE c == d.cursor
           n == d.rows
<1>1. n \in {1, 2, 4, 8} /\ c \in 0..(8 * n - 1)
  BY InFocus, DebugToolAssumption DEF DebugToolAssumption, Shows, RowsNow
<1>2. unit = 8 \/ unit = 8 * n
  BY DEF bytesPerScreen, BYTES_PER_ROW
<1> HIDE DEF c, n
<1>3. c \in Int /\ 0 <= c /\ c <= 63
  BY <1>1
<1>4. CASE unit = 8
  <2>1. c % 8 \in 0..7
    BY <1>3
  <2>2. FirstOf(c, unit) = c - (c % 8) /\ LastOf(c, unit) = c - (c % 8) + 7
    BY <1>3, <1>4, <2>1 DEF FirstOf, LastOf
  <2> DEFINE r == c % 8
  <2>3. r \in 0..7 /\ FirstOf(c, unit) = c - r /\ LastOf(c, unit) = c - r + 7
    BY <2>1, <2>2
  <2> HIDE DEF r
  <2>4. /\ FirstOf(c, unit) \in Int /\ -8 <= FirstOf(c, unit) /\ FirstOf(c, unit) < 8 * n + 8
        /\ LastOf(c, unit) \in Int /\ -8 <= LastOf(c, unit) /\ LastOf(c, unit) < 8 * n + 8
    BY <1>1, <2>3
  <2> QED
    BY <2>4 DEF c, n
<1>5. CASE unit = 8 * n
  <2>1. n = 1 => c % 8 = c
    BY <1>1
  <2>2. n = 2 => c % 16 = c
    BY <1>1
  <2>3. n = 4 => c % 32 = c
    BY <1>1
  <2>4. n = 8 => c % 64 = c
    BY <1>1
  <2>5. FirstOf(c, unit) = 0 /\ LastOf(c, unit) = unit - 1
    BY <1>1, <1>3, <1>5, <2>1, <2>2, <2>3, <2>4 DEF FirstOf, LastOf
  <2> QED
    BY <1>1, <1>5, <2>5 DEF c, n
<1> QED
  BY <1>2, <1>4, <1>5

LEMMA CursorSteps ==
  IInv /\ phase = "focus" /\ (CharTab \/ KeyLeft \/ KeyRight \/ KeyUp \/ KeyDown
                              \/ KeyHome \/ KeyEnd \/ CtrlHome \/ CtrlEnd) => IInv'
<1> SUFFICES ASSUME IInv, phase = "focus"
             PROVE  CharTab \/ KeyLeft \/ KeyRight \/ KeyUp \/ KeyDown
                    \/ KeyHome \/ KeyEnd \/ CtrlHome \/ CtrlEnd => IInv'
  OBVIOUS
<1>1. MODE_NIBBLE_HI \in Modes /\ MODE_NIBBLE_LO \in Modes /\ MODE_ASCII \in Modes /\ d.mode \in Modes
  BY DEF Modes, IInv, Quiet, DState
<1> DEFINE toggled == IF d.mode = MODE_ASCII THEN MODE_NIBBLE_HI ELSE MODE_ASCII
           back    == IF d.mode = MODE_NIBBLE_HI THEN MODE_NIBBLE_LO ELSE d.mode
           on      == IF d.mode = MODE_NIBBLE_LO THEN MODE_NIBBLE_HI ELSE d.mode
<1>2. toggled \in Modes /\ back \in Modes /\ on \in Modes
  BY <1>1
<1>3. \A by \in {-8, -1, 1, 8} : /\ d.cursor + by \in Int /\ -8 <= d.cursor + by
                                /\ d.cursor + by < 8 * d.rows + 8
  BY InFocus
<1>4. /\ d.cursor - 1 = d.cursor + (-1) /\ d.cursor - BYTES_PER_ROW = d.cursor + (-8)
      /\ d.cursor + BYTES_PER_ROW = d.cursor + 8
  BY InFocus DEF BYTES_PER_ROW
<1>5. CharTab => IInv'
  <2>1. CharTab => Handled(DumpSetCursorCur([d EXCEPT !.mode = toggled]))
    BY DEF CharTab
  <2> HIDE DEF toggled
  <2> QED
    BY <1>2, <2>1, ModeStep
<1>6. KeyLeft => IInv'
  <2>1. KeyLeft => \/ Handled(DumpSetCursorCur([d EXCEPT !.mode = MODE_NIBBLE_HI]))
                   \/ Handled(DumpMoveCursor([d EXCEPT !.mode = back], d.cursor + (-1)))
    BY <1>4 DEF KeyLeft
  <2> HIDE DEF back
  <2> QED
    BY <1>1, <1>2, <1>3, <2>1, ModeStep, CursorStep
<1>7. KeyRight => IInv'
  <2>1. KeyRight => \/ Handled(DumpSetCursorCur([d EXCEPT !.mode = MODE_NIBBLE_LO]))
                    \/ Handled(DumpMoveCursor([d EXCEPT !.mode = on], d.cursor + 1))
    BY DEF KeyRight
  <2> HIDE DEF on
  <2> QED
    BY <1>1, <1>2, <1>3, <2>1, ModeStep, CursorStep
<1>8. KeyUp \/ KeyDown => IInv'
  <2>1. KeyUp \/ KeyDown => \/ Handled(DumpMoveCursor(d, d.cursor + (-8)))
                           \/ Handled(DumpMoveCursor(d, d.cursor + 8))
    BY <1>4 DEF KeyUp, KeyDown
  <2> QED
    BY <1>1, <1>3, <2>1, CursorStep
<1>9. KeyHome \/ KeyEnd \/ CtrlHome \/ CtrlEnd => IInv'
  <2>1. ASSUME NEW unit \in {BYTES_PER_ROW, bytesPerScreen(d)},
               \/ Handled(DumpMoveCursor(d, FirstOf(d.cursor, unit)))
               \/ Handled(DumpMoveCursor(d, LastOf(d.cursor, unit)))
        PROVE  IInv'
    BY <1>1, <2>1, EndsNear, CursorStep
  <2> QED
    BY <2>1 DEF KeyHome, KeyEnd, CtrlHome, CtrlEnd
<1> QED
  BY <1>5, <1>6, <1>7, <1>8, <1>9

\* The dump scrolls by a screen.
LEMMA ScrollSteps == IInv /\ phase = "focus" /\ (CtrlUp \/ CtrlDown) => IInv'
<1> SUFFICES ASSUME IInv, phase = "focus" PROVE CtrlUp \/ CtrlDown => IInv'
  OBVIOUS
<1>1. ASSUME NEW n \in Int, Handled(DumpRedrawScreen([d EXCEPT !.top = n % Lines]))
      PROVE  IInv'
  <2> DEFINE top == n % Lines
             v == [d EXCEPT !.top = top]
  <2>1. \A m \in Nat \ {0}, k \in Int : k % m \in 0..(m - 1)
    OBVIOUS
  <2>2. Lines \in Nat \ {0}
    BY SomeMemory
  <2>3. top \in Tops
    BY <1>1, <2>1, <2>2, Zenon DEF Tops
  <2> HIDE DEF top
  <2>4. Shows(v)
    BY <2>3, InFocus, ModeShows DEF Modes
  <2>5. Handled(DumpRedrawScreen(v))
    BY <1>1 DEF top
  <2> HIDE DEF v
  <2> QED
    BY <2>4, <2>5, RedrawShows, HandledGood
<1>2. d.top - d.rows \in Int /\ d.top + d.rows \in Int
  BY InFocus DEF Shows, Quiet, DState, Tops
<1> QED
  BY <1>1, <1>2 DEF CtrlUp, CtrlDown

\* Storing in memory moves nothing.
LEMMA StoredShows ==
  ASSUME NEW s, Shows(s), NEW mem \in [Addresses -> Bytes]
  PROVE  Shows([s EXCEPT !.mem = mem])
BY DEF Shows, Quiet, DState, OnScreen, bytesPerScreen

\* Jumps, and keys that draw the screen again.
LEMMA JumpSteps ==
  IInv /\ phase = "focus" /\ (KeyBackspace \/ CtrlShiftG \/ CtrlR \/ KeyClearFile) => IInv'
<1> SUFFICES ASSUME IInv, phase = "focus"
             PROVE  KeyBackspace \/ CtrlShiftG \/ CtrlR \/ KeyClearFile => IInv'
  OBVIOUS
<1>1. Shows(d) /\ Quiet(d) /\ d \in DState
  BY InFocus DEF Shows, Quiet
<1>2. ASSUME NEW s, Shows(s), Handled(DumpRedrawScreen(s)) PROVE IInv'
  BY <1>2, RedrawShows, HandledGood
<1>3. KeyBackspace => IInv'
  <2>1. d.prev \in Addresses
    BY <1>1 DEF DState
  <2>2. Shows(DumpSetAddress(d, d.prev))
    BY <1>1, <2>1, JumpShows
  <2> QED
    BY <1>2, <2>2 DEF KeyBackspace
<1>4. CtrlShiftG => IInv'
  <2> DEFINE long    == {(Selected(d) + k) % Size : k \in 0..3}
             touched == Touched(InstallBusErrorHandler(d), long)
             fetched == UninstallBusErrorHandler(touched)
  <2>1. touched = [d EXCEPT !.saved = "system", !.vector = "applet"]
    BY <1>1, FetchedQuietly
  <2> HIDE DEF long, touched
  <2>2. Shows(fetched)
    BY <1>1, <2>1 DEF UninstallBusErrorHandler, Shows, Quiet, DState, Vectors, OnScreen, bytesPerScreen
  <2>3. Pointer(d) \in Addresses
    BY <1>1, PointerIsAddress
  <2> HIDE DEF fetched
  <2>4. Shows(DumpSetAddress(fetched, Pointer(d)))
    BY <2>2, <2>3, JumpShows
  <2>5. CtrlShiftG => \/ Handled(DumpRedrawScreen(DumpSetAddress(fetched, Pointer(d))))
                     \/ Handled(DumpRedrawScreen(fetched))
    BY DEF CtrlShiftG, fetched, touched, long
  <2> QED
    BY <1>2, <2>2, <2>4, <2>5
<1>5. CtrlR => IInv'
  BY <1>1, <1>2 DEF CtrlR
<1>6. KeyClearFile => IInv'
  <2> DEFINE mem == [a \in Addresses |-> IF a \in Scratch THEN <<0, 0>> ELSE d.mem[a]]
  <2>1. mem \in [Addresses -> Bytes]
    BY <1>1, DebugToolAssumption DEF DebugToolAssumption, DState, Bytes
  <2> HIDE DEF mem
  <2>2. Shows([d EXCEPT !.mem = mem])
    BY <1>1, <2>1, StoredShows
  <2> QED
    BY <1>2, <2>2 DEF KeyClearFile, mem
<1> QED
  BY <1>3, <1>4, <1>5, <1>6

\* A prompt is drawn over the dump.
LEMMA SpoiltShows ==
  ASSUME NEW s, Shows(s)
  PROVE  Shows(Spoilt(s))
<1>1. NoBytes \in Drawn
  BY DEF NoBytes, Drawn
<1> DEFINE shown == [s.shown EXCEPT !.bytes = NoBytes]
           caret == [s.caret EXCEPT !.on = FALSE]
<1>2. Spoilt(s) = [s EXCEPT !.shown = shown, !.caret = caret]
  BY DEF Spoilt
<1>3. shown \in [top : Tops, bytes : Drawn] /\ caret \in [row : Int, col : Int, on : BOOLEAN]
  BY <1>1 DEF Shows, Quiet, DState
<1> HIDE DEF shown, caret
<1> QED
  BY <1>2, <1>3 DEF Shows, Quiet, DState, OnScreen, bytesPerScreen

\* The prompt for an address.
LEMMA GotoSteps == IInv /\ (CtrlG \/ GotoEnter \/ GotoEscape) => IInv'
<1> SUFFICES ASSUME IInv, phase = "focus" PROVE CtrlG \/ GotoEnter \/ GotoEscape => IInv'
  BY DEF CtrlG, GotoEnter, GotoEscape
<1>1. Shows(d) /\ Shows(Spoilt(d)) /\ Shows(DumpRedrawScreen(d))
  BY InFocus, SpoiltShows, RedrawShows
<1>2. choice \in Fields /\ fields \in [Fields -> Entry] /\ opcode \in 0..511
  BY DEF IInv
<1>3. CtrlG => IInv'
  BY <1>1, <1>2, AskedGood DEF CtrlG
<1>4. ASSUME GotoEnter PROVE IInv'
  <2>1. PICK e \in Entries :
          /\ opcode' = RawSysCall(e, opcode)
          /\ prompt' = IF e.ok THEN "none" ELSE "goto"
          /\ d' = IF e.ok THEN DumpRedrawScreen(DumpSetAddress(d, NumberFromString(e))) ELSE d
    BY <1>4 DEF GotoEnter
  <2>2. e \in Entry
    BY DebugToolAssumption DEF DebugToolAssumption
  <2>3. NumberFromString(e) \in Addresses /\ opcode' \in 0..511
    BY <1>2, <2>1, <2>2, EntryRead
  <2>4. Shows(DumpRedrawScreen(DumpSetAddress(d, NumberFromString(e))))
    BY <1>1, <2>3, JumpShows, RedrawShows
  <2>5. Shows(d')
    BY <1>1, <2>1, <2>4
  <2> QED
    BY <1>2, <1>4, <2>1, <2>3, <2>5, AskedGood DEF GotoEnter
<1>5. GotoEscape => IInv'
  BY <1>1, <1>2, AskedGood DEF GotoEscape
<1> QED
  BY <1>3, <1>4, <1>5

\* The dialog, its fields and the call.
LEMMA DialogSteps ==
  IInv /\ (CtrlI \/ DialogEscape \/ DialogPick \/ FieldDone \/ DialogRefuse \/ DialogCall \/ ResultSeen)
    => IInv'
<1> SUFFICES ASSUME IInv, phase = "focus"
             PROVE  CtrlI \/ DialogEscape \/ DialogPick \/ FieldDone \/ DialogRefuse \/ DialogCall
                    \/ ResultSeen => IInv'
  BY DEF CtrlI, DialogEscape, DialogPick, FieldDone, DialogRefuse, DialogCall, ResultSeen
<1>1. Shows(d) /\ Shows(Spoilt(d)) /\ Shows(DumpRedrawScreen(d))
  BY InFocus, SpoiltShows, RedrawShows
<1>2. /\ choice \in Fields /\ fields \in [Fields -> Entry] /\ opcode \in 0..511
      /\ prompt \in {"none", "goto", "dialog", "field", "result"} /\ 1 \in Fields
  BY DebugToolAssumption DEF IInv, DebugToolAssumption
<1>3. ASSUME CtrlI PROVE IInv'
  <2>1. AllParsed(fields, opcode) \in 0..511
    BY <1>2, AllRead
  <2>2. /\ Shows(d') /\ prompt' \in {"none", "goto", "dialog", "field", "result"} /\ choice' \in Fields
        /\ fields' \in [Fields -> Entry] /\ opcode' \in 0..511 /\ Asking
    BY <1>1, <1>2, <1>3, <2>1 DEF CtrlI
  <2> QED
    BY <2>2, AskedGood
<1>4. DialogEscape \/ ResultSeen => IInv'
  BY <1>1, <1>2, AskedGood DEF DialogEscape, ResultSeen
<1>5. DialogPick => IInv'
  BY <1>1, <1>2, AskedGood DEF DialogPick
<1>6. ASSUME FieldDone PROVE IInv'
  <2>1. PICK e \in Entries \cup {fields[choice], Default(choice)} :
          /\ fields' = [fields EXCEPT ![choice] = e]
          /\ opcode' = AllParsed(fields', RawSysCall(e, opcode))
    BY <1>6 DEF FieldDone
  <2>2. Default(choice) \in Entry
    BY SomeMemory DEF Default, Entry
  <2>3. e \in Entry
    BY <1>2, <2>2, DebugToolAssumption DEF DebugToolAssumption
  <2>4. fields' \in [Fields -> Entry]
    BY <1>2, <2>1, <2>3
  <2>5. opcode' \in 0..511
    BY <1>2, <2>1, <2>3, <2>4, EntryRead, AllRead
  <2> QED
    BY <1>1, <1>2, <1>6, <2>4, <2>5, AskedGood DEF FieldDone
<1>7. DialogRefuse => IInv'
  BY <1>1, <1>2, AskedGood DEF DialogRefuse
<1>8. ASSUME DialogCall PROVE IInv'
  <2>1. PICK new \in [Writable -> Bytes] :
          d' = [d EXCEPT !.mem = [a \in Addresses |-> IF a \in Writable THEN new[a] ELSE d.mem[a]]]
    BY <1>8 DEF DialogCall
  <2> DEFINE mem == [a \in Addresses |-> IF a \in Writable THEN new[a] ELSE d.mem[a]]
  <2>2. mem \in [Addresses -> Bytes]
    BY <1>1 DEF Shows, Quiet, DState
  <2>3. d' = [d EXCEPT !.mem = mem]
    BY <2>1
  <2> HIDE DEF mem
  <2>4. Shows(d')
    BY <1>1, <2>2, <2>3, StoredShows
  <2> QED
    BY <1>2, <1>8, <2>4, AskedGood DEF DialogCall
<1> QED
  BY <1>3, <1>4, <1>5, <1>6, <1>7, <1>8

LEMMA NextInv == IInv /\ [Next]_vars => IInv'
<1>1. IInv /\ UNCHANGED vars => IInv'
  BY DEF IInv, vars, RowsNow, OnScreen, bytesPerScreen
<1>2. CharTab \/ KeyLeft \/ KeyRight \/ KeyUp \/ KeyDown \/ KeyHome \/ KeyEnd \/ CtrlHome \/ CtrlEnd
        \/ CharHighNibble \/ CharLowNibble \/ CharText \/ CtrlUp \/ CtrlDown
        \/ KeyBackspace \/ CtrlShiftG \/ CtrlR \/ KeyClearFile => phase = "focus"
  BY DEF CharTab, KeyLeft, KeyRight, KeyUp, KeyDown, KeyHome, KeyEnd, CtrlHome, CtrlEnd, CharHighNibble,
         CharLowNibble, CharText, CtrlUp, CtrlDown, KeyBackspace, CtrlShiftG, CtrlR, KeyClearFile, Handled
<1> QED
  BY <1>1, <1>2, SetFocusStep, PhaseStep, TypingSteps, CursorSteps, ScrollSteps, JumpSteps,
     GotoSteps, DialogSteps, Zenon DEF Next

LEMMA Invariance == Spec => []IInv
BY InitInv, NextInv, PTL DEF Spec

-----------------------------------------------------------------------------
(* The theorems.                                                           *)

(***************************************************************************)
(* The globals keep their types (DebugTool.c lines 28-39): the window      *)
(* starts inside the address space however it scrolls and wherever a typed *)
(* address, a pointer in memory or Backspace leads, and the offset of the  *)
(* selected byte is below 64, for every memory, font and input.            *)
(***************************************************************************)
THEOREM TypeCorrect == Spec => []TypeOK
<1>1. IInv => TypeOK
  <2> SUFFICES ASSUME IInv PROVE TypeOK
    OBVIOUS
  <2>1. Quiet(d) /\ d \in DState
    BY DEF IInv, Quiet
  <2>2. d.rows \in 0..8 /\ (d.cursor = 0 \/ d.cursor \in 0..(8 * d.rows - 1))
    BY <2>1 DEF IInv, DState, OnScreen, bytesPerScreen, BYTES_PER_ROW
  <2>3. d.cursor \in 0..63
    BY <2>2
  <2> QED
    BY <2>1, <2>3 DEF IInv, TypeOK, DState, Tops, Vectors
<1> QED
  BY <1>1, Invariance, PTL

(***************************************************************************)
(* The selected byte is always on the screen: no key, prompt, change of    *)
(* font or of the application leads out of it (DebugTool.c lines 138-151   *)
(* and 261-265).  With the system font the cursor stays within four rows,  *)
(* and rows are never taken away because a terminal font, once found, is   *)
(* kept.                                                                   *)
(***************************************************************************)
THEOREM CursorStaysOnScreen == Spec => []CursorOnScreen
<1>1. IInv => CursorOnScreen
  BY InFocus DEF CursorOnScreen, Shows, OnScreen, bytesPerScreen, BYTES_PER_ROW
<1> QED
  BY <1>1, Invariance, PTL

(***************************************************************************)
(* Whatever addresses fault, no access outside the device's memory meets   *)
(* the system's handler, and that handler is in place again after every    *)
(* message (DebugTool.c lines 48-55 and the functions that use them).      *)
(***************************************************************************)
THEOREM FaultsAlwaysContained == Spec => []FaultsContained
<1>1. IInv => FaultsContained
  BY DEF IInv, Quiet, FaultsContained
<1> QED
  BY <1>1, Invariance, PTL

-----------------------------------------------------------------------------
(* What the dump shows.  The addresses of its bytes.                       *)

\* The address of an offset near the window, without a remainder.
LEMMA NearAddress ==
  ASSUME NEW s \in DState, NEW o \in Int, -Size <= 8 * s.top + o, 8 * s.top + o < 2 * Size
  PROVE  AddressOf(s, o) = IF 8 * s.top + o < 0 THEN 8 * s.top + o + Size
                           ELSE IF 8 * s.top + o < Size THEN 8 * s.top + o ELSE 8 * s.top + o - Size
<1> DEFINE n == 8 * s.top + o
<1>1. Size \in Nat \ {0} /\ s.top \in Int /\ n \in Int
  BY SomeMemory DEF DState, Tops
<1>2. AddressOf(s, o) = n % Size
  BY DEF AddressOf, BYTES_PER_ROW
<1>3. -Size <= n /\ n < 2 * Size
  OBVIOUS
<1> HIDE DEF n
<1>4. n % Size = IF n < 0 THEN n + Size ELSE IF n < Size THEN n ELSE n - Size
  BY <1>1, <1>3, WrapAround
<1> QED
  BY <1>1, <1>2, <1>4 DEF n

\* The dump's bytes are those at different addresses.
LEMMA DistinctCells ==
  ASSUME NEW s \in DState, s.rows <= Lines, NEW i \in Screen(s), NEW j \in Screen(s),
         AddressOf(s, i) = AddressOf(s, j)
  PROVE  i = j
<1>1. s.rows \in Int /\ s.top \in 0..(Lines - 1)
  BY DEF DState, Tops
<1>2. i \in 0..(8 * s.rows - 1) /\ j \in 0..(8 * s.rows - 1)
  BY DEF Screen, bytesPerScreen, BYTES_PER_ROW
<1>3. Size = 8 * Lines /\ Lines \in Nat
  BY SomeMemory
<1> QED
  BY <1>1, <1>2, <1>3, NearAddress

-----------------------------------------------------------------------------
(* What the functions of DebugTool.c leave, field by field.                *)

Picture(s) == [top |-> s.top, bytes |-> [i \in Screen(s) |-> Read(s, AddressOf(s, i))]]

\* Under the system's vector a redraw shows the memory, and nothing else changes.
LEMMA RedrawIs ==
  ASSUME NEW s, Quiet(s)
  PROVE  DumpRedrawScreen(s)
           = [s EXCEPT !.saved = "system", !.shown = Picture(s), !.caret = Place(s.cursor, s.mode)]
<1> DEFINE set == {AddressOf(s, i) : i \in Screen(s)}
           f == Touched(InstallBusErrorHandler(s), set)
           new == Picture(s)
           back == UninstallBusErrorHandler([f EXCEPT !.shown = new])
<1>1. f = [s EXCEPT !.saved = "system", !.vector = "applet"]
  BY FetchedQuietly
<1>2. DumpRedrawScreen(s) = DumpSetCursorCur(back)
  BY DEF DumpRedrawScreen, Picture
<1> HIDE DEF f, new
<1>3. back = [s EXCEPT !.saved = "system", !.shown = new]
  BY <1>1 DEF UninstallBusErrorHandler, Quiet, DState
<1>4. DumpSetCursorCur(back) = [s EXCEPT !.saved = "system", !.shown = new, !.caret = Place(s.cursor, s.mode)]
  BY <1>3 DEF DumpSetCursorCur, Quiet, DState
<1> QED
  BY <1>2, <1>4 DEF new

\* The byte at a after a write that is or is not masked.
Stored(s, a, new, masked) ==
  IF a \in Writable /\ (masked => a \in Readable) THEN [s.mem EXCEPT ![a] = new] ELSE s.mem

Fetched(mem, a) == IF a \in Readable THEN mem[a] ELSE Error

Wrote(s, mem) ==
  [s EXCEPT !.saved = "system", !.mem = mem,
            !.shown = [s.shown EXCEPT !.bytes = [s.shown.bytes EXCEPT ![s.cursor] = Fetched(mem, Selected(s))]],
            !.caret = [s.caret EXCEPT !.on = FALSE]]

LEMMA WriteIs ==
  ASSUME NEW s, Quiet(s), NEW new \in Bytes, NEW masked \in BOOLEAN
  PROVE  DumpWriteAndRedrawCur(s, new, masked) = Wrote(s, Stored(s, Selected(s), new, masked))
<1> DEFINE a == Selected(s)
           f == Touched(InstallBusErrorHandler(s), {a})
           mem == Stored(s, a, new, masked)
           written == [f EXCEPT !.mem = IF a \in Writable /\ (masked => a \in Readable)
                                        THEN [@ EXCEPT ![a] = new] ELSE @]
           again == UninstallBusErrorHandler(Touched(written, {a}))
           b == [again.shown.bytes EXCEPT ![s.cursor] = Read(again, a)]
<1>1. f = [s EXCEPT !.saved = "system", !.vector = "applet"]
  BY FetchedQuietly
<1>2. DumpWriteAndRedrawCur(s, new, masked)
        = [again EXCEPT !.shown.bytes[s.cursor] = Read(again, a), !.caret.on = FALSE]
  BY DEF DumpWriteAndRedrawCur
<1>3. a \in Addresses
  BY SelectedIsAddress DEF Quiet
<1> HIDE DEF f, a
<1>4. written = [s EXCEPT !.saved = "system", !.vector = "applet", !.mem = mem]
  BY <1>1 DEF Stored, Quiet, DState
<1>5. mem \in [Addresses -> Bytes]
  BY <1>3 DEF Stored, Quiet, DState
<1> HIDE DEF written, mem
<1>6. written \in DState /\ written.vector = "applet" /\ ~written.trapped
  BY <1>4, <1>5 DEF Quiet, DState, Vectors
<1>7. again = UninstallBusErrorHandler(written)
  BY <1>6, TouchedUnder
<1>8. again = [s EXCEPT !.saved = "system", !.mem = mem]
  BY <1>4, <1>7 DEF UninstallBusErrorHandler, Quiet, DState
<1>9. Read(again, a) = Fetched(mem, a) /\ again.shown = s.shown /\ again.caret = s.caret
  BY <1>8 DEF Read, Fetched, Quiet, DState
<1> HIDE DEF again
<1>10. [again EXCEPT !.shown.bytes[s.cursor] = Read(again, a), !.caret.on = FALSE]
        = [again EXCEPT !.shown = [again.shown EXCEPT !.bytes = b],
                        !.caret = [again.caret EXCEPT !.on = FALSE]]
  OBVIOUS
<1> HIDE DEF b
<1>11. b = [s.shown.bytes EXCEPT ![s.cursor] = Fetched(mem, a)]
  BY <1>9 DEF b
<1> QED
  BY <1>2, <1>8, <1>9, <1>10, <1>11 DEF a, mem, Wrote

\* The window after a move of the cursor: it follows by one row.
Followed(s, c) ==
  IF c < 0 THEN [s EXCEPT !.top = (@ - 1) % Lines, !.cursor = c + BYTES_PER_ROW]
  ELSE IF c >= bytesPerScreen(s) THEN [s EXCEPT !.top = (@ + 1) % Lines, !.cursor = c - BYTES_PER_ROW]
  ELSE [s EXCEPT !.cursor = c]

LEMMA FollowedGood ==
  ASSUME NEW s, Quiet(s), NEW c \in Int
  PROVE  Quiet(Followed(s, c)) /\ Followed(s, c).rows = s.rows
<1>1. (s.top - 1) % Lines \in Tops /\ (s.top + 1) % Lines \in Tops
  <2>1. Lines \in Nat \ {0} /\ s.top - 1 \in Int /\ s.top + 1 \in Int
    BY SomeMemory DEF Quiet, DState, Tops
  <2> QED
    BY <2>1, Division DEF Tops
<1>2. c + BYTES_PER_ROW \in Int /\ c - BYTES_PER_ROW \in Int
  BY DEF BYTES_PER_ROW
<1>3. \/ Followed(s, c) = [s EXCEPT !.top = (s.top - 1) % Lines, !.cursor = c + BYTES_PER_ROW]
      \/ Followed(s, c) = [s EXCEPT !.top = (s.top + 1) % Lines, !.cursor = c - BYTES_PER_ROW]
      \/ Followed(s, c) = [s EXCEPT !.cursor = c]
  BY DEF Followed
<1>4. CASE Followed(s, c) = [s EXCEPT !.top = (s.top - 1) % Lines, !.cursor = c + BYTES_PER_ROW]
  <2> DEFINE v == Shifted(s, (s.top - 1) % Lines, c + BYTES_PER_ROW)
  <2>1. Quiet(v) /\ v.rows = s.rows
    BY <1>1, <1>2, MovedQuietly
  <2>2. Followed(s, c) = v
    BY <1>4 DEF Shifted
  <2> HIDE DEF v
  <2> QED
    BY <2>1, <2>2
<1>5. CASE Followed(s, c) = [s EXCEPT !.top = (s.top + 1) % Lines, !.cursor = c - BYTES_PER_ROW]
  <2> DEFINE v == Shifted(s, (s.top + 1) % Lines, c - BYTES_PER_ROW)
  <2>1. Quiet(v) /\ v.rows = s.rows
    BY <1>1, <1>2, MovedQuietly
  <2>2. Followed(s, c) = v
    BY <1>5 DEF Shifted
  <2> HIDE DEF v
  <2> QED
    BY <2>1, <2>2
<1>6. CASE Followed(s, c) = [s EXCEPT !.cursor = c]
  BY <1>6 DEF Quiet, DState
<1> QED
  BY <1>3, <1>4, <1>5, <1>6

\* A moved cursor is drawn, on a new picture when the window had to follow.
LEMMA MoveIs ==
  ASSUME NEW s, Quiet(s), NEW c \in Int
  PROVE  DumpMoveCursor(s, c)
           = IF c < 0 \/ c >= bytesPerScreen(s) THEN DumpRedrawScreen(Followed(s, c))
                                                ELSE DumpSetCursorCur(Followed(s, c))
BY DEF DumpMoveCursor, Followed

-----------------------------------------------------------------------------
(* The picture on the LCD.                                                 *)

\* What ShowsMemory asks of a state in which a key may come.
InSync(s) == s.shown = Picture(s) /\ s.caret = Place(s.cursor, s.mode)

\* The picture is that of window, rows and memory.
LEMMA SamePicture ==
  ASSUME NEW s, NEW v, v.top = s.top, v.rows = s.rows, v.mem = s.mem
  PROVE  Picture(v) = Picture(s)
BY DEF Picture, Screen, bytesPerScreen, AddressOf, Read

LEMMA RedrawSync ==
  ASSUME NEW s, Quiet(s)
  PROVE  InSync(DumpRedrawScreen(s))
<1> DEFINE v == [s EXCEPT !.saved = "system", !.shown = Picture(s), !.caret = Place(s.cursor, s.mode)]
<1>1. DumpRedrawScreen(s) = v
  BY RedrawIs
<1>2. v.top = s.top /\ v.rows = s.rows /\ v.mem = s.mem /\ v.cursor = s.cursor /\ v.mode = s.mode
      /\ v.shown = Picture(s) /\ v.caret = Place(s.cursor, s.mode)
  BY DEF Quiet, DState
<1> HIDE DEF v
<1> QED
  BY <1>1, <1>2, SamePicture DEF InSync

LEMMA CaretSync ==
  ASSUME NEW s, Quiet(s), s.shown = Picture(s)
  PROVE  InSync(DumpSetCursorCur(s))
<1> DEFINE v == DumpSetCursorCur(s)
<1>1. v.top = s.top /\ v.rows = s.rows /\ v.mem = s.mem /\ v.cursor = s.cursor /\ v.mode = s.mode
      /\ v.shown = s.shown /\ v.caret = Place(s.cursor, s.mode)
  BY DEF DumpSetCursorCur, Quiet, DState
<1> HIDE DEF v
<1> QED
  BY <1>1, SamePicture DEF InSync, v

LEMMA MoveSync ==
  ASSUME NEW s, Quiet(s), s.shown = Picture(s), NEW c \in Int
  PROVE  InSync(DumpMoveCursor(s, c))
<1> DEFINE v == Followed(s, c)
<1>1. Quiet(v)
  BY FollowedGood
<1>2. CASE c < 0 \/ c >= bytesPerScreen(s)
  BY <1>1, <1>2, MoveIs, RedrawSync
<1>3. CASE ~(c < 0 \/ c >= bytesPerScreen(s))
  <2>1. v = [s EXCEPT !.cursor = c]
    BY <1>3 DEF Followed
  <2>2. v.top = s.top /\ v.rows = s.rows /\ v.mem = s.mem /\ v.shown = s.shown
    BY <2>1 DEF Quiet, DState
  <2> HIDE DEF v
  <2>3. v.shown = Picture(v)
    BY <2>2, SamePicture
  <2> QED
    BY <1>1, <1>3, <2>3, MoveIs, CaretSync DEF v
<1> QED
  BY <1>2, <1>3

\* The one byte that is drawn after a write is the only one that changed.
LEMMA WriteSync ==
  ASSUME NEW s, Quiet(s), s.shown = Picture(s), OnScreen(s), s.rows <= Lines,
         NEW new \in Bytes, NEW masked \in BOOLEAN
  PROVE  LET w == DumpWriteAndRedrawCur(s, new, masked) IN w.shown = Picture(w)
<1> DEFINE w == DumpWriteAndRedrawCur(s, new, masked)
           a == Selected(s)
           mem == Stored(s, a, new, masked)
           was == [i \in Screen(s) |-> Read(s, AddressOf(s, i))]
           now == [i \in Screen(s) |-> Fetched(mem, AddressOf(s, i))]
<1>1. w = Wrote(s, mem)
  BY WriteIs, Zenon
<1>2. s.cursor \in Screen(s) /\ a = AddressOf(s, s.cursor) /\ s \in DState
  BY DEF OnScreen, Screen, Selected, Quiet
<1>3. s.shown = [top |-> s.top, bytes |-> was]
  BY DEF Picture
<1>4. ASSUME NEW i \in Screen(s), i # s.cursor
      PROVE  Fetched(mem, AddressOf(s, i)) = Read(s, AddressOf(s, i))
  <2>1. AddressOf(s, i) # a
    BY <1>2, <1>4, DistinctCells
  <2>2. mem[AddressOf(s, i)] = s.mem[AddressOf(s, i)]
    BY <2>1 DEF Stored, Quiet, DState
  <2> QED
    BY <2>2 DEF Fetched, Read
<1>5. now = [was EXCEPT ![s.cursor] = Fetched(mem, a)]
  BY <1>2, <1>4
<1>6. w.shown = [s.shown EXCEPT !.bytes = [s.shown.bytes EXCEPT ![s.cursor] = Fetched(mem, a)]]
      /\ w.top = s.top /\ w.rows = s.rows /\ w.mem = mem
  BY <1>1 DEF Wrote, Quiet, DState
<1>7. Picture(w) = [top |-> s.top, bytes |-> now]
  <2> HIDE DEF w, mem
  <2>1. Screen(w) = Screen(s) /\ \A i : AddressOf(w, i) = AddressOf(s, i) /\ Read(w, i) = Fetched(mem, i)
    BY <1>6 DEF Screen, bytesPerScreen, AddressOf, Read, Fetched
  <2> QED
    BY <1>6, <2>1 DEF Picture
<1> HIDE DEF w, was, now
<1>8. w.shown = [top |-> s.top, bytes |-> [was EXCEPT ![s.cursor] = Fetched(mem, a)]]
  BY <1>3, <1>6
<1> QED
  BY <1>5, <1>7, <1>8 DEF w

Sync == phase = "focus" /\ prompt = "none" => InSync(d)

\* A key finds a picture in step, and a cursor in a window no larger than the memory.
LEMMA KeyFinds ==
  ASSUME IInv, Sync, phase = "focus", prompt = "none"
  PROVE  Quiet(d) /\ d \in DState /\ OnScreen(d) /\ d.shown = Picture(d) /\ d.rows \in 1..8 /\ d.rows <= Lines
         /\ d.cursor \in Int
BY InFocus, DebugToolAssumption DEF DebugToolAssumption, Shows, RowsNow, Quiet, Sync, InSync

\* Typing: the byte is drawn again, then the cursor.
LEMMA TypingSync ==
  IInv /\ Sync /\ (CharHighNibble \/ CharLowNibble \/ CharText) => Sync'
<1> SUFFICES ASSUME IInv, Sync, phase = "focus", prompt = "none"
             PROVE  CharHighNibble \/ CharLowNibble \/ CharText => InSync(d')
  BY DEF CharHighNibble, CharLowNibble, CharText, Handled, Sync
<1> DEFINE b == d.mem[Selected(d)]
<1>1. /\ Quiet(d) /\ OnScreen(d) /\ d.shown = Picture(d) /\ d.rows <= Lines
      /\ d.cursor + 1 \in Int /\ Shows(d)
  BY KeyFinds, InFocus
<1>2. \A n \in Nibbles : <<n, b[2]>> \in Bytes /\ <<b[1], n>> \in Bytes
  BY <1>1, SelectedIsAddress, Digits DEF Quiet, DState
<1>3. ASSUME NEW new \in Bytes, NEW masked \in BOOLEAN, NEW m \in Modes
      PROVE  LET w == DumpWriteAndRedrawCur(d, new, masked)
             IN  /\ InSync(DumpSetCursorCur([w EXCEPT !.mode = m]))
                 /\ InSync(DumpMoveCursor([w EXCEPT !.mode = m], d.cursor + 1))
                 /\ InSync(DumpMoveCursor(w, d.cursor + 1))
  <2> DEFINE w == DumpWriteAndRedrawCur(d, new, masked)
             v == [w EXCEPT !.mode = m]
  <2>1. Quiet(w) /\ w.shown = Picture(w)
    BY <1>1, WriteGood, WriteSync
  <2> HIDE DEF w
  <2>2. Quiet(v) /\ v.shown = w.shown /\ v.top = w.top /\ v.rows = w.rows /\ v.mem = w.mem
    BY <2>1 DEF Quiet, DState
  <2> HIDE DEF v
  <2>3. v.shown = Picture(v)
    BY <2>1, <2>2, SamePicture
  <2>4. InSync(DumpSetCursorCur(v)) /\ InSync(DumpMoveCursor(v, d.cursor + 1)) /\ InSync(DumpMoveCursor(w, d.cursor + 1))
    BY <1>1, <2>1, <2>2, <2>3, CaretSync, MoveSync
  <2> QED
    BY <2>4 DEF w, v
<1>4. MODE_NIBBLE_HI \in Modes /\ MODE_NIBBLE_LO \in Modes
  BY DEF Modes
<1>5. ASSUME CharHighNibble PROVE InSync(d')
  <2>1. PICK n \in Nibbles :
          d' = DumpSetCursorCur([DumpWriteAndRedrawCur(d, <<n, b[2]>>, TRUE) EXCEPT !.mode = MODE_NIBBLE_LO])
    BY <1>5 DEF CharHighNibble, Handled
  <2> DEFINE new == <<n, b[2]>>
  <2>2. new \in Bytes
    BY <1>2
  <2>3. d' = DumpSetCursorCur([DumpWriteAndRedrawCur(d, new, TRUE) EXCEPT !.mode = MODE_NIBBLE_LO])
    BY <2>1
  <2> HIDE DEF new
  <2> QED
    BY <1>3, <1>4, <2>2, <2>3
<1>6. ASSUME CharLowNibble PROVE InSync(d')
  <2>1. PICK n \in Nibbles :
          d' = DumpMoveCursor([DumpWriteAndRedrawCur(d, <<b[1], n>>, TRUE) EXCEPT !.mode = MODE_NIBBLE_HI], d.cursor + 1)
    BY <1>6 DEF CharLowNibble, Handled
  <2> DEFINE new == <<b[1], n>>
  <2>2. new \in Bytes
    BY <1>2
  <2>3. d' = DumpMoveCursor([DumpWriteAndRedrawCur(d, new, TRUE) EXCEPT !.mode = MODE_NIBBLE_HI], d.cursor + 1)
    BY <2>1
  <2> HIDE DEF new
  <2> QED
    BY <1>3, <1>4, <2>2, <2>3
<1>7. ASSUME CharText PROVE InSync(d')
  <2>1. PICK new \in Bytes : d' = DumpMoveCursor(DumpWriteAndRedrawCur(d, new, FALSE), d.cursor + 1)
    BY <1>7 DEF CharText, Handled
  <2> QED
    BY <1>3, <1>4, <2>1
<1> QED
  BY <1>5, <1>6, <1>7

\* Keys that move the cursor.
LEMMA CursorSync ==
  IInv /\ Sync /\ (CharTab \/ KeyLeft \/ KeyRight \/ KeyUp \/ KeyDown \/ KeyHome \/ KeyEnd \/ CtrlHome \/ CtrlEnd)
    => Sync'
<1> SUFFICES ASSUME IInv, Sync, phase = "focus", prompt = "none"
             PROVE  CharTab \/ KeyLeft \/ KeyRight \/ KeyUp \/ KeyDown
                    \/ KeyHome \/ KeyEnd \/ CtrlHome \/ CtrlEnd => InSync(d')
  BY DEF CharTab, KeyLeft, KeyRight, KeyUp, KeyDown, KeyHome, KeyEnd, CtrlHome, CtrlEnd, Handled, Sync
<1> DEFINE toggled == IF d.mode = MODE_ASCII THEN MODE_NIBBLE_HI ELSE MODE_ASCII
           back    == IF d.mode = MODE_NIBBLE_HI THEN MODE_NIBBLE_LO ELSE d.mode
           on      == IF d.mode = MODE_NIBBLE_LO THEN MODE_NIBBLE_HI ELSE d.mode
<1>1. Quiet(d) /\ d \in DState /\ d.shown = Picture(d) /\ d.cursor \in Int /\ d.rows \in Int
  BY KeyFinds
<1>2. /\ d.cursor - 1 \in Int /\ d.cursor + 1 \in Int
      /\ d.cursor - BYTES_PER_ROW \in Int /\ d.cursor + BYTES_PER_ROW \in Int
  BY <1>1 DEF BYTES_PER_ROW
<1>3. \A unit \in {BYTES_PER_ROW, bytesPerScreen(d)} : FirstOf(d.cursor, unit) \in Int /\ LastOf(d.cursor, unit) \in Int
  BY EndsNear
<1>4. toggled \in Modes /\ back \in Modes /\ on \in Modes /\ MODE_NIBBLE_HI \in Modes /\ MODE_NIBBLE_LO \in Modes
  BY <1>1 DEF DState, Modes
<1>5. ASSUME NEW m \in Modes, NEW c \in Int
      PROVE  /\ InSync(DumpSetCursorCur([d EXCEPT !.mode = m])) /\ InSync(DumpMoveCursor([d EXCEPT !.mode = m], c))
             /\ InSync(DumpMoveCursor(d, c))
  <2> DEFINE v == [d EXCEPT !.mode = m]
  <2>1. Quiet(v) /\ v.shown = d.shown /\ v.top = d.top /\ v.rows = d.rows /\ v.mem = d.mem
    BY <1>1 DEF Quiet, DState
  <2> HIDE DEF v
  <2>2. v.shown = Picture(v)
    BY <1>1, <2>1, SamePicture
  <2>3. InSync(DumpSetCursorCur(v)) /\ InSync(DumpMoveCursor(v, c)) /\ InSync(DumpMoveCursor(d, c))
    BY <1>1, <2>1, <2>2, CaretSync, MoveSync
  <2> QED
    BY <2>3 DEF v
<1>6. CharTab => d' = DumpSetCursorCur([d EXCEPT !.mode = toggled])
  BY DEF CharTab, Handled
<1>7. KeyLeft => \/ d' = DumpSetCursorCur([d EXCEPT !.mode = MODE_NIBBLE_HI])
                 \/ d' = DumpMoveCursor([d EXCEPT !.mode = back], d.cursor - 1)
  BY DEF KeyLeft, Handled
<1>8. KeyRight => \/ d' = DumpSetCursorCur([d EXCEPT !.mode = MODE_NIBBLE_LO])
                  \/ d' = DumpMoveCursor([d EXCEPT !.mode = on], d.cursor + 1)
  BY DEF KeyRight, Handled
<1>9. KeyUp \/ KeyDown \/ KeyHome \/ KeyEnd \/ CtrlHome \/ CtrlEnd => \E c \in Int : d' = DumpMoveCursor(d, c)
  BY <1>2, <1>3 DEF KeyUp, KeyDown, KeyHome, KeyEnd, CtrlHome, CtrlEnd, Handled
<1> HIDE DEF toggled, back, on
<1> QED
  BY <1>2, <1>4, <1>5, <1>6, <1>7, <1>8, <1>9

\* Keys and messages that draw the whole dump.
LEMMA RedrawnSync ==
  IInv /\ Sync /\ (MsgSetFocus \/ CtrlUp \/ CtrlDown \/ KeyBackspace \/ CtrlShiftG \/ CtrlR \/ KeyClearFile) => Sync'
<1> SUFFICES ASSUME IInv PROVE MsgSetFocus \/ CtrlUp \/ CtrlDown \/ KeyBackspace \/ CtrlShiftG \/ CtrlR \/ KeyClearFile
                               => InSync(d')
  BY DEF Sync
<1>1. Quiet(d) /\ d \in DState
  BY DEF IInv, Quiet
<1>2. MsgSetFocus => InSync(d')
  <2>1. SystemRows \in 0..8 /\ TerminalRows \in 0..8
    BY SomeRows
  <2>2. \A n \in 0..8 : Quiet([d EXCEPT !.rows = n])
    BY <1>1 DEF Quiet, DState
  <2> QED
    BY <2>1, <2>2, RedrawSync DEF MsgSetFocus
<1>3. CtrlUp \/ CtrlDown => InSync(d')
  <2>1. Lines \in Nat \ {0} /\ d.top - d.rows \in Int /\ d.top + d.rows \in Int
    BY <1>1, SomeMemory DEF DState, Tops
  <2>2. (d.top - d.rows) % Lines \in Tops /\ (d.top + d.rows) % Lines \in Tops
    BY <2>1, Division DEF Tops
  <2>3. \A t \in Tops : Quiet([d EXCEPT !.top = t])
    BY <1>1 DEF Quiet, DState
  <2> QED
    BY <2>2, <2>3, RedrawSync DEF CtrlUp, CtrlDown, Handled
<1>4. ASSUME NEW s, Quiet(s), s.rows >= 1, NEW a \in Addresses PROVE InSync(DumpRedrawScreen(DumpSetAddress(s, a)))
  BY <1>4, SetAddressGood, RedrawSync
<1>5. phase = "focus" => d.rows >= 1
  BY InFocus
<1>6. KeyBackspace => InSync(d')
  BY <1>1, <1>4, <1>5 DEF KeyBackspace, Handled, DState
<1>7. CtrlShiftG => InSync(d')
  <2> DEFINE long    == {(Selected(d) + k) % Size : k \in 0..3}
             touched == Touched(InstallBusErrorHandler(d), long)
             fetched == UninstallBusErrorHandler(touched)
  <2>1. touched = [d EXCEPT !.saved = "system", !.vector = "applet"]
    BY <1>1, FetchedQuietly
  <2>2. CtrlShiftG => \/ Handled(DumpRedrawScreen(DumpSetAddress(fetched, Pointer(d))))
                     \/ Handled(DumpRedrawScreen(fetched))
    BY DEF CtrlShiftG
  <2> HIDE DEF long, touched
  <2>3. Quiet(fetched) /\ fetched.rows = d.rows
    BY <1>1, <2>1 DEF UninstallBusErrorHandler, Quiet, DState, Vectors
  <2> HIDE DEF fetched
  <2> QED
    BY <1>1, <1>4, <1>5, <2>2, <2>3, PointerIsAddress, RedrawSync DEF Handled
<1>8. CtrlR => InSync(d')
  BY <1>1, RedrawSync DEF CtrlR, Handled
<1>9. KeyClearFile => InSync(d')
  <2> DEFINE mem == [a \in Addresses |-> IF a \in Scratch THEN <<0, 0>> ELSE d.mem[a]]
  <2>1. mem \in [Addresses -> Bytes]
    BY <1>1, DebugToolAssumption DEF DebugToolAssumption, DState, Bytes
  <2>2. KeyClearFile => d' = DumpRedrawScreen([d EXCEPT !.mem = mem])
    BY DEF KeyClearFile, Handled
  <2> HIDE DEF mem
  <2>3. Quiet([d EXCEPT !.mem = mem])
    BY <1>1, <2>1 DEF Quiet, DState
  <2> QED
    BY <2>2, <2>3, RedrawSync
<1> QED
  BY <1>2, <1>3, <1>6, <1>7, <1>8, <1>9

\* A prompt goes away with a redraw, whatever was drawn over the dump or changed in memory.
LEMMA PromptSync ==
  IInv /\ Sync /\ (CtrlG \/ GotoEnter \/ GotoEscape \/ CtrlI \/ DialogEscape \/ DialogPick \/ FieldDone
                   \/ DialogRefuse \/ DialogCall \/ ResultSeen) => Sync'
<1> SUFFICES ASSUME IInv
             PROVE  CtrlG \/ GotoEnter \/ GotoEscape \/ CtrlI \/ DialogEscape \/ DialogPick \/ FieldDone
                    \/ DialogRefuse \/ DialogCall \/ ResultSeen => prompt' # "none" \/ InSync(d')
  BY DEF Sync
<1>1. Quiet(d) /\ InSync(DumpRedrawScreen(d))
  BY RedrawSync DEF IInv
<1>2. ASSUME GotoEnter PROVE prompt' # "none" \/ InSync(d')
  <2>1. PICK e \in Entries :
          /\ prompt' = IF e.ok THEN "none" ELSE "goto"
          /\ d' = IF e.ok THEN DumpRedrawScreen(DumpSetAddress(d, NumberFromString(e))) ELSE d
    BY <1>2 DEF GotoEnter
  <2>2. NumberFromString(e) \in Addresses
    BY DebugToolAssumption DEF DebugToolAssumption, Entry, NumberFromString
  <2>3. d.rows >= 1
    BY <1>2, InFocus DEF GotoEnter
  <2> QED
    BY <1>1, <2>1, <2>2, <2>3, SetAddressGood, RedrawSync
<1> QED
  BY <1>1, <1>2 DEF CtrlG, GotoEscape, CtrlI, DialogEscape, DialogPick, FieldDone, DialogRefuse, DialogCall, ResultSeen

LEMMA SyncStep == IInv /\ Sync /\ [Next]_vars => Sync'
<1>1. Sync /\ UNCHANGED vars => Sync'
  BY DEF Sync, vars
<1>2. Sync /\ (MsgInit \/ MsgKillFocus) => Sync'
  BY DEF Sync, MsgInit, MsgKillFocus
<1> QED
  BY <1>1, <1>2, TypingSync, CursorSync, RedrawnSync, PromptSync, Zenon DEF Next

(***************************************************************************)
(* Whenever a key may come, the dump shows the memory at the address it    *)
(* claims and the caret is on the digit or character that the key changes, *)
(* for every memory, set of faulting addresses and pair of fonts: typing   *)
(* draws one byte again, and no other offset of the window has its address *)
(* because a window is never larger than the memory (DebugTool.c lines     *)
(* 85-113), everything else that changes window or memory draws them all.  *)
(***************************************************************************)
THEOREM DumpAlwaysShowsMemory == Spec => []ShowsMemory
<1>1. Init => Sync
  BY DEF Init, Sync
<1>2. IInv /\ Sync => ShowsMemory
  <2> SUFFICES ASSUME IInv, Sync, phase = "focus", prompt = "none" PROVE ShowsMemory
    BY DEF ShowsMemory
  <2>1. d.shown = Picture(d) /\ d.caret = Place(d.cursor, d.mode)
    BY DEF Sync, InSync
  <2> QED
    BY <2>1 DEF ShowsMemory, Picture
<1> QED
  BY <1>1, <1>2, SyncStep, Invariance, PTL DEF Spec

-----------------------------------------------------------------------------
(* The editor on memory.  The address under the caret, through window and  *)
(* cursor.                                                                 *)

\* Where the caret is, seen through window and cursor.
At(top, c) == (8 * top + c) % Size

LEMMA SelectedAt ==
  ASSUME NEW s
  PROVE  Selected(s) = At(s.top, s.cursor)
BY DEF Selected, AddressOf, At, BYTES_PER_ROW

\* The circle of addresses has a whole number of rows.
LEMMA Circle == Size \in Nat \ {0} /\ Size = 8 * Lines /\ Lines \in Nat \ {0}
BY SomeMemory

\* An offset added before or after going around the circle.
LEMMA Around ==
  ASSUME NEW n \in Int, NEW by \in Int
  PROVE  ((n % Size) + by) % Size = (n + by) % Size
<1> DEFINE q == n \div Size
           r == n % Size
<1>1. r \in 0..(Size - 1) /\ q \in Int /\ n = Size * q + r
  BY Circle, Division
<1> HIDE DEF q, r
<1>2. n + by = (r + by) + q * Size /\ r + by \in Int
  BY <1>1, Circle
<1>3. ((r + by) + q * Size) % Size = (r + by) % Size
  BY <1>1, <1>2, Circle, WholeTurns
<1> QED
  BY <1>2, <1>3 DEF r

\* A window some rows away, with the cursor as far the other way, selects the same byte.
LEMMA WindowSlides ==
  ASSUME NEW top \in Tops, NEW k \in Int, NEW c \in Int
  PROVE  At((top + k) % Lines, c) = At(top, c + 8 * k)
<1> DEFINE n == top + k
           q == n \div Lines
           t == n % Lines
<1>1. top \in Int /\ n \in Int
  BY Circle DEF Tops
<1>2. t \in 0..(Lines - 1) /\ q \in Int /\ n = Lines * q + t
  BY <1>1, Circle, Division
<1> HIDE DEF q, t
<1>3. 8 * top + (c + 8 * k) = (8 * t + c) + q * Size /\ 8 * t + c \in Int
  BY <1>1, <1>2, Circle
<1>4. ((8 * t + c) + q * Size) % Size = (8 * t + c) % Size
  BY <1>2, <1>3, Circle, WholeTurns
<1> QED
  BY <1>3, <1>4 DEF At, t

-----------------------------------------------------------------------------
(* The functions as the abstract editor sees them: the address under the   *)
(* caret, the mode, the address to go back to and the memory.              *)

View(s) == <<Selected(s), s.mode, s.prev, s.mem>>

LEMMA DrawnView ==
  ASSUME NEW s, Quiet(s)
  PROVE  View(DumpRedrawScreen(s)) = View(s) /\ View(DumpSetCursorCur(s)) = View(s)
<1> DEFINE v == DumpRedrawScreen(s)
           w == DumpSetCursorCur(s)
<1>1. v.top = s.top /\ v.cursor = s.cursor /\ v.mode = s.mode /\ v.prev = s.prev /\ v.mem = s.mem
  <2>1. v = [s EXCEPT !.saved = "system", !.shown = Picture(s), !.caret = Place(s.cursor, s.mode)]
    BY RedrawIs
  <2> HIDE DEF v
  <2> QED
    BY <2>1 DEF Quiet, DState
<1>2. w.top = s.top /\ w.cursor = s.cursor /\ w.mode = s.mode /\ w.prev = s.prev /\ w.mem = s.mem
  BY DEF DumpSetCursorCur, Quiet, DState
<1> HIDE DEF v, w
<1> QED
  BY <1>1, <1>2, SelectedAt DEF View, v, w

LEMMA MovedView ==
  ASSUME NEW s, Quiet(s), NEW c \in Int
  PROVE  View(DumpMoveCursor(s, c)) = <<(Selected(s) + (c - s.cursor)) % Size, s.mode, s.prev, s.mem>>
<1> DEFINE v == Followed(s, c)
<1>1. s.top \in Tops /\ s.top \in Int /\ s.cursor \in Int
  BY DEF Quiet, DState, Tops
<1>2. /\ v.mode = s.mode /\ v.prev = s.prev /\ v.mem = s.mem
      /\ \/ v.top = (s.top - 1) % Lines /\ v.cursor = c + 8
         \/ v.top = (s.top + 1) % Lines /\ v.cursor = c - 8
         \/ v.top = s.top /\ v.cursor = c
  BY DEF Followed, BYTES_PER_ROW, Quiet, DState
<1> HIDE DEF v
<1>3. At(v.top, v.cursor) = At(s.top, c)
  <2>1. At((s.top + (-1)) % Lines, c + 8) = At(s.top, (c + 8) + 8 * (-1))
    <3>1. c + 8 \in Int
      OBVIOUS
    <3> QED
      BY <1>1, <3>1, WindowSlides
  <2>2. At((s.top + 1) % Lines, c - 8) = At(s.top, (c - 8) + 8 * 1)
    <3>1. c - 8 \in Int
      OBVIOUS
    <3> QED
      BY <1>1, <3>1, WindowSlides
  <2>3. s.top - 1 = s.top + (-1) /\ (c + 8) + 8 * (-1) = c /\ (c - 8) + 8 * 1 = c
    BY <1>1
  <2> QED
    BY <1>2, <2>1, <2>2, <2>3
<1>4. At(s.top, c) = (Selected(s) + (c - s.cursor)) % Size
  <2> DEFINE n == 8 * s.top + s.cursor
             by == c - s.cursor
  <2>1. n \in Int /\ by \in Int /\ 8 * s.top + c = n + by
    BY <1>1
  <2> HIDE DEF n, by
  <2>2. (n + by) % Size = ((n % Size) + by) % Size
    BY <2>1, Around
  <2>3. Selected(s) = n % Size
    BY SelectedAt DEF At, n
  <2> QED
    BY <2>1, <2>2, <2>3 DEF At, by
<1>5. View(v) = <<(Selected(s) + (c - s.cursor)) % Size, s.mode, s.prev, s.mem>>
  BY <1>2, <1>3, <1>4, SelectedAt DEF View
<1>6. DumpMoveCursor(s, c) = DumpRedrawScreen(v) \/ DumpMoveCursor(s, c) = DumpSetCursorCur(v)
  BY MoveIs DEF v
<1>7. Quiet(v)
  BY FollowedGood DEF v
<1> QED
  BY <1>5, <1>6, <1>7, DrawnView

LEMMA WrittenView ==
  ASSUME NEW s, Quiet(s), NEW new \in Bytes, NEW masked \in BOOLEAN
  PROVE  View(DumpWriteAndRedrawCur(s, new, masked))
           = <<Selected(s), s.mode, s.prev, Stored(s, Selected(s), new, masked)>>
<1> DEFINE w == DumpWriteAndRedrawCur(s, new, masked)
           mem == Stored(s, Selected(s), new, masked)
<1>1. w = Wrote(s, mem)
  BY WriteIs, Zenon
<1> HIDE DEF w, mem
<1>2. w.top = s.top /\ w.cursor = s.cursor /\ w.mode = s.mode /\ w.prev = s.prev /\ w.mem = mem
  BY <1>1 DEF Wrote, Quiet, DState
<1> QED
  BY <1>2, SelectedAt DEF View, w, mem

LEMMA JumpedView ==
  ASSUME NEW s, Quiet(s), NEW a \in Addresses
  PROVE  View(DumpSetAddress(s, a))
           = <<a, IF s.mode = MODE_NIBBLE_LO THEN MODE_NIBBLE_HI ELSE s.mode, Selected(s), s.mem>>
<1> DEFINE v == DumpSetAddress(s, a)
<1>1. v.top = a \div 8 /\ v.cursor = a % 8 /\ v.prev = Selected(s) /\ v.mem = s.mem
      /\ v.mode = IF s.mode = MODE_NIBBLE_LO THEN MODE_NIBBLE_HI ELSE s.mode
  BY DEF DumpSetAddress, BYTES_PER_ROW, Quiet, DState
<1>2. a \in Int /\ 0 <= a /\ a < Size
  BY Circle DEF Addresses
<1>3. 8 * (a \div 8) + (a % 8) = a
  BY <1>2
<1>4. a % Size = a
  BY <1>2, Circle, WrapAround
<1> HIDE DEF v
<1>5. Selected(v) = a
  BY <1>1, <1>3, <1>4, SelectedAt DEF At
<1> QED
  BY <1>1, <1>5 DEF View, v

-----------------------------------------------------------------------------
(* What each key is to that editor.                                        *)

\* What the abstract editor sees of a step that leaves a state of this view.
LEMMA Seen ==
  ASSUME NEW a, NEW m, NEW p, NEW mem, View(d') = <<a, m, p, mem>>
  PROVE  Selected(d)' = a /\ d.mode' = m /\ d.prev' = p /\ d.mem' = mem
BY DEF View

LEMMA Unseen ==
  ASSUME View(d') = View(d)
  PROVE  UNCHANGED Editor!vars
BY DEF View, Editor!vars

\* The modes are three.
LEMMA ModesDiffer ==
  /\ MODE_NIBBLE_HI # MODE_NIBBLE_LO /\ MODE_NIBBLE_HI # MODE_ASCII /\ MODE_NIBBLE_LO # MODE_ASCII
  /\ MODE_NIBBLE_HI \in Modes /\ MODE_NIBBLE_LO \in Modes /\ MODE_ASCII \in Modes
BY DEF MODE_NIBBLE_HI, MODE_NIBBLE_LO, MODE_ASCII, Modes

\* A cursor that moves with a mode of its own.
LEMMA ModeMovedView ==
  ASSUME NEW s, Quiet(s), NEW m \in Modes, NEW c \in Int
  PROVE  /\ View(DumpSetCursorCur([s EXCEPT !.mode = m])) = <<Selected(s), m, s.prev, s.mem>>
         /\ View(DumpMoveCursor([s EXCEPT !.mode = m], c)) = <<(Selected(s) + (c - s.cursor)) % Size, m, s.prev, s.mem>>
<1> DEFINE v == [s EXCEPT !.mode = m]
<1>1. Quiet(v) /\ v.mode = m /\ v.prev = s.prev /\ v.mem = s.mem /\ v.cursor = s.cursor /\ v.top = s.top
  BY DEF Quiet, DState
<1> HIDE DEF v
<1>2. Selected(v) = Selected(s)
  BY <1>1, SelectedAt
<1>3. View(v) = <<Selected(s), m, s.prev, s.mem>>
  BY <1>1, <1>2 DEF View
<1>4. View(DumpSetCursorCur(v)) = <<Selected(s), m, s.prev, s.mem>>
  BY <1>1, <1>3, DrawnView
<1>5. View(DumpMoveCursor(v, c)) = <<(Selected(s) + (c - s.cursor)) % Size, m, s.prev, s.mem>>
  BY <1>1, <1>2, MovedView
<1> QED
  BY <1>4, <1>5 DEF v

LEMMA TypingRefines == IInv /\ (CharHighNibble \/ CharLowNibble \/ CharText) => Editor!TypeDigit \/ Editor!TypeCharacter
<1> SUFFICES ASSUME IInv PROVE CharHighNibble \/ CharLowNibble \/ CharText => Editor!TypeDigit \/ Editor!TypeCharacter
  OBVIOUS
<1> DEFINE a == Selected(d)
           b == d.mem[a]
<1>1. Quiet(d) /\ d.cursor \in Int /\ a \in Addresses /\ b \in Bytes /\ d.mode \in Modes
  BY SelectedIsAddress DEF IInv, Quiet, DState
<1>2. \A n \in Nibbles : <<n, b[2]>> \in Bytes /\ <<b[1], n>> \in Bytes
  BY <1>1, Digits
<1>3. ASSUME NEW new \in Bytes, NEW masked \in BOOLEAN, NEW m \in Modes
      PROVE  LET w == DumpWriteAndRedrawCur(d, new, masked)
                 mem == Stored(d, a, new, masked)
             IN  /\ View(DumpSetCursorCur([w EXCEPT !.mode = m])) = <<a, m, d.prev, mem>>
                 /\ View(DumpMoveCursor([w EXCEPT !.mode = m], d.cursor + 1)) = <<(a + 1) % Size, m, d.prev, mem>>
                 /\ View(DumpMoveCursor(w, d.cursor + 1)) = <<(a + 1) % Size, d.mode, d.prev, mem>>
  <2> DEFINE w == DumpWriteAndRedrawCur(d, new, masked)
             mem == Stored(d, a, new, masked)
  <2>1. Quiet(w) /\ w.cursor = d.cursor
    BY <1>1, WriteGood
  <2>2. View(w) = <<a, d.mode, d.prev, mem>>
    BY <1>1, WrittenView
  <2> HIDE DEF w, mem, a
  <2>3. Selected(w) = a /\ w.mode = d.mode /\ w.prev = d.prev /\ w.mem = mem
    BY <2>2 DEF View
  <2>4. d.cursor + 1 \in Int /\ (d.cursor + 1) - d.cursor = 1
    BY <1>1
  <2>5. /\ View(DumpSetCursorCur([w EXCEPT !.mode = m])) = <<a, m, d.prev, mem>>
        /\ View(DumpMoveCursor([w EXCEPT !.mode = m], d.cursor + 1)) = <<(a + 1) % Size, m, d.prev, mem>>
    BY <2>1, <2>3, <2>4, ModeMovedView
  <2>6. View(DumpMoveCursor(w, d.cursor + 1)) = <<(a + 1) % Size, d.mode, d.prev, mem>>
    BY <2>1, <2>3, <2>4, MovedView
  <2> QED
    BY <2>5, <2>6 DEF w, mem, a
<1>4. ASSUME CharHighNibble PROVE Editor!TypeDigit
  <2>1. d.mode = MODE_NIBBLE_HI /\
        \E n \in Nibbles :
          d' = DumpSetCursorCur([DumpWriteAndRedrawCur(d, <<n, b[2]>>, TRUE) EXCEPT !.mode = MODE_NIBBLE_LO])
    BY <1>4 DEF CharHighNibble, Handled
  <2>2. PICK n \in Nibbles :
          d' = DumpSetCursorCur([DumpWriteAndRedrawCur(d, <<n, b[2]>>, TRUE) EXCEPT !.mode = MODE_NIBBLE_LO])
    BY <2>1
  <2> DEFINE new == <<n, b[2]>>
             mem == Stored(d, a, new, TRUE)
  <2>3. new \in Bytes
    BY <1>2
  <2>4. d' = DumpSetCursorCur([DumpWriteAndRedrawCur(d, new, TRUE) EXCEPT !.mode = MODE_NIBBLE_LO])
    BY <2>2
  <2> HIDE DEF new
  <2>5. View(d') = <<a, MODE_NIBBLE_LO, d.prev, mem>>
    BY <1>3, <2>3, <2>4, ModesDiffer
  <2> HIDE DEF mem
  <2>6. Selected(d)' = a /\ d.mode' = MODE_NIBBLE_LO /\ d.prev' = d.prev /\ d.mem' = mem
    BY <2>5, Seen
  <2>7. mem = IF a \in Readable \cap Writable THEN [d.mem EXCEPT ![a] = <<n, @[2]>>] ELSE d.mem
    BY DEF mem, Stored, new
  <2> HIDE DEF a
  <2> QED
    BY <2>1, <2>6, <2>7, ModesDiffer DEF Editor!TypeDigit, Editor!Forward, a
<1>5. ASSUME CharLowNibble PROVE Editor!TypeDigit
  <2>1. d.mode = MODE_NIBBLE_LO /\
        \E n \in Nibbles :
          d' = DumpMoveCursor([DumpWriteAndRedrawCur(d, <<b[1], n>>, TRUE) EXCEPT !.mode = MODE_NIBBLE_HI], d.cursor + 1)
    BY <1>5 DEF CharLowNibble, Handled
  <2>2. PICK n \in Nibbles :
          d' = DumpMoveCursor([DumpWriteAndRedrawCur(d, <<b[1], n>>, TRUE) EXCEPT !.mode = MODE_NIBBLE_HI], d.cursor + 1)
    BY <2>1
  <2> DEFINE new == <<b[1], n>>
             mem == Stored(d, a, new, TRUE)
  <2>3. new \in Bytes
    BY <1>2
  <2>4. d' = DumpMoveCursor([DumpWriteAndRedrawCur(d, new, TRUE) EXCEPT !.mode = MODE_NIBBLE_HI], d.cursor + 1)
    BY <2>2
  <2> HIDE DEF new
  <2>5. View(d') = <<(a + 1) % Size, MODE_NIBBLE_HI, d.prev, mem>>
    BY <1>3, <2>3, <2>4, ModesDiffer
  <2> HIDE DEF mem
  <2>6. Selected(d)' = (a + 1) % Size /\ d.mode' = MODE_NIBBLE_HI /\ d.prev' = d.prev /\ d.mem' = mem
    BY <2>5, Seen
  <2>7. mem = IF a \in Readable \cap Writable THEN [d.mem EXCEPT ![a] = <<@[1], n>>] ELSE d.mem
    BY DEF mem, Stored, new
  <2> HIDE DEF a
  <2> QED
    BY <2>1, <2>6, <2>7, ModesDiffer DEF Editor!TypeDigit, Editor!Forward, Editor!Moved, a
<1>6. ASSUME CharText PROVE Editor!TypeCharacter
  <2>1. d.mode = MODE_ASCII /\ \E new \in Bytes : d' = DumpMoveCursor(DumpWriteAndRedrawCur(d, new, FALSE), d.cursor + 1)
    BY <1>6 DEF CharText, Handled
  <2>2. PICK new \in Bytes : d' = DumpMoveCursor(DumpWriteAndRedrawCur(d, new, FALSE), d.cursor + 1)
    BY <2>1
  <2> DEFINE mem == Stored(d, a, new, FALSE)
  <2>3. View(d') = <<(a + 1) % Size, d.mode, d.prev, mem>>
    BY <1>1, <1>3, <2>2
  <2> HIDE DEF mem
  <2>4. Selected(d)' = (a + 1) % Size /\ d.mode' = d.mode /\ d.prev' = d.prev /\ d.mem' = mem
    BY <2>3, Seen
  <2>5. mem = IF a \in Writable THEN [d.mem EXCEPT ![a] = new] ELSE d.mem
    BY DEF mem, Stored
  <2> HIDE DEF a
  <2> QED
    BY <2>1, <2>4, <2>5, ModesDiffer DEF Editor!TypeCharacter, Editor!Forward, Editor!Moved, Editor!Bytes, Bytes, a
<1> QED
  BY <1>4, <1>5, <1>6

\* A remainder of the circle keeps the place in the row.
LEMMA PlaceInRow ==
  ASSUME NEW top \in Int, NEW c \in Int
  PROVE  At(top, c) % 8 = c % 8 /\ At(top, c) \in Addresses
<1> DEFINE n == 8 * top + c
           q == n \div Size
           r == n % Size
<1>0. n \in Int /\ n = 8 * top + c
  OBVIOUS
<1> HIDE DEF n
<1>1. r \in 0..(Size - 1) /\ q \in Int /\ n = Size * q + r
  BY <1>0, Circle, Division
<1> HIDE DEF q, r
<1>2. r = c + (top - Lines * q) * 8 /\ top - Lines * q \in Int
  BY <1>0, <1>1, Circle
<1>3. (c + (top - Lines * q) * 8) % 8 = c % 8
  BY <1>2, WholeTurns
<1> QED
  BY <1>1, <1>2, <1>3 DEF At, n, r, Addresses

\* The ends of the line that an address lies in.
LEMMA LineEnds ==
  ASSUME NEW a \in Addresses
  PROVE  /\ (a - (a % 8)) % Size = a - (a % 8)
         /\ (a - (a % 8) + 7) % Size = a - (a % 8) + 7
<1> DEFINE r == a % 8
           x == a - r
<1>1. a \in Int /\ 0 <= a /\ a < Size /\ r \in 0..7
  BY Circle DEF Addresses
<1>2. x \in Int /\ 0 <= x /\ x + 7 < Size
  BY <1>1, Circle
<1> DEFINE y == x + 7
<1>3. y \in Int /\ 0 <= y /\ y < Size
  BY <1>2
<1> HIDE DEF x, y
<1>4. x % Size = x /\ y % Size = y
  BY <1>2, <1>3, Circle, WrapAround
<1> QED
  BY <1>4 DEF x, y

\* Keys that move the caret by a nibble, byte or line, or to the other side.
LEMMA CaretRefines ==
  IInv /\ (CharTab \/ KeyLeft \/ KeyRight \/ KeyUp \/ KeyDown)
    => Editor!Tab \/ Editor!Left \/ Editor!Right \/ Editor!UpOrDown
<1> SUFFICES ASSUME IInv PROVE CharTab \/ KeyLeft \/ KeyRight \/ KeyUp \/ KeyDown
                               => Editor!Tab \/ Editor!Left \/ Editor!Right \/ Editor!UpOrDown
  OBVIOUS
<1> DEFINE a == Selected(d)
           toggled == IF d.mode = MODE_ASCII THEN MODE_NIBBLE_HI ELSE MODE_ASCII
           back    == IF d.mode = MODE_NIBBLE_HI THEN MODE_NIBBLE_LO ELSE d.mode
           on      == IF d.mode = MODE_NIBBLE_LO THEN MODE_NIBBLE_HI ELSE d.mode
<1>1. Quiet(d) /\ d.cursor \in Int /\ d.mode \in Modes
  BY DEF IInv, Quiet, DState
<1>2. toggled \in Modes /\ back \in Modes /\ on \in Modes
  BY <1>1, ModesDiffer
<1>3. \A k \in {-8, -1, 1, 8} : d.cursor + k \in Int /\ (d.cursor + k) - d.cursor = k
  BY <1>1
<1>4. ASSUME NEW m \in Modes, d' = DumpSetCursorCur([d EXCEPT !.mode = m])
      PROVE  Selected(d)' = a /\ d.mode' = m /\ d.prev' = d.prev /\ d.mem' = d.mem
  BY <1>1, <1>4, ModeMovedView, Seen
<1>5. ASSUME NEW m \in Modes, NEW k \in {-8, -1, 1, 8}, d' = DumpMoveCursor([d EXCEPT !.mode = m], d.cursor + k)
      PROVE  Selected(d)' = (a + k) % Size /\ d.mode' = m /\ d.prev' = d.prev /\ d.mem' = d.mem
  <2> DEFINE c == d.cursor + k
  <2>1. c \in Int /\ c - d.cursor = k
    BY <1>3
  <2>2. d' = DumpMoveCursor([d EXCEPT !.mode = m], c)
    BY <1>5
  <2> HIDE DEF c
  <2>3. View(d') = <<(a + (c - d.cursor)) % Size, m, d.prev, d.mem>>
    BY <1>1, <2>1, <2>2, ModeMovedView
  <2> HIDE DEF a
  <2> QED
    BY <2>1, <2>3, Seen
<1>6. ASSUME NEW k \in {-8, -1, 1, 8}, d' = DumpMoveCursor(d, d.cursor + k)
      PROVE  Selected(d)' = (a + k) % Size /\ d.mode' = d.mode /\ d.prev' = d.prev /\ d.mem' = d.mem
  <2>1. View(d') = <<(a + k) % Size, d.mode, d.prev, d.mem>>
    BY <1>1, <1>3, <1>6, MovedView
  <2> HIDE DEF a
  <2> QED
    BY <2>1, Seen
<1>7. /\ d.cursor - 1 = d.cursor + (-1) /\ d.cursor - BYTES_PER_ROW = d.cursor + (-8)
      /\ d.cursor + BYTES_PER_ROW = d.cursor + 8
  BY <1>1 DEF BYTES_PER_ROW
<1>8. CharTab => Editor!Tab
  <2>1. CharTab => d' = DumpSetCursorCur([d EXCEPT !.mode = toggled])
    BY DEF CharTab, Handled
  <2>2. CharTab => Selected(d)' = a /\ d.mode' = toggled /\ d.prev' = d.prev /\ d.mem' = d.mem
    BY <1>2, <1>4, <2>1
  <2> QED
    BY <1>1, <2>2, ModesDiffer DEF Editor!Tab
<1>9. KeyLeft => Editor!Left
  <2>1. CASE d.mode = MODE_NIBBLE_LO
    <3>1. KeyLeft => d' = DumpSetCursorCur([d EXCEPT !.mode = MODE_NIBBLE_HI])
      BY <2>1 DEF KeyLeft, Handled
    <3>2. KeyLeft => Selected(d)' = a /\ d.mode' = MODE_NIBBLE_HI /\ d.prev' = d.prev /\ d.mem' = d.mem
      BY <1>4, <3>1, ModesDiffer
    <3> QED
      BY <2>1, <3>2, ModesDiffer DEF Editor!Left
  <2>2. CASE d.mode # MODE_NIBBLE_LO
    <3>1. KeyLeft => d' = DumpMoveCursor([d EXCEPT !.mode = back], d.cursor + (-1))
      BY <1>7, <2>2 DEF KeyLeft, Handled
    <3>2. KeyLeft => Selected(d)' = (a + (-1)) % Size /\ d.mode' = back /\ d.prev' = d.prev /\ d.mem' = d.mem
      BY <1>2, <1>5, <3>1
    <3> QED
      BY <1>1, <2>2, <3>2, ModesDiffer DEF Editor!Left, Editor!Moved, Modes
  <2> QED
    BY <2>1, <2>2
<1>10. KeyRight => Editor!Right
  <2>1. CASE d.mode = MODE_NIBBLE_HI
    <3>1. KeyRight => d' = DumpSetCursorCur([d EXCEPT !.mode = MODE_NIBBLE_LO])
      BY <2>1 DEF KeyRight, Handled
    <3>2. KeyRight => Selected(d)' = a /\ d.mode' = MODE_NIBBLE_LO /\ d.prev' = d.prev /\ d.mem' = d.mem
      BY <1>4, <3>1, ModesDiffer
    <3> QED
      BY <2>1, <3>2, ModesDiffer DEF Editor!Right, Editor!Forward
  <2>2. CASE d.mode # MODE_NIBBLE_HI
    <3>1. KeyRight => d' = DumpMoveCursor([d EXCEPT !.mode = on], d.cursor + 1)
      BY <2>2 DEF KeyRight, Handled
    <3>2. KeyRight => Selected(d)' = (a + 1) % Size /\ d.mode' = on /\ d.prev' = d.prev /\ d.mem' = d.mem
      BY <1>2, <1>5, <3>1
    <3> QED
      BY <1>1, <2>2, <3>2, ModesDiffer DEF Editor!Right, Editor!Forward, Editor!Moved, Modes
  <2> QED
    BY <2>1, <2>2
<1>11. KeyUp \/ KeyDown => Editor!UpOrDown
  <2>1. KeyUp \/ KeyDown => \E k \in {-8, 8} : d' = DumpMoveCursor(d, d.cursor + k)
    BY <1>7 DEF KeyUp, KeyDown, Handled
  <2>2. KeyUp \/ KeyDown => /\ Selected(d)' = (a + 8) % Size \/ Selected(d)' = (a + (-8)) % Size
                            /\ d.mode' = d.mode /\ d.prev' = d.prev /\ d.mem' = d.mem
    BY <1>6, <2>1
  <2> QED
    BY <2>2 DEF Editor!UpOrDown, Editor!Moved, BYTES_PER_ROW
<1> QED
  BY <1>8, <1>9, <1>10, <1>11

\* What is left of a step that only moves the cursor.
LEMMA CursorMoves ==
  ASSUME Quiet(d), NEW c \in Int, d' = DumpMoveCursor(d, c)
  PROVE  /\ Selected(d)' = (Selected(d) + (c - d.cursor)) % Size
         /\ Selected(d)' = At(d.top, c)
         /\ d.mode' = d.mode /\ d.prev' = d.prev /\ d.mem' = d.mem
<1> DEFINE n == 8 * d.top + d.cursor
           by == c - d.cursor
           to == (Selected(d) + by) % Size
<1>1. d.top \in Int /\ d.cursor \in Int
  BY SomeMemory DEF Quiet, DState, Tops
<1>2. n \in Int /\ by \in Int /\ n + by = 8 * d.top + c
  BY <1>1
<1>3. Selected(d) = n % Size
  BY SelectedAt DEF At
<1>4. View(d') = <<to, d.mode, d.prev, d.mem>>
  BY MovedView
<1> HIDE DEF n, by
<1>5. to = (n + by) % Size
  BY <1>2, <1>3, Around
<1>6. to = At(d.top, c)
  BY <1>2, <1>5 DEF At
<1> HIDE DEF to
<1>7. Selected(d)' = to /\ d.mode' = d.mode /\ d.prev' = d.prev /\ d.mem' = d.mem
  BY <1>4, Seen
<1> QED
  BY <1>6, <1>7 DEF to, by

\* The ends of a row of the window, and of the window.
LEMMA Ends ==
  ASSUME NEW c \in Nat, NEW page \in Nat, c < page
  PROVE  /\ FirstOf(c, 8) = c - (c % 8) /\ LastOf(c, 8) = c - (c % 8) + 7
         /\ FirstOf(c, page) = 0 /\ LastOf(c, page) = page - 1
         /\ c % 8 \in 0..7
<1>1. c % 8 \in 0..7
  BY Division
<1>2. c % page = c
  BY WrapAround
<1> DEFINE r == c % 8
           p == c % page
<1> HIDE DEF r, p
<1>3. FirstOf(c, 8) = c - r /\ FirstOf(c, page) = c - p
  BY DEF FirstOf, r, p
<1>4. LastOf(c, 8) = c - r + 8 - 1 /\ LastOf(c, page) = c - p + page - 1
  BY <1>3 DEF LastOf
<1>5. r \in 0..7 /\ p = c
  BY <1>1, <1>2 DEF r, p
<1> QED
  BY <1>3, <1>4, <1>5 DEF r

\* The window's size is one of a screen's.
LEMMA FocusPage ==
  ASSUME IInv, phase = "focus"
  PROVE  /\ bytesPerScreen(d) \in {BYTES_PER_ROW * SystemRows, BYTES_PER_ROW * TerminalRows}
         /\ bytesPerScreen(d) = 8 * d.rows /\ bytesPerScreen(d) \in Nat
         /\ d.cursor \in Nat /\ d.cursor < bytesPerScreen(d)
<1>1. d.rows \in {SystemRows, TerminalRows} /\ d.rows \in 1..8 /\ d.cursor \in 0..(8 * d.rows - 1)
  BY InFocus DEF Shows, RowsNow
<1> QED
  BY <1>1 DEF bytesPerScreen, BYTES_PER_ROW

LEMMA EndsRefine == IInv /\ (KeyHome \/ KeyEnd \/ CtrlHome \/ CtrlEnd) => Editor!ToAnEnd
<1> SUFFICES ASSUME IInv, phase = "focus" PROVE KeyHome \/ KeyEnd \/ CtrlHome \/ CtrlEnd => Editor!ToAnEnd
  BY DEF KeyHome, KeyEnd, CtrlHome, CtrlEnd, Handled
<1> DEFINE a == Selected(d)
           page == bytesPerScreen(d)
           x == a % 8
           Rest == d.mode' = d.mode /\ d.prev' = d.prev /\ d.mem' = d.mem
<1>1. Quiet(d) /\ d.top \in Int /\ d.cursor \in Int /\ a \in Addresses /\ a \in Int
  <2>1. d \in DState /\ Quiet(d)
    BY DEF IInv, Quiet
  <2>2. a \in Addresses
    BY <2>1, SelectedIsAddress
  <2> HIDE DEF a
  <2> QED
    BY <2>1, <2>2, SomeMemory DEF DState, Tops
<1>2. /\ page \in {BYTES_PER_ROW * SystemRows, BYTES_PER_ROW * TerminalRows}
      /\ page \in Nat /\ d.cursor \in Nat /\ d.cursor < page
  BY FocusPage
<1>3. /\ FirstOf(d.cursor, BYTES_PER_ROW) = d.cursor - x /\ LastOf(d.cursor, BYTES_PER_ROW) = d.cursor - x + 7
      /\ FirstOf(d.cursor, page) = 0 /\ LastOf(d.cursor, page) = page - 1
      /\ x \in 0..7
  <2>1. At(d.top, d.cursor) % 8 = d.cursor % 8
    BY <1>1, PlaceInRow
  <2>2. a = At(d.top, d.cursor)
    BY SelectedAt
  <2>3. d.cursor % 8 = x
    BY <2>1, <2>2
  <2> HIDE DEF x
  <2> QED
    BY <1>2, <2>3, Ends DEF BYTES_PER_ROW
<1>4. (a - x) % Size = a - x /\ (a - x + 7) % Size = a - x + 7
  BY <1>1, LineEnds
<1> HIDE DEF a, page
<1>5. KeyHome => Selected(d)' = a - x /\ Rest
  <2> SUFFICES ASSUME KeyHome PROVE Selected(d)' = a - x /\ Rest
    OBVIOUS
  <2> DEFINE c == d.cursor - x
  <2>1. d' = DumpMoveCursor(d, c)
    BY <1>3 DEF KeyHome, Handled
  <2>2. c \in Int /\ a + (c - d.cursor) = a - x
    BY <1>1, <1>3
  <2> HIDE DEF c, x
  <2>3. Selected(d)' = (a + (c - d.cursor)) % Size /\ Rest
    BY <1>1, <2>1, <2>2, CursorMoves DEF a
  <2> QED
    BY <1>4, <2>2, <2>3
<1>6. KeyEnd => Selected(d)' = a - x + 7 /\ Rest
  <2> SUFFICES ASSUME KeyEnd PROVE Selected(d)' = a - x + 7 /\ Rest
    OBVIOUS
  <2> DEFINE c == d.cursor - x + 7
  <2>1. d' = DumpMoveCursor(d, c)
    BY <1>3 DEF KeyEnd, Handled
  <2>2. c \in Int /\ a + (c - d.cursor) = a - x + 7
    BY <1>1, <1>3
  <2> HIDE DEF c, x
  <2>3. Selected(d)' = (a + (c - d.cursor)) % Size /\ Rest
    BY <1>1, <2>1, <2>2, CursorMoves DEF a
  <2> QED
    BY <1>4, <2>2, <2>3
<1>7. CtrlHome => Selected(d)' = (a + (-d.cursor)) % Size /\ Selected(d)' % 8 = 0 /\ Rest
  <2> SUFFICES ASSUME CtrlHome PROVE Selected(d)' = (a + (-d.cursor)) % Size /\ Selected(d)' % 8 = 0 /\ Rest
    OBVIOUS
  <2>1. d' = DumpMoveCursor(d, 0)
    BY <1>3 DEF CtrlHome, Handled, page
  <2>2. Selected(d)' = (a + (0 - d.cursor)) % Size /\ Selected(d)' = At(d.top, 0) /\ Rest
    BY <1>1, <2>1, CursorMoves DEF a
  <2>3. 0 - d.cursor = -d.cursor
    BY <1>1
  <2>4. At(d.top, 0) % 8 = 0 % 8
    BY <1>1, PlaceInRow
  <2>5. 0 % 8 = 0
    OBVIOUS
  <2> QED
    BY <2>2, <2>3, <2>4, <2>5
<1>8. CtrlEnd => Selected(d)' = (a + (page - 1 - d.cursor)) % Size /\ Selected(d)' % 8 = 7 /\ Rest
  <2> SUFFICES ASSUME CtrlEnd PROVE Selected(d)' = (a + (page - 1 - d.cursor)) % Size /\ Selected(d)' % 8 = 7 /\ Rest
    OBVIOUS
  <2> DEFINE c == page - 1
  <2>1. d' = DumpMoveCursor(d, c) /\ c \in Int
    BY <1>2, <1>3 DEF CtrlEnd, Handled, page
  <2>2. c % 8 = 7
    <3>1. page = 8 * d.rows /\ d.rows \in Int
      BY InFocus, FocusPage DEF page
    <3>2. c = 7 + (d.rows - 1) * 8
      BY <3>1
    <3> HIDE DEF c
    <3>3. (7 + (d.rows - 1) * 8) % 8 = 7 % 8
      BY <3>1, WholeTurns
    <3>4. 7 % 8 = 7
      OBVIOUS
    <3> QED
      BY <3>2, <3>3, <3>4
  <2> HIDE DEF c
  <2>3. Selected(d)' = (a + (c - d.cursor)) % Size /\ Selected(d)' = At(d.top, c) /\ Rest
    BY <1>1, <2>1, CursorMoves DEF a
  <2>4. At(d.top, c) % 8 = c % 8
    BY <1>1, <2>1, PlaceInRow
  <2> QED
    BY <2>2, <2>3, <2>4 DEF c
<1>9. ASSUME NEW by \in 0..(page - 1),
             Selected(d)' = (a + by) % Size \/ Selected(d)' = (a + (-by)) % Size,
             Selected(d)' % 8 \in {0, 7}, Rest
      PROVE  Editor!ToAnEnd
  <2>1. Selected(d)' % BYTES_PER_ROW \in {0, BYTES_PER_ROW - 1}
    BY <1>9 DEF BYTES_PER_ROW
  <2>2. \E p \in {BYTES_PER_ROW * SystemRows, BYTES_PER_ROW * TerminalRows} : \E b \in 0..(p - 1) :
          /\ Selected(d)' = (a + b) % Size \/ Selected(d)' = (a + (-b)) % Size
          /\ Selected(d)' % BYTES_PER_ROW \in {0, BYTES_PER_ROW - 1}
    BY <1>2, <1>9, <2>1
  <2> QED
    BY <1>9, <2>2 DEF Editor!ToAnEnd, Editor!Moved, a
<1>10. ASSUME Selected(d)' \in {a - x, a - x + 7}, Rest PROVE Editor!ToAnEnd
  <2>1. Selected(d)' \in {a - (a % BYTES_PER_ROW), a - (a % BYTES_PER_ROW) + BYTES_PER_ROW - 1}
    <3>1. a % BYTES_PER_ROW = x /\ a - x + BYTES_PER_ROW - 1 = a - x + 7
      BY <1>1, <1>3 DEF BYTES_PER_ROW
    <3> QED
      BY <1>10, <3>1
  <2> QED
    BY <1>10, <2>1 DEF Editor!ToAnEnd, a
<1>11. KeyHome \/ KeyEnd => Editor!ToAnEnd
  BY <1>5, <1>6, <1>10
<1>12. CtrlHome => Editor!ToAnEnd
  BY <1>2, <1>7, <1>9
<1>13. CtrlEnd => Editor!ToAnEnd
  BY <1>2, <1>8, <1>9
<1> QED
  BY <1>11, <1>12, <1>13

\* A window that scrolls and keeps the cursor moves the caret by whole rows.
LEMMA ScrollRefines == IInv /\ (CtrlUp \/ CtrlDown) => Editor!UpOrDown
<1> SUFFICES ASSUME IInv, phase = "focus" PROVE CtrlUp \/ CtrlDown => Editor!UpOrDown
  BY DEF CtrlUp, CtrlDown, Handled
<1> DEFINE a == Selected(d)
           page == bytesPerScreen(d)
<1>1. Quiet(d) /\ d.top \in Tops /\ d.top \in Int /\ d.cursor \in Int /\ d.rows \in Int
  BY InFocus, SomeMemory DEF IInv, Quiet, DState, Tops
<1>2. page \in {BYTES_PER_ROW * SystemRows, BYTES_PER_ROW * TerminalRows} /\ page = 8 * d.rows
  BY FocusPage
<1>3. ASSUME NEW k \in Int, d' = DumpRedrawScreen([d EXCEPT !.top = (d.top + k) % Lines])
      PROVE  Selected(d)' = (a + 8 * k) % Size /\ d.mode' = d.mode /\ d.prev' = d.prev /\ d.mem' = d.mem
  <2> DEFINE top == (d.top + k) % Lines
             v == [d EXCEPT !.top = top]
             n == 8 * d.top + d.cursor
             by == 8 * k
             to == (a + 8 * k) % Size
  <2>1. top \in Tops
    <3>1. d.top + k \in Int
      BY <1>1
    <3> QED
      BY <3>1, Circle, Division DEF Tops
  <2>2. At(top, d.cursor) = At(d.top, d.cursor + 8 * k)
    BY <1>1, WindowSlides
  <2> HIDE DEF top
  <2>3. /\ Quiet(v) /\ v.top = top /\ v.cursor = d.cursor
        /\ v.mode = d.mode /\ v.prev = d.prev /\ v.mem = d.mem
    BY <1>1, <2>1 DEF Quiet, DState
  <2> HIDE DEF v
  <2>4. n \in Int /\ by \in Int /\ 8 * d.top + (d.cursor + 8 * k) = n + by
    BY <1>1
  <2>5. a = n % Size
    BY SelectedAt DEF At
  <2>6. At(d.top, d.cursor + 8 * k) = (n + by) % Size
    BY <2>4 DEF At
  <2> HIDE DEF n, by, a
  <2>7. to = (n + by) % Size
    BY <2>4, <2>5, Around DEF by
  <2>8. Selected(v) = to
    BY <2>2, <2>3, <2>6, <2>7, SelectedAt
  <2> HIDE DEF to
  <2>9. View(v) = <<to, d.mode, d.prev, d.mem>>
    BY <2>3, <2>8 DEF View
  <2>10. d' = DumpRedrawScreen(v)
    BY <1>3 DEF v, top
  <2>11. View(d') = <<to, d.mode, d.prev, d.mem>>
    BY <2>3, <2>9, <2>10, DrawnView
  <2>12. Selected(d)' = to /\ d.mode' = d.mode /\ d.prev' = d.prev /\ d.mem' = d.mem
    BY <2>11, Seen
  <2> QED
    BY <2>12 DEF to
<1> HIDE DEF a, page
<1>4. ASSUME Selected(d)' = (a + page) % Size \/ Selected(d)' = (a + (-page)) % Size,
             d.mode' = d.mode /\ d.prev' = d.prev /\ d.mem' = d.mem
      PROVE  Editor!UpOrDown
  BY <1>2, <1>4 DEF Editor!UpOrDown, Editor!Moved, a
<1>5. CtrlUp => d' = DumpRedrawScreen([d EXCEPT !.top = (d.top - d.rows) % Lines])
  BY DEF CtrlUp, Handled, Quiet, DState
<1>6. CtrlDown => d' = DumpRedrawScreen([d EXCEPT !.top = (d.top + d.rows) % Lines])
  BY DEF CtrlDown, Handled, Quiet, DState
<1>7. /\ -d.rows \in Int /\ d.top - d.rows = d.top + (-d.rows)
      /\ 8 * (-d.rows) = -page /\ 8 * d.rows = page
  BY <1>1, <1>2
<1>8. CtrlUp => Editor!UpOrDown
  <2>1. CtrlUp => Selected(d)' = (a + 8 * (-d.rows)) % Size /\ d.mode' = d.mode /\ d.prev' = d.prev /\ d.mem' = d.mem
    BY <1>3, <1>5, <1>7
  <2> QED
    BY <1>4, <1>7, <2>1
<1>9. CtrlDown => Editor!UpOrDown
  <2>1. CtrlDown => Selected(d)' = (a + 8 * d.rows) % Size /\ d.mode' = d.mode /\ d.prev' = d.prev /\ d.mem' = d.mem
    BY <1>1, <1>3, <1>6
  <2> QED
    BY <1>4, <1>7, <2>1
<1> QED
  BY <1>8, <1>9

\* A jump, and the screen drawn at its address.
LEMMA JumpRefines ==
  ASSUME NEW s, Quiet(s), View(s) = View(d), NEW a \in Addresses, d' = DumpRedrawScreen(DumpSetAddress(s, a))
  PROVE  Editor!GoTo(a)
<1> DEFINE m == IF s.mode = MODE_NIBBLE_LO THEN MODE_NIBBLE_HI ELSE s.mode
           v == DumpSetAddress(s, a)
           from == Selected(s)
<1>1. View(v) = <<a, m, from, s.mem>>
  BY JumpedView
<1>2. Quiet(v)
  <2>1. a \div BYTES_PER_ROW \in Tops /\ a % BYTES_PER_ROW \in Int
    <3>1. a \in Int /\ 0 <= a /\ a < 8 * Lines /\ Lines \in Nat
      BY Circle DEF Addresses
    <3> QED
      BY <3>1 DEF Tops, BYTES_PER_ROW
  <2>2. Selected(s) \in Addresses /\ m \in Modes
    BY SelectedIsAddress, ModesDiffer DEF Quiet, DState
  <2>3. v = Jumped(s, Selected(s), a \div BYTES_PER_ROW, a % BYTES_PER_ROW, m)
    BY DEF DumpSetAddress, Jumped, Quiet, DState
  <2> HIDE DEF v, m
  <2> QED
    BY <2>1, <2>2, <2>3, JumpedQuietly
<1> HIDE DEF m, v, from
<1>3. View(d') = <<a, m, from, s.mem>>
  <2>1. View(DumpRedrawScreen(v)) = View(v)
    BY <1>2, DrawnView
  <2> QED
    BY <1>1, <2>1 DEF v
<1>4. Selected(d)' = a /\ d.mode' = m /\ d.prev' = from /\ d.mem' = s.mem
  BY <1>3, Seen
<1>5. Selected(s) = Selected(d) /\ s.mode = d.mode /\ s.mem = d.mem
  BY DEF View
<1> QED
  BY <1>4, <1>5, ModesDiffer DEF Editor!GoTo, m, from

\* Reading memory under the applet's handler leaves the system's handler, and only that.
LEMMA FetchView ==
  ASSUME NEW s, Quiet(s), NEW set
  PROVE  LET f == UninstallBusErrorHandler(Touched(InstallBusErrorHandler(s), set))
         IN  Quiet(f) /\ View(f) = View(s)
<1> DEFINE t == Touched(InstallBusErrorHandler(s), set)
           f == UninstallBusErrorHandler(t)
<1>1. t = [s EXCEPT !.saved = "system", !.vector = "applet"]
  BY FetchedQuietly
<1> HIDE DEF t
<1>2. f = [s EXCEPT !.saved = "system"]
  BY <1>1 DEF UninstallBusErrorHandler, Quiet, DState
<1> HIDE DEF f
<1>3. /\ Quiet(f) /\ f.top = s.top /\ f.cursor = s.cursor
      /\ f.mode = s.mode /\ f.prev = s.prev /\ f.mem = s.mem
  BY <1>2 DEF Quiet, DState, Vectors
<1>4. View(f) = View(s)
  BY <1>3, SelectedAt DEF View
<1> QED
  BY <1>3, <1>4 DEF f, t

\* Keys that jump.
LEMMA JumpKeysRefine ==
  IInv /\ (KeyBackspace \/ CtrlShiftG) => Editor!Back \/ (\E a \in Addresses : Editor!GoTo(a)) \/ UNCHANGED Editor!vars
<1> SUFFICES ASSUME IInv
             PROVE  KeyBackspace \/ CtrlShiftG
                      => Editor!Back \/ (\E a \in Addresses : Editor!GoTo(a)) \/ UNCHANGED Editor!vars
  OBVIOUS
<1>1. Quiet(d) /\ d \in DState /\ d.prev \in Addresses
  BY DEF IInv, Quiet, DState
<1>2. KeyBackspace => Editor!Back
  <2>1. KeyBackspace => d' = DumpRedrawScreen(DumpSetAddress(d, d.prev))
    BY DEF KeyBackspace, Handled
  <2>2. KeyBackspace => Editor!GoTo(d.prev)
    BY <1>1, <2>1, JumpRefines
  <2> QED
    BY <2>2 DEF Editor!Back
<1>3. CtrlShiftG => (\E a \in Addresses : Editor!GoTo(a)) \/ UNCHANGED Editor!vars
  <2> DEFINE long == {(Selected(d) + k) % Size : k \in 0..3}
             f == UninstallBusErrorHandler(Touched(InstallBusErrorHandler(d), long))
  <2>1. CtrlShiftG => \/ d' = DumpRedrawScreen(DumpSetAddress(f, Pointer(d)))
                      \/ d' = DumpRedrawScreen(f)
    BY DEF CtrlShiftG, Handled
  <2>2. Quiet(f) /\ View(f) = View(d)
    BY <1>1, FetchView
  <2>3. Pointer(d) \in Addresses
    BY <1>1, PointerIsAddress
  <2> HIDE DEF f
  <2>4. ASSUME d' = DumpRedrawScreen(DumpSetAddress(f, Pointer(d))) PROVE \E a \in Addresses : Editor!GoTo(a)
    <3>1. Editor!GoTo(Pointer(d))
      BY <2>2, <2>3, <2>4, JumpRefines
    <3> QED
      BY <2>3, <3>1
  <2>5. ASSUME d' = DumpRedrawScreen(f) PROVE UNCHANGED Editor!vars
    <3>1. View(d') = View(d)
      BY <2>2, <2>5, DrawnView
    <3> QED
      BY <3>1, Unseen
  <2> QED
    BY <2>1, <2>4, <2>5
<1> QED
  BY <1>2, <1>3

\* Memory that changed while the caret stayed.
LEMMA StoredRefines ==
  ASSUME NEW s, Quiet(s), NEW mem \in [Addresses -> Bytes],
         \/ d' = DumpRedrawScreen([s EXCEPT !.mem = mem]) \/ d' = [s EXCEPT !.mem = mem]
  PROVE  Selected(d)' = Selected(s) /\ d.mode' = s.mode /\ d.prev' = s.prev /\ d.mem' = mem
<1> DEFINE v == [s EXCEPT !.mem = mem]
<1>1. /\ Quiet(v) /\ v.top = s.top /\ v.cursor = s.cursor /\ v.mode = s.mode /\ v.prev = s.prev /\ v.mem = mem
  BY DEF Quiet, DState
<1>2. d' = DumpRedrawScreen(v) \/ d' = v
  OBVIOUS
<1> HIDE DEF v
<1>3. View(v) = <<Selected(s), s.mode, s.prev, mem>>
  BY <1>1, SelectedAt DEF View
<1>4. View(d') = <<Selected(s), s.mode, s.prev, mem>>
  BY <1>1, <1>2, <1>3, DrawnView
<1> QED
  BY <1>4, Seen

LEMMA MemoryRefines == IInv /\ (KeyClearFile \/ DialogCall) => Editor!ClearScratch \/ Editor!Call
<1> SUFFICES ASSUME IInv PROVE KeyClearFile \/ DialogCall => Editor!ClearScratch \/ Editor!Call
  OBVIOUS
<1>1. Quiet(d) /\ d.mem \in [Addresses -> Bytes]
  BY DEF IInv, Quiet, DState
<1>2. KeyClearFile => Editor!ClearScratch
  <2> DEFINE mem == [a \in Addresses |-> IF a \in Scratch THEN <<0, 0>> ELSE d.mem[a]]
  <2>1. mem \in [Addresses -> Bytes]
    BY <1>1, DebugToolAssumption DEF DebugToolAssumption, Bytes
  <2>2. KeyClearFile => d' = DumpRedrawScreen([d EXCEPT !.mem = mem])
    BY <1>1 DEF KeyClearFile, Handled, Quiet, DState
  <2> HIDE DEF mem
  <2>3. KeyClearFile => Selected(d)' = Selected(d) /\ d.mode' = d.mode /\ d.prev' = d.prev /\ d.mem' = mem
    BY <1>1, <2>1, <2>2, StoredRefines
  <2> QED
    BY <2>3 DEF Editor!ClearScratch, Editor!Addresses, Addresses, mem
<1>3. DialogCall => Editor!Call
  <2> SUFFICES ASSUME DialogCall PROVE Editor!Call
    OBVIOUS
  <2>1. PICK new \in [Writable -> Bytes] :
          d' = [d EXCEPT !.mem = [a \in Addresses |-> IF a \in Writable THEN new[a] ELSE @[a]]]
    BY DEF DialogCall
  <2> DEFINE mem == [a \in Addresses |-> IF a \in Writable THEN new[a] ELSE d.mem[a]]
  <2>2. mem \in [Addresses -> Bytes]
    BY <1>1
  <2>3. d' = [d EXCEPT !.mem = mem]
    BY <1>1, <2>1 DEF Quiet, DState
  <2> HIDE DEF mem
  <2>4. Selected(d)' = Selected(d) /\ d.mode' = d.mode /\ d.prev' = d.prev /\ d.mem' = mem
    BY <1>1, <2>2, <2>3, StoredRefines
  <2> QED
    BY <2>2, <2>4 DEF Editor!Call, Editor!Addresses, Addresses, Editor!Bytes, Bytes
<1> QED
  BY <1>2, <1>3

\* Messages and prompts that the editor on memory does not see.
LEMMA UnseenSteps ==
  IInv /\ (MsgInit \/ MsgSetFocus \/ MsgKillFocus \/ CtrlR \/ CtrlG \/ GotoEscape \/ CtrlI \/ DialogEscape
           \/ DialogPick \/ FieldDone \/ DialogRefuse \/ ResultSeen \/ UNCHANGED vars) => UNCHANGED Editor!vars
<1> SUFFICES ASSUME IInv
             PROVE  MsgInit \/ MsgSetFocus \/ MsgKillFocus \/ CtrlR \/ CtrlG \/ GotoEscape \/ CtrlI \/ DialogEscape
                    \/ DialogPick \/ FieldDone \/ DialogRefuse \/ ResultSeen \/ UNCHANGED vars => View(d') = View(d)
  BY Unseen
<1>1. Quiet(d)
  BY DEF IInv
<1>2. MsgInit \/ MsgKillFocus \/ DialogPick \/ FieldDone \/ DialogRefuse \/ UNCHANGED vars => d' = d
  BY DEF MsgInit, MsgKillFocus, DialogPick, FieldDone, DialogRefuse, vars
<1>3. CtrlR \/ GotoEscape \/ DialogEscape \/ ResultSeen => View(d') = View(d)
  BY <1>1, DrawnView DEF CtrlR, Handled, GotoEscape, DialogEscape, ResultSeen
<1>4. CtrlG \/ CtrlI => View(d') = View(d)
  <2> DEFINE v == Spoilt(d)
  <2>1. v.top = d.top /\ v.cursor = d.cursor /\ v.mode = d.mode /\ v.prev = d.prev /\ v.mem = d.mem
    BY <1>1 DEF Spoilt, Quiet, DState
  <2>2. CtrlG \/ CtrlI => d' = v
    BY DEF CtrlG, CtrlI
  <2> HIDE DEF v
  <2> QED
    BY <2>1, <2>2, SelectedAt DEF View
<1>5. MsgSetFocus => View(d') = View(d)
  <2> SUFFICES ASSUME MsgSetFocus PROVE View(d') = View(d)
    OBVIOUS
  <2> DEFINE rows == IF terminal' THEN TerminalRows ELSE SystemRows
             v == [d EXCEPT !.rows = rows]
  <2>1. rows \in 0..8
    BY SomeRows
  <2>2. d' = DumpRedrawScreen(v)
    BY DEF MsgSetFocus
  <2> HIDE DEF rows
  <2>3. Quiet(v) /\ v.top = d.top /\ v.cursor = d.cursor /\ v.mode = d.mode /\ v.prev = d.prev /\ v.mem = d.mem
    BY <1>1, <2>1 DEF Quiet, DState
  <2> HIDE DEF v
  <2>4. View(v) = View(d)
    BY <2>3, SelectedAt DEF View
  <2> QED
    BY <2>2, <2>3, <2>4, DrawnView
<1> QED
  BY <1>2, <1>3, <1>4, <1>5

\* The address prompt.
LEMMA GotoRefines == IInv /\ GotoEnter => (\E a \in Addresses : Editor!GoTo(a)) \/ UNCHANGED Editor!vars
<1> SUFFICES ASSUME IInv, GotoEnter PROVE (\E a \in Addresses : Editor!GoTo(a)) \/ UNCHANGED Editor!vars
  OBVIOUS
<1>1. PICK e \in Entries : d' = IF e.ok THEN DumpRedrawScreen(DumpSetAddress(d, NumberFromString(e))) ELSE d
  BY DEF GotoEnter
<1> DEFINE a == NumberFromString(e)
<1>2. a \in Addresses /\ Quiet(d)
  <2>1. e \in Entry /\ opcode \in 0..511
    BY DebugToolAssumption DEF DebugToolAssumption, IInv
  <2> QED
    BY <2>1, EntryRead DEF IInv
<1> HIDE DEF a
<1>3. ASSUME d' = DumpRedrawScreen(DumpSetAddress(d, a)) PROVE Editor!GoTo(a)
  BY <1>2, <1>3, JumpRefines
<1>4. ASSUME d' = d PROVE UNCHANGED Editor!vars
  BY <1>4, Unseen
<1> QED
  BY <1>1, <1>2, <1>3, <1>4 DEF a

LEMMA StepRefines == IInv /\ [Next]_vars => [Editor!Next]_(Editor!vars)
BY TypingRefines, CaretRefines, EndsRefine, ScrollRefines, JumpKeysRefine, MemoryRefines, UnseenSteps, GotoRefines
   DEF Next, Editor!Next, Editor!Addresses, Addresses

LEMMA InitRefines == Init => Editor!Init
<1> SUFFICES ASSUME Init PROVE Editor!Init
  OBVIOUS
<1>1. d.top = 0 /\ d.cursor = 0 /\ d.mode = MODE_NIBBLE_HI /\ d.prev = 0 /\ d.mem = Memory
  BY DEF Init
<1>2. Selected(d) = 0
  <2>1. At(0, 0) = 0
    <3>1. 0 % Size = 0
      BY Circle, WrapAround
    <3> QED
      BY <3>1 DEF At
  <2> QED
    BY <1>1, <2>1, SelectedAt
<1> QED
  BY <1>1, <1>2, ModesDiffer, DebugToolAssumption
     DEF Editor!Init, DebugToolAssumption, Editor!Addresses, Editor!Bytes, Addresses, Bytes

\* Whatever the window and the prompts do, the applet is a caret on memory (DebugTool.c lines 138-151,
\* 190-236 and 278-407, against lines 9-28 of its README).
THEOREM ImplementsHexEditor == Spec => IsHexEditor
<1>1. Init => Editor!Init
  BY InitRefines
<1>2. IInv /\ [Next]_vars => [Editor!Next]_(Editor!vars)
  BY StepRefines
<1> QED
  BY <1>1, <1>2, Invariance, PTL DEF Spec, IsHexEditor, Editor!Spec

=============================================================================
