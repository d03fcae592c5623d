------------------------------ MODULE DebugTool ------------------------------
(***************************************************************************)
(* The debugging tool, applets/DebugTool/DebugTool.c: a hex editor of the  *)
(* device's memory in a window of text rows.                               *)
(*                                                                         *)
(* The applet's globals, the bus error vector, the memory and the LCD are  *)
(* one record, d; every C function is an operator from a state to the      *)
(* state after the call.  Addresses are reduced to a circle of Lines rows  *)
(* of 8 bytes, on which pointer arithmetic wraps as it does on 32 bits.    *)
(*                                                                         *)
(*   top       g_pAddress / 8 (it is always at the start of a row)         *)
(*   cursor    g_cursor, the offset of the selected byte in the window     *)
(*   mode      g_mode                                                      *)
(*   prev      g_pPrevAddress                                              *)
(*   rows      g_rowsPerScreen                                             *)
(*   vector, saved   the handler at BUS_ERROR_HANDLER_PTR, and             *)
(*             g_prevBusErrorHandler: "system" or "applet"                 *)
(*   mem       what the memory holds                                       *)
(*   shown     the bytes on the LCD, [top, bytes], as last drawn           *)
(*   caret     the cursor on the LCD, [row, col, on]                       *)
(*   trapped   history: an access faulted under the system's handler       *)
(***************************************************************************)
EXTENDS Integers

CONSTANTS
  Lines,          \* rows of 8 bytes in the address space
  SystemRows,     \* text rows with the system font (4)
  TerminalRows,   \* text rows with the terminal font (8)
  LeftColumn,     \* where the first byte is drawn: 12, or 9 on an AS3000
  Nibbles,        \* the hex digits that are typed
  Readable,       \* addresses that answer a read; the others raise a bus error
  Writable,       \* addresses that store a write
  Scratch,        \* g_scratch
  Memory,         \* what the memory holds at first
  OpcodeAt,       \* &g_rawSysCall
  Entries,        \* what may be typed at a prompt, see Entry
  Fields          \* indices of g_buffer: 1 is the function, the others its arguments

BYTES_PER_ROW == 8
Size == BYTES_PER_ROW * Lines
Addresses == 0..(Size - 1)
Bytes == Nibbles \X Nibbles
Error == "error"   \* what is drawn for a byte whose read raised a bus error

\* A number (the scratch address of a "+" added), a "!" system call number, or a "$"
\* string; ok is FALSE when something that cannot be read follows.
Entry == [form : {"number", "syscall", "string"}, value : Addresses, ok : BOOLEAN]

MODE_NIBBLE_HI == "hi"
MODE_NIBBLE_LO == "lo"
MODE_ASCII     == "ascii"

\* A screen's size in bytes is used as a bit mask, so it must be a power of two.
ASSUME DebugToolAssumption ==
  /\ SystemRows \in {1, 2, 4, 8} /\ TerminalRows \in {1, 2, 4, 8}
  /\ SystemRows <= TerminalRows
  /\ Lines \in Nat /\ Lines >= TerminalRows
  /\ LeftColumn \in Nat
  /\ Nibbles \subseteq 0..15 /\ 0 \in Nibbles
  /\ Readable \subseteq Addresses /\ Writable \subseteq Addresses
  /\ Scratch \subseteq Writable
  /\ Memory \in [Addresses -> Bytes]
  /\ OpcodeAt \in Addresses
  /\ Entries \subseteq Entry
  /\ 1 \in Fields /\ Fields \subseteq Nat

VARIABLES
  phase,      \* "loaded", "background" (after MSG_INIT) or "focus"
  terminal,   \* g_pCurFont is the terminal font
  d,          \* see above
  prompt,     \* where ProcessMessage waits for the user: "none", "goto", "dialog", "field", "result"
  choice,     \* the field being edited
  fields,     \* g_buffer
  opcode      \* the system call number in g_rawSysCall

vars == <<phase, terminal, d, prompt, choice, fields, opcode>>

-----------------------------------------------------------------------------
(* The functions of DebugTool.c.                                           *)

InstallBusErrorHandler(s) == [s EXCEPT !.saved = s.vector, !.vector = "applet"]
UninstallBusErrorHandler(s) == [s EXCEPT !.vector = s.saved]

\* Reading the addresses of a set.
Touched(s, set) ==
  [s EXCEPT !.trapped = @ \/ (s.vector # "applet" /\ ~(set \subseteq Readable))]

Read(s, a) == IF a \in Readable THEN s.mem[a] ELSE Error

bytesPerScreen(s) == BYTES_PER_ROW * s.rows

\* &g_pAddress[offset]
AddressOf(s, offset) == (BYTES_PER_ROW * s.top + offset) % Size
Selected(s) == AddressOf(s, s.cursor)

Place(offset, mode) ==
  [row |-> 1 + offset \div BYTES_PER_ROW,
   col |-> LeftColumn + (IF mode = MODE_ASCII THEN (3 * BYTES_PER_ROW) + (offset % BYTES_PER_ROW)
                         ELSE (3 * (offset % BYTES_PER_ROW)) + (IF mode = MODE_NIBBLE_LO THEN 1 ELSE 0)),
   on  |-> TRUE]

DumpSetCursorCur(s) == [s EXCEPT !.caret = Place(s.cursor, s.mode)]

\* Mutant: a byte that cannot be read is written all the same.
WriteUnread(s, new, masked) ==
  LET a   == Selected(s)
      fetched == UninstallBusErrorHandler(Touched(InstallBusErrorHandler(s), {a}))
      written == [fetched EXCEPT !.mem = IF a \in Writable THEN [@ EXCEPT ![a] = new] ELSE @]
  IN  [written EXCEPT !.shown.bytes[s.cursor] = Read(written, a), !.caret.on = FALSE]

(* new is the byte with the typed nibble merged in, or the typed character. With a mask the
   old value is needed, so a failed read keeps the byte from being written. *)
DumpWriteAndRedrawCur(s, new, masked) ==
  LET a   == Selected(s)
      fetched == Touched(InstallBusErrorHandler(s), {a})
      written == [fetched EXCEPT !.mem = IF a \in Writable /\ (masked => a \in Readable)
                                         THEN [@ EXCEPT ![a] = new] ELSE @]
      again   == UninstallBusErrorHandler(Touched(written, {a}))
  IN  [again EXCEPT !.shown.bytes[s.cursor] = Read(again, a), !.caret.on = FALSE]

Screen(s) == 0..(bytesPerScreen(s) - 1)

DumpRedrawScreen(s) ==
  LET fetched == Touched(InstallBusErrorHandler(s), {AddressOf(s, i) : i \in Screen(s)})
      drawn   == [fetched EXCEPT !.shown = [top |-> s.top,
                                            bytes |-> [i \in Screen(s) |-> Read(s, AddressOf(s, i))]]]
  IN  DumpSetCursorCur(UninstallBusErrorHandler(drawn))

\* Mutant: the window scrolls and is not drawn again.
MoveUndrawn(s, c) ==
  DumpSetCursorCur(
    IF c < 0 THEN [s EXCEPT !.top = (@ - 1) % Lines, !.cursor = c + BYTES_PER_ROW]
    ELSE IF c >= bytesPerScreen(s) THEN [s EXCEPT !.top = (@ + 1) % Lines, !.cursor = c - BYTES_PER_ROW]
    ELSE [s EXCEPT !.cursor = c])

\* Mutant: the byte behind the window still belongs to it.
MovePast(s, c) ==
  IF c < 0
  THEN DumpRedrawScreen([s EXCEPT !.top = (@ - 1) % Lines, !.cursor = c + BYTES_PER_ROW])
  ELSE IF c > bytesPerScreen(s)
  THEN DumpRedrawScreen([s EXCEPT !.top = (@ + 1) % Lines, !.cursor = c - BYTES_PER_ROW])
  ELSE DumpSetCursorCur([s EXCEPT !.cursor = c])

DumpMoveCursor(s, c) ==
  IF c < 0
  THEN DumpRedrawScreen([s EXCEPT !.top = (@ - 1) % Lines, !.cursor = c + BYTES_PER_ROW])
  ELSE IF c >= bytesPerScreen(s)
  THEN DumpRedrawScreen([s EXCEPT !.top = (@ + 1) % Lines, !.cursor = c - BYTES_PER_ROW])
  ELSE DumpSetCursorCur([s EXCEPT !.cursor = c])

DumpSetAddress(s, a) ==
  [s EXCEPT !.prev = Selected(s), !.top = a \div BYTES_PER_ROW, !.cursor = a % BYTES_PER_ROW,
            !.mode = IF @ = MODE_NIBBLE_LO THEN MODE_NIBBLE_HI ELSE @]

\* The address NumberFromString reads from an entry, and what it leaves in g_rawSysCall.
NumberFromString(e) == IF e.form = "syscall" THEN OpcodeAt ELSE e.value
RawSysCall(e, was) == IF e.form = "syscall" THEN e.value % 512 ELSE was

\* The dialog reads every field in turn; the last system call's number stays.
AllParsed(texts, was) ==
  LET calls == {i \in DOMAIN texts : texts[i].form = "syscall"}
      last  == {i \in calls : \A j \in calls : j <= i}
  IN  IF last = {} THEN was ELSE RawSysCall(texts[CHOOSE i \in last : TRUE], was)

\* The long word at the selected address, high byte first, as an address.
Pointer(s) ==
  LET a == Selected(s)
      Push(n, k) == (256 * n + 16 * s.mem[(a + k) % Size][1] + s.mem[(a + k) % Size][2]) % Size
  IN  Push(Push(Push(Push(0, 0), 1), 2), 3)

-----------------------------------------------------------------------------
(* Messages.                                                               *)

NoBytes == [i \in {} |-> Error]

Init ==
  /\ phase = "loaded" /\ terminal = FALSE
  /\ d = [top |-> 0, cursor |-> 0, mode |-> MODE_NIBBLE_HI, prev |-> 0, rows |-> 0,
          vector |-> "system", saved |-> "system", mem |-> Memory, trapped |-> FALSE,
          shown |-> [top |-> 0, bytes |-> NoBytes],
          caret |-> [row |-> 1, col |-> 1, on |-> FALSE]]
  /\ prompt = "none" /\ choice = 1
  /\ fields = [i \in Fields |-> [form |-> "number", value |-> 0, ok |-> TRUE]]
  /\ opcode = 0

Asking == UNCHANGED <<phase, terminal>>

\* The globals are zero when the applet is loaded, so that MSG_INIT only fills the buffers
\* with blanks, which read as 0.
MsgInit ==
  /\ phase = "loaded" /\ phase' = "background"
  /\ UNCHANGED <<terminal, d, prompt, choice, fields, opcode>>

(* BwProcessMessage asks for the terminal font whenever the applet gets the focus, and
   keeps the one it has if there is none; the row count follows (os3k.c 61-67, 155-158). *)
MsgSetFocus ==
  /\ phase = "background" /\ phase' = "focus"
  /\ \E installed \in BOOLEAN : terminal' = (terminal \/ installed)
  /\ d' = DumpRedrawScreen([d EXCEPT !.rows = IF terminal' THEN TerminalRows ELSE SystemRows])
  /\ UNCHANGED <<prompt, choice, fields, opcode>>

\* Another applet is selected, at a prompt too: the call that waits does not return.
MsgKillFocus ==
  /\ phase = "focus" /\ phase' = "background"
  /\ prompt' = "none"
  /\ UNCHANGED <<terminal, d, choice, fields, opcode>>

\* A message that is handled without waiting for the user.
Handled(s) ==
  /\ phase = "focus" /\ prompt = "none"
  /\ d' = s
  /\ UNCHANGED <<phase, terminal, prompt, choice, fields, opcode>>

CharTab ==
  Handled(DumpSetCursorCur([d EXCEPT !.mode = IF @ = MODE_ASCII THEN MODE_NIBBLE_HI ELSE MODE_ASCII]))

CharHighNibble ==
  /\ d.mode = MODE_NIBBLE_HI
  /\ \E n \in Nibbles :
       Handled(DumpSetCursorCur([DumpWriteAndRedrawCur(d, <<n, d.mem[Selected(d)][2]>>, TRUE)
                                 EXCEPT !.mode = MODE_NIBBLE_LO]))

CharLowNibble ==
  /\ d.mode = MODE_NIBBLE_LO
  /\ \E n \in Nibbles :
       Handled(DumpMoveCursor([DumpWriteAndRedrawCur(d, <<d.mem[Selected(d)][1], n>>, TRUE)
                               EXCEPT !.mode = MODE_NIBBLE_HI], d.cursor + 1))

CharText ==
  /\ d.mode = MODE_ASCII
  /\ \E b \in Bytes : Handled(DumpMoveCursor(DumpWriteAndRedrawCur(d, b, FALSE), d.cursor + 1))

KeyLeft ==
  IF d.mode = MODE_NIBBLE_LO THEN Handled(DumpSetCursorCur([d EXCEPT !.mode = MODE_NIBBLE_HI]))
  ELSE Handled(DumpMoveCursor([d EXCEPT !.mode = IF @ = MODE_NIBBLE_HI THEN MODE_NIBBLE_LO ELSE @],
                              d.cursor - 1))

KeyRight ==
  IF d.mode = MODE_NIBBLE_HI THEN Handled(DumpSetCursorCur([d EXCEPT !.mode = MODE_NIBBLE_LO]))
  ELSE Handled(DumpMoveCursor([d EXCEPT !.mode = IF @ = MODE_NIBBLE_LO THEN MODE_NIBBLE_HI ELSE @],
                              d.cursor + 1))

KeyUp   == Handled(DumpMoveCursor(d, d.cursor - BYTES_PER_ROW))
KeyDown == Handled(DumpMoveCursor(d, d.cursor + BYTES_PER_ROW))

CtrlUp   == Handled(DumpRedrawScreen([d EXCEPT !.top = (@ - d.rows) % Lines]))
CtrlDown == Handled(DumpRedrawScreen([d EXCEPT !.top = (@ + d.rows) % Lines]))

\* cursor & ~(unit - 1) and cursor | (unit - 1), for a power of two.
FirstOf(cursor, unit) == cursor - (cursor % unit)
LastOf(cursor, unit)  == FirstOf(cursor, unit) + unit - 1

KeyHome  == Handled(DumpMoveCursor(d, FirstOf(d.cursor, BYTES_PER_ROW)))
KeyEnd   == Handled(DumpMoveCursor(d, LastOf(d.cursor, BYTES_PER_ROW)))
CtrlHome == Handled(DumpMoveCursor(d, FirstOf(d.cursor, bytesPerScreen(d))))
CtrlEnd  == Handled(DumpMoveCursor(d, LastOf(d.cursor, bytesPerScreen(d))))

KeyBackspace == Handled(DumpRedrawScreen(DumpSetAddress(d, d.prev)))

\* Mutant: the screen is drawn before the system's handler is put back.
CtrlShiftGNested ==
  LET inside == InstallBusErrorHandler(d)
      read   == {(Selected(d) + k) % Size : k \in 0..3} \subseteq Readable
  IN  /\ d.cursor % 2 = 0
      /\ Handled(UninstallBusErrorHandler(
                   DumpRedrawScreen(IF read THEN DumpSetAddress(inside, Pointer(d)) ELSE inside)))

\* Go to the address in memory: a long word must be at an even address.
CtrlShiftG ==
  LET long    == {(Selected(d) + k) % Size : k \in 0..3}
      fetched == UninstallBusErrorHandler(Touched(InstallBusErrorHandler(d), long))
  IN  /\ d.cursor % 2 = 0
      /\ Handled(DumpRedrawScreen(IF long \subseteq Readable THEN DumpSetAddress(fetched, Pointer(d))
                                                            ELSE fetched))

CtrlR == Handled(DumpRedrawScreen(d))

KeyClearFile ==
  Handled(DumpRedrawScreen([d EXCEPT !.mem = [a \in Addresses |-> IF a \in Scratch THEN <<0, 0>> ELSE @[a]]]))

-----------------------------------------------------------------------------
(* Prompts: ProcessMessage waits in TextBox and DialogRun.                 *)

\* The prompt is drawn over the dump.
Spoilt(s) == [s EXCEPT !.shown.bytes = NoBytes, !.caret.on = FALSE]

CtrlG ==
  /\ phase = "focus" /\ prompt = "none" /\ prompt' = "goto"
  /\ d' = Spoilt(d)
  /\ Asking /\ UNCHANGED <<choice, fields, opcode>>

\* An address that cannot be read is asked for again.
GotoEnter ==
  /\ phase = "focus" /\ prompt = "goto"
  /\ \E e \in Entries :
       /\ opcode' = RawSysCall(e, opcode)
       /\ prompt' = IF e.ok THEN "none" ELSE "goto"
       /\ d' = IF e.ok THEN DumpRedrawScreen(DumpSetAddress(d, NumberFromString(e))) ELSE d
  /\ Asking /\ UNCHANGED <<choice, fields>>

GotoEscape ==
  /\ phase = "focus" /\ prompt = "goto" /\ prompt' = "none"
  /\ d' = DumpRedrawScreen(d)
  /\ Asking /\ UNCHANGED <<choice, fields, opcode>>

CtrlI ==
  /\ phase = "focus" /\ prompt = "none" /\ prompt' = "dialog"
  /\ d' = Spoilt(d) /\ choice' = 1
  /\ opcode' = AllParsed(fields, opcode)
  /\ Asking /\ UNCHANGED fields

DialogEscape ==
  /\ phase = "focus" /\ prompt = "dialog" /\ prompt' = "none"
  /\ d' = DumpRedrawScreen(d)
  /\ Asking /\ UNCHANGED <<choice, fields, opcode>>

DialogPick ==
  /\ phase = "focus" /\ prompt = "dialog" /\ prompt' = "field"
  /\ choice' \in Fields
  /\ Asking /\ UNCHANGED <<d, fields, opcode>>

\* What an empty field offers: a system call as the function, hex digits as an argument.
Default(i) == [form |-> IF i = 1 THEN "syscall" ELSE "number", value |-> 0, ok |-> TRUE]

(* The text box works in the field's own buffer: with ENTER the entry is the field's, with
   ESC the buffer keeps what was typed so far, or the default it was given. Either way the
   dialog reads all the fields again. *)
FieldDone ==
  /\ phase = "focus" /\ prompt = "field" /\ prompt' = "dialog"
  /\ \E e \in Entries \cup {fields[choice], Default(choice)} :
       /\ fields' = [fields EXCEPT ![choice] = e]
       /\ opcode' = AllParsed(fields', RawSysCall(e, opcode))
  /\ Asking /\ UNCHANGED <<d, choice>>

\* "all f(1,2,...)" with a field that cannot be read leads to that field.
DialogRefuse ==
  /\ phase = "focus" /\ prompt = "dialog"
  /\ \E i \in Fields : ~fields[i].ok /\ choice' = i /\ \A j \in Fields : j < i => fields[j].ok
  /\ Asking /\ UNCHANGED <<d, prompt, fields, opcode>>

(* The routine called may store anything in the memory that stores; its result is shown
   until a key is pressed. *)
DialogCall ==
  /\ phase = "focus" /\ prompt = "dialog" /\ prompt' = "result"
  /\ \A i \in Fields : fields[i].ok
  /\ \E new \in [Writable -> Bytes] :
       d' = [d EXCEPT !.mem = [a \in Addresses |-> IF a \in Writable THEN new[a] ELSE @[a]]]
  /\ Asking /\ UNCHANGED <<choice, fields, opcode>>

ResultSeen ==
  /\ phase = "focus" /\ prompt = "result" /\ prompt' = "none"
  /\ d' = DumpRedrawScreen(d)
  /\ Asking /\ UNCHANGED <<choice, fields, opcode>>

Next ==
  \/ MsgInit \/ MsgSetFocus \/ MsgKillFocus
  \/ CharTab \/ CharHighNibble \/ CharLowNibble \/ CharText
  \/ KeyLeft \/ KeyRight \/ KeyUp \/ KeyDown \/ CtrlUp \/ CtrlDown
  \/ KeyHome \/ KeyEnd \/ CtrlHome \/ CtrlEnd
  \/ KeyBackspace \/ CtrlShiftG \/ CtrlR \/ KeyClearFile
  \/ CtrlG \/ GotoEnter \/ GotoEscape
  \/ CtrlI \/ DialogEscape \/ DialogPick \/ FieldDone \/ DialogRefuse \/ DialogCall \/ ResultSeen

Spec == Init /\ [][Next]_vars

-----------------------------------------------------------------------------
(* What is checked.                                                        *)

Modes == {MODE_NIBBLE_HI, MODE_NIBBLE_LO, MODE_ASCII}

\* The type invariant of the applet's globals (DebugTool.c lines 28-39).
TypeOK ==
  /\ phase \in {"loaded", "background", "focus"} /\ terminal \in BOOLEAN
  /\ d.top \in 0..(Lines - 1) /\ d.cursor \in 0..63 /\ d.mode \in Modes
  /\ d.prev \in Addresses /\ d.rows \in 0..8
  /\ d.vector \in {"system", "applet"} /\ d.saved \in {"system", "applet"}
  /\ d.mem \in [Addresses -> Bytes] /\ d.trapped \in BOOLEAN
  /\ prompt \in {"none", "goto", "dialog", "field", "result"} /\ choice \in Fields
  /\ fields \in [Fields -> Entry] /\ opcode \in 0..511

(***************************************************************************)
(* The selected byte is on the screen, although g_cursor is kept when the  *)
(* applet loses the focus and the number of rows is asked for anew when it *)
(* gets it back (line 263), and DumpMoveCursor corrects a cursor that left *)
(* the window by one row only (lines 138-151).                             *)
(***************************************************************************)
CursorOnScreen == phase = "focus" => d.cursor < bytesPerScreen(d)

(***************************************************************************)
(* Whenever the user may press a key, the dump shows the memory at the     *)
(* address it claims to show, and the LCD's cursor is on the digit or      *)
(* character that the next key changes: through scrolling, jumps, prompts  *)
(* drawn over the dump, calls that changed memory, and a change of font.   *)
(***************************************************************************)
ShowsMemory ==
  phase = "focus" /\ prompt = "none" =>
    /\ d.shown.top = d.top
    /\ d.shown.bytes = [i \in Screen(d) |-> Read(d, AddressOf(d, i))]
    /\ d.caret = Place(d.cursor, d.mode)

(***************************************************************************)
(* Every read of an address that may raise a bus error is made under the   *)
(* applet's handler, and the system's handler is back whenever a message   *)
(* was handled or the user is asked something (where the focus may be lost *)
(* for good), although installing saves the handler in a single variable   *)
(* and one function installs it and calls another that does (lines 48-55). *)
(***************************************************************************)
FaultsContained == ~d.trapped /\ d.vector = "system"

Editor == INSTANCE HexEditor WITH
  Row     <- BYTES_PER_ROW,
  Pages   <- {BYTES_PER_ROW * SystemRows, BYTES_PER_ROW * TerminalRows},
  at      <- Selected(d),
  low     <- d.mode = MODE_NIBBLE_LO,
  text    <- d.mode = MODE_ASCII,
  prev    <- d.prev,
  mem     <- d.mem

(***************************************************************************)
(* Seen through address, window and cursor together, the applet is a caret *)
(* on memory: a key moves it by a nibble, byte, line or screen wherever    *)
(* the window lies, typing changes the nibble or byte under it and nothing *)
(* else, and Backspace goes back to where the last jump left from (README  *)
(* lines 9-28 of the applet).                                              *)
(***************************************************************************)
IsHexEditor == Editor!Spec

=============================================================================
