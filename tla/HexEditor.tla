------------------------------ MODULE HexEditor ------------------------------
(***************************************************************************)
(* What the memory editor of the debugging tool promises its user: one     *)
(* caret on a circle of Size addresses, either on a nibble (hex side) or   *)
(* on a byte (text side), an address to go back to, and a memory that only *)
(* typing, clearing the scratch area and a called routine change.  There   *)
(* is no screen here and no scrolling: where the window lies must not      *)
(* show in what a key does to the caret.                                   *)
(***************************************************************************)
EXTENDS Integers

CONSTANTS
  Size,      \* bytes of address space
  Row,       \* bytes of a line
  Pages,     \* the sizes a screen may have, in bytes
  Nibbles,   \* hex digits
  Readable, Writable, \* the addresses that answer a read, that store a write
  Scratch    \* the scratch area

VARIABLES
  at,    \* the address under the caret
  low,   \* on the hex side: the caret is on the second digit
  text,  \* the caret is on the text side
  prev,  \* the address Backspace goes back to
  mem    \* what is stored at each address

vars == <<at, low, text, prev, mem>>

Addresses == 0..(Size - 1)
Bytes == Nibbles \X Nibbles

Init ==
  /\ at = 0 /\ prev = 0 /\ low = FALSE /\ text = FALSE
  /\ mem \in [Addresses -> Bytes]

Moved(by) == at' = (at + by) % Size

Left ==
  /\ low' = (~text /\ ~low)
  /\ IF low THEN at' = at ELSE Moved(-1)
  /\ UNCHANGED <<text, prev, mem>>

Forward ==
  /\ low' = (~text /\ ~low)
  /\ IF text \/ low THEN Moved(1) ELSE at' = at

Right == Forward /\ UNCHANGED <<text, prev, mem>>

Tab == text' = ~text /\ low' = FALSE /\ UNCHANGED <<at, prev, mem>>

UpOrDown ==
  /\ \E by \in {Row} \cup Pages : Moved(by) \/ Moved(-by)
  /\ UNCHANGED <<low, text, prev, mem>>

\* To an end of the line, or of the screen the caret is on.
ToAnEnd ==
  /\ \/ at' \in {at - (at % Row), at - (at % Row) + Row - 1}
     \/ \E page \in Pages : \E by \in 0..(page - 1) :
          /\ Moved(by) \/ Moved(-by)
          /\ at' % Row \in {0, Row - 1}
  /\ UNCHANGED <<low, text, prev, mem>>

\* A digit replaces the nibble under the caret, if the byte can be read and written.
TypeDigit ==
  /\ ~text
  /\ \E n \in Nibbles :
       mem' = IF at \in Readable \cap Writable
              THEN [mem EXCEPT ![at] = IF low THEN <<@[1], n>> ELSE <<n, @[2]>>]
              ELSE mem
  /\ Forward /\ UNCHANGED <<text, prev>>

\* A character replaces the byte, if it can be written.
TypeCharacter ==
  /\ text
  /\ \E b \in Bytes : mem' = IF at \in Writable THEN [mem EXCEPT ![at] = b] ELSE mem
  /\ Forward /\ UNCHANGED <<text, prev>>

GoTo(a) == at' = a /\ prev' = at /\ low' = FALSE /\ UNCHANGED <<text, mem>>

\* "Restore cursor to address prior to last jump", which is itself a jump.
Back == GoTo(prev)

ClearScratch ==
  /\ mem' = [a \in Addresses |-> IF a \in Scratch THEN <<0, 0>> ELSE mem[a]]
  /\ UNCHANGED <<at, low, text, prev>>

\* A called routine may store anything, anywhere.
Call == mem' \in [Addresses -> Bytes] /\ UNCHANGED <<at, low, text, prev>>

Next ==
  \/ Left \/ Right \/ Tab \/ UpOrDown \/ ToAnEnd
  \/ TypeDigit \/ TypeCharacter
  \/ \E a \in Addresses : GoTo(a)
  \/ Back \/ ClearScratch \/ Call

Spec == Init /\ [][Next]_vars

=============================================================================
