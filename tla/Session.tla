------------------------------- MODULE Session -------------------------------
(***************************************************************************)
(* A session at the keyboard: applets get and lose the focus (wrapper.c,   *)
(* HelloWorld.c), and keys reach whoever reads them: EhBASIC's line        *)
(* editor, its Ctrl-C check and its GET statement (EhBASIC.asm, VEC_IN,    *)
(* VEC_CC, INGET), or getchar of an applet in C (os3k.c).  What an applet  *)
(* draws with when it gets the focus is in Console.                        *)
(*                                                                         *)
(* A key is held down, is noticed by a scan of the keyboard, which puts it *)
(* on the system's queue, and is taken from there.  Keys are numbered in   *)
(* the order in which they come on the queue.  A key that is released      *)
(* before a scan is missed.  The system outside the applets shows a menu   *)
(* when no applet has the focus, and reads keys too.                       *)
(***************************************************************************)
EXTENDS Integers, Sequences, FiniteSets, SequencesExt

CONSTANTS
  Keys,     \* keys of the keyboard: any of "char", "cr", "ctrlC", "applets" and "dead"
  MaxKeys,  \* bound: keys pressed in a session
  Life      \* checks for which a key is kept for GET: 32 in the code

ASSUME SessionAssumption ==
  /\ Keys \subseteq {"char", "cr", "ctrlC", "applets", "dead"}
  /\ MaxKeys \in Nat /\ Life \in Nat \ {0}

Applets == {"basic", "hello", "reader"}   \* reader: any applet in C that calls getchar
Menu    == "menu"
Held    == 2                              \* keys the user holds down at a time

VARIABLES
  focus,            \* the applet with the focus, or the menu
  down, fresh,      \* keys held, and those of them no scan has noticed yet
  queue, noticed,   \* the system's key queue, and how many keys came on it
  mode,             \* EhBASIC: "line" (LAB_1359), "check" (LAB_15C2) or "statement"
  asking,           \* who wants the line: "command" or "input"
  typed,            \* the input line is not empty
  ccbyte, ccnull,   \* key kept by the Ctrl-C check, and its life
  last              \* history: number of the last key GET delivered

keyboard == <<down, fresh, queue, noticed>>
basic    == <<mode, asking, typed, ccbyte, ccnull, last>>
vars     == <<focus, keyboard, basic>>

NoKey == [n |-> 0, key |-> "none"]

Init ==
  /\ focus = Menu
  /\ down = {} /\ fresh = {} /\ queue = <<>> /\ noticed = 0
  /\ mode = "line" /\ asking = "command" /\ typed = FALSE
  /\ ccbyte = NoKey /\ ccnull = 0 /\ last = 0

-----------------------------------------------------------------------------
(* The applets and the focus.                                              *)

SetFocus(a) == focus = Menu /\ focus' = a /\ UNCHANGED keyboard

\* wrapper.c, MSG_SETFOCUS; EhBASIC_Resume comes to the prompt.
WrapperSetFocus ==
  /\ SetFocus("basic") /\ mode' = "line" /\ asking' = "command" /\ typed' = FALSE
  /\ UNCHANGED <<ccbyte, ccnull, last>>

\* HelloWorld.c, MSG_SETFOCUS: the applet reads no keys.
HelloSetFocus == SetFocus("hello") /\ UNCHANGED basic

\* An applet in C that reads keys from here on.
ReaderSetFocus == SetFocus("reader") /\ UNCHANGED basic

\* The key that shows the applets menu: the applet's call does not return.
Leave == focus' = Menu /\ UNCHANGED basic

-----------------------------------------------------------------------------
(* Keys.                                                                   *)

Press(k) ==
  /\ k \notin down /\ Cardinality(down) < Held /\ noticed + Cardinality(fresh) < MaxKeys
  /\ down' = down \cup {k} /\ fresh' = fresh \cup {k}
  /\ UNCHANGED <<queue, noticed, focus, basic>>

Release(k) ==
  /\ k \in down /\ down' = down \ {k} /\ fresh' = fresh \ {k}
  /\ UNCHANGED <<queue, noticed, focus, basic>>

\* What the queue may be after a scan: two keys at once are noticed in either order.
Scans == {queue \o [i \in DOMAIN s |-> [n |-> noticed + i, key |-> s[i]]] : s \in SetToSeqs(fresh)}

Scanned(q) == fresh' = {} /\ noticed' = noticed + Cardinality(fresh) /\ queue' = q

\* IsKeyReady, GetKey(false): nothing, or the head of the queue.
Taken(q) == IF q = <<>> THEN q ELSE Tail(q)
Got(q)   == IF q = <<>> THEN NoKey ELSE Head(q)

\* TranslateKeyToChar: a character, none, or no return.
TranslateKeyToChar(key) ==
  CASE key.key = "applets"                 -> "leaves"
    [] key.key \in {"char", "cr", "ctrlC"} -> "char"
    [] OTHER                               -> "null"

\* Mutant: the keyboard is scanned only when a wait was asked for.
ReadNeverScanning(wait) ==
  IF wait THEN {[queue |-> Taken(q), scan |-> TRUE, key |-> Got(q)] : q \in Scans}
          ELSE {[queue |-> Taken(queue), scan |-> FALSE, key |-> Got(queue)]}

\* Mutant: the queue is looked at only when the keyboard was scanned.
ReadOnlyScanned(wait) ==
  IF wait \/ down # {}
  THEN {[queue |-> Taken(q), scan |-> TRUE, key |-> Got(q)] : q \in Scans}
  ELSE {[queue |-> queue, scan |-> FALSE, key |-> NoKey]}

(* VEC_IN: the keyboard is scanned when the caller can wait (carry set) or a key is held,
   which spares a running program the time. *)
VEC_IN(wait) ==
  IF wait \/ down # {}
  THEN {[queue |-> Taken(q), scan |-> TRUE, key |-> Got(q)] : q \in Scans}
  ELSE {[queue |-> Taken(queue), scan |-> FALSE, key |-> Got(queue)]}

\* What a read does to the keyboard.
Read(r) ==
  /\ queue' = r.queue /\ UNCHANGED down
  /\ IF r.scan THEN fresh' = {} /\ noticed' = noticed + Cardinality(fresh)
               ELSE UNCHANGED <<fresh, noticed>>

Leaves(r) == TranslateKeyToChar(r.key) = "leaves"
IsByte(r) == TranslateKeyToChar(r.key) = "char"

-----------------------------------------------------------------------------
(* EhBASIC.                                                                *)

Command == mode' = "line" /\ asking' = "command" /\ typed' = FALSE

\* LAB_127E: an empty line is asked for again; any other is executed or entered.
CommandLine ==
  IF ~typed THEN Command /\ UNCHANGED ccnull
  ELSE \/ mode' = "statement" /\ typed' = FALSE /\ UNCHANGED <<asking, ccnull>>
       \/ Command /\ ccnull' = 0      \* a program line: LAB_1477

\* LAB_INPUT: an empty answer is a break.
InputLine ==
  /\ IF typed THEN mode' = "check" /\ typed' = FALSE /\ UNCHANGED asking ELSE Command
  /\ UNCHANGED ccnull

(* LAB_1359, the line editor. A character up to the space starts no line, and Ctrl-C is a
   character like others once there is one. *)
EditLine ==
  /\ focus = "basic" /\ mode = "line"
  /\ \E r \in VEC_IN(TRUE) :
       /\ Read(r)
       /\ IF Leaves(r) THEN Leave
          ELSE /\ UNCHANGED <<focus, ccbyte, last>>
               /\ CASE ~IsByte(r)       -> UNCHANGED <<mode, asking, typed, ccnull>>
                    [] r.key.key = "cr" -> IF asking = "command" THEN CommandLine ELSE InputLine
                    [] OTHER            -> /\ typed' = (typed \/ r.key.key = "char")
                                           /\ UNCHANGED <<mode, asking, ccnull>>

\* Mutant: the byte is kept but not looked at.
CheckKeeps(r) ==
  /\ mode' = "statement" /\ UNCHANGED <<asking, typed>>
  /\ IF IsByte(r) THEN ccbyte' = r.key /\ ccnull' = Life
     ELSE ccnull' = (IF ccnull = 0 THEN 0 ELSE ccnull - 1) /\ UNCHANGED ccbyte

(* VEC_CC, LAB_1636: a byte is kept for GET, Ctrl-C too, and Ctrl-C stops the program;
   without a byte the one kept gets older. *)
Checked(r) ==
  IF IsByte(r)
  THEN /\ ccbyte' = r.key /\ ccnull' = Life
       /\ IF r.key.key = "ctrlC" THEN Command ELSE mode' = "statement" /\ UNCHANGED <<asking, typed>>
  ELSE /\ ccnull' = IF ccnull = 0 THEN 0 ELSE ccnull - 1
       /\ mode' = "statement" /\ UNCHANGED <<ccbyte, asking, typed>>

\* LAB_15C2.
Check ==
  /\ focus = "basic" /\ mode = "check"
  /\ \E r \in VEC_IN(FALSE) :
       /\ Read(r)
       /\ IF Leaves(r) THEN Leave ELSE Checked(r) /\ UNCHANGED <<focus, last>>

\* Mutant: a byte from the queue leaves the one kept.
IngetKeeping(r) ==
  IF IsByte(r) THEN last' = r.key.n /\ UNCHANGED ccnull
  ELSE IF ccnull = 0 THEN UNCHANGED <<last, ccnull>>
       ELSE last' = ccbyte.n /\ ccnull' = 0

\* INGET: a byte from the queue, or else the one kept; none is kept any longer.
INGET(r) ==
  CASE IsByte(r)                -> last' = r.key.n /\ ccnull' = 0
    [] ~IsByte(r) /\ ccnull > 0 -> last' = ccbyte.n /\ ccnull' = 0
    [] OTHER                    -> UNCHANGED <<last, ccnull>>

Get ==
  /\ focus = "basic" /\ mode = "statement"
  /\ \E r \in VEC_IN(FALSE) :
       /\ Read(r)
       /\ IF Leaves(r) THEN Leave
          ELSE INGET(r) /\ mode' = "check" /\ UNCHANGED <<focus, asking, typed, ccbyte>>

\* Any other statement goes back to the loop; RUN and CLEAR forget the key (LAB_1480).
Statement ==
  /\ focus = "basic" /\ mode = "statement"
  /\ \/ mode' = "check" /\ ccnull' \in {0, ccnull} /\ UNCHANGED <<asking, typed>>
     \/ mode' = "line" /\ asking' = "input" /\ typed' = FALSE /\ UNCHANGED ccnull
     \/ Command /\ UNCHANGED ccnull   \* END, STOP, an error, the end of the program
  /\ UNCHANGED <<focus, keyboard, ccbyte, last>>

BasicStep == EditLine \/ Check \/ Get \/ Statement

-----------------------------------------------------------------------------
(* getchar, and the system.                                                *)

(* getchar waits for a key that has a character, scanning only while the queue is empty;
   the applet calls it over and over. *)
Getchar ==
  /\ focus = "reader"
  /\ \/ queue = <<>> /\ \E q \in Scans : Scanned(q) /\ UNCHANGED <<down, focus, basic>>
     \/ /\ queue # <<>> /\ queue' = Tail(queue) /\ UNCHANGED <<down, fresh, noticed>>
        /\ IF TranslateKeyToChar(Head(queue)) = "leaves" THEN Leave ELSE UNCHANGED <<focus, basic>>

\* The menu, or the system on behalf of an applet that reads no keys itself.
System ==
  /\ focus \in {Menu, "hello"}
  /\ \E q \in Scans :
       /\ fresh' = {} /\ noticed' = noticed + Cardinality(fresh)
       /\ queue' = Taken(q) /\ UNCHANGED down
       /\ IF Got(q).key = "applets" THEN Leave ELSE UNCHANGED <<focus, basic>>

Next ==
  \/ WrapperSetFocus \/ HelloSetFocus \/ ReaderSetFocus
  \/ \E k \in Keys : Press(k) \/ Release(k)
  \/ EditLine \/ Check \/ Get \/ Statement \/ Getchar \/ System

(* An applet with the focus keeps running: the processor does nothing else, and each of these
   steps ends, but for the statements WAIT, which polls an address without a look at the
   keyboard (lines 4814-4818), and CALL, which this assumption excludes. The user and the
   system owe nobody anything. *)
Spec == Init /\ [][Next]_vars /\ WF_vars(BasicStep) /\ WF_vars(Getchar)

-----------------------------------------------------------------------------
(* What is checked.                                                        *)

KeyPress == [n : 1..MaxKeys, key : Keys]

\* The type invariant of the session.
TypeOK ==
  /\ focus \in Applets \cup {Menu}
  /\ down \subseteq Keys /\ fresh \subseteq down
  /\ queue \in Seq(KeyPress) /\ noticed \in 0..MaxKeys
  /\ mode \in {"line", "check", "statement"} /\ asking \in {"command", "input"}
  /\ typed \in BOOLEAN
  /\ ccbyte \in KeyPress \cup {NoKey} /\ ccnull \in 0..Life /\ last \in 0..MaxKeys

(***************************************************************************)
(* GET delivers keys in the order they were typed and none twice, although *)
(* a key may wait in two places, the queue and ccbyte (lines 7166, 7184):  *)
(* whatever GET could deliver next is younger than what it delivered.      *)
(***************************************************************************)
GetsInOrder ==
  /\ ccnull > 0 => last < ccbyte.n
  /\ \A i \in DOMAIN queue : last < queue[i].n /\ (ccnull > 0 => ccbyte.n < queue[i].n)

Readers == {"basic", "reader"}

(***************************************************************************)
(* A key held down is noticed or released, also by a running program that  *)
(* only scans while a key is held (lines 91-96): it does not take a key    *)
(* for nothing or look at an old queue for ever.                           *)
(***************************************************************************)
HeldKeysNoticed == \A k \in Keys : (k \in fresh /\ focus \in Readers) ~> (k \notin fresh \/ focus = Menu)

(***************************************************************************)
(* A key on the queue is taken from it, by whichever of the line editor,   *)
(* the Ctrl-C check, GET and getchar runs, also when it was released.      *)
(***************************************************************************)
KeysTaken ==
  \A n \in 1..MaxKeys :
    ((\E i \in DOMAIN queue : queue[i].n = n) /\ focus \in Readers)
      ~> ((\A i \in DOMAIN queue : queue[i].n # n) \/ focus = Menu)

(***************************************************************************)
(* Ctrl-C stops a running program: unless GET takes it first, or the       *)
(* program asks for input, the prompt comes back.                          *)
(***************************************************************************)
CtrlCStops ==
  \A n \in 1..MaxKeys :
    (focus = "basic" /\ mode # "line" /\ \E i \in DOMAIN queue : queue[i] = [n |-> n, key |-> "ctrlC"])
      ~> (mode = "line" \/ last = n \/ focus = Menu)

=============================================================================
