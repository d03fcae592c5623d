----------------------------- MODULE BasicControl -----------------------------
(***************************************************************************)
(* EhBASIC's interpreter loop with what it keeps on the 68000 stack and    *)
(* what a break leaves behind for CONT: applets/EhBASIC/EhBASIC.asm and    *)
(* wrapper.c.                                                              *)
(*                                                                         *)
(* The program is any program of Lines lines with Statements statements    *)
(* each: a step executes whichever statement it likes.  The execute        *)
(* pointer (a3) is [line, done]: done statements of the line were passed,  *)
(* and [line, Statements] is its end; InBuffer is a place in the input     *)
(* line, InProgram any other.                                              *)
(*                                                                         *)
(* The stack, top first, holds the frames of GOSUB and DO.  A frame lies   *)
(* on the address its statement would have returned to, and a handler      *)
(* finds its frame 4 bytes below the top (4(%sp)), under the one address   *)
(* it returns to.  More addresses than that one hide the frame: ifs of     *)
(* them, because IF runs the statement behind THEN as a subroutine (line   *)
(* 1543), and strays of them, which a break has left behind for good.      *)
(***************************************************************************)
EXTENDS Integers, Sequences

CONSTANTS
  Lines,       \* lines of the program
  Statements,  \* statements of a line
  MaxFrames,   \* bound on the stack: GOSUB and DO have no check of their own
  MaxIfs,      \* bound on IFs inside each other
  MaxStrays    \* bound on addresses left behind

ASSUME BasicControlAssumption ==
  /\ Lines \in Nat \ {0} /\ Statements \in Nat \ {0}
  /\ MaxFrames \in Nat /\ MaxIfs \in Nat /\ MaxStrays \in Nat

IMMEDIATE == -1       \* Clinel while a line is typed or executed at once
InBuffer  == [line |-> IMMEDIATE, done |-> 0]
Nowhere   == [line |-> IMMEDIATE, done |-> 1]   \* Cpntrl is null
EndOf(l)  == [line |-> l, done |-> Statements]  \* line 0: before the first line
Places    == {EndOf(0)} \cup [line : 1..Lines, done : 0..Statements]
Frames    == [kind : {"gosub", "do"}, line : {IMMEDIATE} \cup 0..Lines, at : Places]
Entries   == [frame : Frames, strays : 0..MaxStrays]  \* a frame and the strays under it

VARIABLES
  mode,     \* "prompt", "check" (LAB_15C2), "execute" (LAB_15D1), "statement" (a handler),
            \* "input", "more" (the second prompt of INPUT), "list" or "away" (no focus)
  at,       \* a3
  Clinel,   \* current line
  Blinel,   \* line of the last break
  Cpntrl,   \* continue pointer
  stack,
  strays,   \* stray addresses above the top frame
  ifs,      \* IFs whose THEN the handler was called from
  shadow,   \* history: the frames the program pushed and not yet popped, since the last flush
  due,      \* history: the place behind the last statement that was executed
  lost,     \* history: the focus was lost since the program began, or failed, or was edited
  strayed   \* history: LIST, a second prompt or a THEN was broken off since the last flush

places == <<at, Clinel, Blinel, Cpntrl>>
frames == <<stack, strays, shadow, strayed>>
vars == <<mode, places, frames, ifs, due, lost>>

Init ==
  /\ mode = "away" /\ at = InBuffer
  /\ Clinel = IMMEDIATE /\ Blinel = 0 /\ Cpntrl = Nowhere
  /\ stack = <<>> /\ strays = 0 /\ ifs = 0
  /\ shadow = <<>> /\ due = EndOf(0) /\ lost = FALSE /\ strayed = FALSE

-----------------------------------------------------------------------------
(* Warm start, flush, errors, breaks.                                      *)

\* LAB_1274: the prompt. The stack is left as it is.
WarmStart == mode' = "prompt" /\ at' = InBuffer /\ Clinel' = IMMEDIATE /\ ifs' = 0

\* LAB_1491, but for the continue pointer.
Flush == stack' = <<>> /\ strays' = 0 /\ shadow' = <<>> /\ strayed' = FALSE

\* LAB_XERR.
Error == Flush /\ lost' = FALSE /\ Cpntrl' = Nowhere /\ WarmStart /\ UNCHANGED <<Blinel, due>>

\* Mutant: the line of the break is not kept.
BreakWithoutLine ==
  WarmStart /\ UNCHANGED Blinel /\ IF at = InBuffer THEN UNCHANGED Cpntrl ELSE Cpntrl' = at

\* Mutant: CONT goes on where the loop last noted the execute pointer.
BreakAtNoted ==
  WarmStart /\ UNCHANGED Cpntrl /\ IF at = InBuffer THEN UNCHANGED Blinel ELSE Blinel' = Clinel

\* LAB_163B: CONT will go on at the execute pointer, unless that is in the input line.
Break ==
  /\ WarmStart
  /\ IF at = InBuffer THEN UNCHANGED <<Cpntrl, Blinel>> ELSE Cpntrl' = at /\ Blinel' = Clinel

\* LAB_164F drops one return address; n others above the top frame stay for good.
LeaveAddresses(n) ==
  /\ strays + n <= MaxStrays /\ strays' = strays + n
  /\ UNCHANGED <<stack, shadow>>

-----------------------------------------------------------------------------
(* The interpreter loop.                                                   *)

\* LAB_15C2, no Ctrl-C: the place before the next statement is where CONT would go on.
Checked ==
  /\ mode = "check" /\ mode' = "execute"
  /\ Cpntrl' = IF Clinel = IMMEDIATE THEN Cpntrl ELSE at
  /\ UNCHANGED <<at, Clinel, Blinel, frames, ifs, due, lost>>

\* Mutant: the return address of the check is not dropped.
CtrlCUndropped == mode = "check" /\ Break /\ LeaveAddresses(1) /\ UNCHANGED <<strayed, due, lost>>

\* LAB_15C2 with Ctrl-C. The address the check was called from is dropped.
CtrlC == mode = "check" /\ Break /\ UNCHANGED <<frames, due, lost>>

\* LAB_15DC: the end of the input line, or of the program.
AtEnd ==
  /\ mode = "execute" /\ at \in {InBuffer, EndOf(Lines)}
  /\ WarmStart
  /\ UNCHANGED <<Blinel, Cpntrl, frames, due, lost>>

\* Mutant: the end of the program is not seen.
FetchPastEnd ==
  /\ mode = "execute" /\ mode' = "statement" /\ at # InBuffer
  /\ IF at.done = Statements THEN at' = [line |-> at.line + 1, done |-> 1] /\ Clinel' = at.line + 1
                             ELSE at' = [at EXCEPT !.done = @ + 1] /\ UNCHANGED Clinel
  /\ UNCHANGED <<Blinel, Cpntrl, frames, ifs, due, lost>>

(* LAB_15D1, 15DC, 15F6: on to the next statement; behind the end of a line that is the
   next line's first one, and its number becomes the current line. While the handler runs,
   at is the place behind the statement. *)
Fetch ==
  /\ mode = "execute" /\ mode' = "statement" /\ at \notin {InBuffer, EndOf(Lines)}
  /\ IF at.done = Statements THEN at' = [line |-> at.line + 1, done |-> 1] /\ Clinel' = at.line + 1
                             ELSE at' = [at EXCEPT !.done = @ + 1] /\ UNCHANGED Clinel
  /\ UNCHANGED <<Blinel, Cpntrl, frames, ifs, due, lost>>

-----------------------------------------------------------------------------
(* Statements.                                                             *)

\* Back to the loop, through the end of every IF on the way (lines 1548-1555).
GoOnAt(p, line) == mode' = "check" /\ at' = p /\ Clinel' = line /\ ifs' = 0 /\ due' = p

GoOn == mode = "statement" /\ GoOnAt(at, Clinel) /\ UNCHANGED <<Blinel, Cpntrl>>

\* Any statement that concerns none of this.
Other == GoOn /\ UNCHANGED <<frames, lost>>

\* LAB_IF, not 0: the statement behind THEN. A line number there, and RETURN, need no call.
If ==
  /\ mode = "statement" /\ ifs < MaxIfs /\ ifs' = ifs + 1
  /\ UNCHANGED <<mode, places, frames, due, lost>>

\* LAB_IF, 0: on with the statement behind the ELSE, in this statement or a later one.
Else ==
  /\ mode = "statement" /\ \E d \in at.done..Statements : at' = [at EXCEPT !.done = d]
  /\ UNCHANGED <<mode, Clinel, Blinel, Cpntrl, frames, ifs, due, lost>>

\* LAB_IF, 0 and no ELSE; REM.
SkipLine ==
  /\ mode = "statement" /\ GoOnAt(EndOf(at.line), Clinel)
  /\ UNCHANGED <<Blinel, Cpntrl, frames, lost>>

(* LAB_CLEAR keeps the one address it was called from. Behind THEN that is IF, whose own
   return (line 1555) finds the stack empty and leaves EhBASIC_Resume. *)
Clear ==
  /\ mode = "statement" /\ Flush /\ Cpntrl' = Nowhere
  /\ \/ ifs = 0 /\ GoOnAt(at, Clinel)
     \/ ifs > 0 /\ mode' = "away" /\ ifs' = 0 /\ due' = at /\ UNCHANGED <<at, Clinel>>
  /\ UNCHANGED <<Blinel, lost>>

(* LAB_GOTO looks for a line above the current one from the execute pointer on, and for any
   other from the start of the program. The comparison is unsigned. *)
Reachable(n) == Clinel = IMMEDIATE \/ n <= Clinel \/ n > at.line

\* The current line is left to LAB_15DC.
Jump(n) ==
  /\ Reachable(n)
  /\ GoOnAt(EndOf(n - 1), Clinel)
  /\ Cpntrl' = EndOf(n - 1) /\ UNCHANGED Blinel

Goto == mode = "statement" /\ (\E n \in 1..Lines : Jump(n)) /\ UNCHANGED <<frames, lost>>

FrameOf(kind) == [kind |-> kind, line |-> Clinel, at |-> at]

\* The addresses of the IFs are under the frame, and lead back to the loop when it is popped.
Push(kind) ==
  /\ Len(shadow) < MaxFrames
  /\ stack' = <<[frame |-> FrameOf(kind), strays |-> strays]>> \o stack /\ strays' = 0
  /\ shadow' = <<FrameOf(kind)>> \o shadow
  /\ UNCHANGED <<strayed, lost>>

Gosub == mode = "statement" /\ (\E n \in 1..Lines : Jump(n)) /\ Push("gosub")

\* What a handler finds at 4(%sp).
Finds(kind) == ifs = 0 /\ strays = 0 /\ stack # <<>> /\ Head(stack).frame.kind = kind

Pop ==
  /\ stack' = Tail(stack) /\ strays' = Head(stack).strays
  /\ shadow' = IF shadow = <<>> THEN shadow ELSE Tail(shadow)
  /\ UNCHANGED <<strayed, lost>>

BackTo(frame) == GoOnAt(frame.at, frame.line) /\ UNCHANGED <<Blinel, Cpntrl>>

Return == mode = "statement" /\ Finds("gosub") /\ BackTo(Head(stack).frame) /\ Pop

Do == GoOn /\ Push("do")

Loop ==
  /\ mode = "statement" /\ Finds("do")
  /\ \/ BackTo(Head(stack).frame) /\ UNCHANGED <<frames, lost>>
     \/ GoOn /\ Pop

\* RETURN without GOSUB, LOOP without DO, an undefined line, and any other error.
Fails == mode \in {"execute", "statement", "input", "more"} /\ Error

\* STOP, and END without its message. Behind THEN the address that is dropped is IF's.
Stop ==
  /\ mode = "statement" /\ Break /\ due' = at
  /\ LeaveAddresses(ifs) /\ strayed' = (strayed \/ ifs > 0) /\ UNCHANGED lost

\* INPUT is refused in a line that is executed at once.
Input ==
  /\ mode = "statement" /\ Clinel # IMMEDIATE /\ mode' = "input"
  /\ UNCHANGED <<places, frames, ifs, due, lost>>

\* A null answer is a break (LAB_1647), and CONT asks again.
InputNull ==
  /\ mode = "input" /\ WarmStart
  /\ LeaveAddresses(ifs) /\ strayed' = (strayed \/ ifs > 0)
  /\ Blinel' = Clinel /\ UNCHANGED <<Cpntrl, due, lost>>

(* An answer ends the statement, or is too short, or is of the wrong type (LAB_1904): then
   the statement is executed anew. Only after a lost focus could there be no place for that. *)
InputGiven ==
  /\ mode \in {"input", "more"}
  /\ \/ GoOnAt(at, Clinel) /\ UNCHANGED <<Blinel, Cpntrl>>
     \/ mode' = "more" /\ UNCHANGED <<places, ifs, due>>
     \/ Cpntrl # Nowhere /\ GoOnAt(Cpntrl, Clinel) /\ UNCHANGED <<Blinel, Cpntrl>>
  /\ UNCHANGED <<frames, lost>>

(* A null answer when more is wanted (line 2171): what is dropped from the stack is the
   execute pointer saved there, and the return address stays. *)
MoreNull ==
  /\ mode = "more" /\ WarmStart /\ LeaveAddresses(ifs + 1) /\ strayed' = TRUE
  /\ Blinel' = Clinel /\ UNCHANGED <<Cpntrl, due, lost>>

\* LIST in a program; it checks for Ctrl-C at every line.
List ==
  /\ mode = "statement" /\ mode' = "list" /\ due' = at
  /\ UNCHANGED <<places, frames, ifs, lost>>

Listed ==
  /\ mode = "list" /\ mode' = "check" /\ ifs' = 0
  /\ UNCHANGED <<places, frames, due, lost>>

(* LIST calls the check itself: what is dropped is the return into LIST, and the address
   LIST would have returned to stays. *)
ListCtrlC ==
  /\ mode = "list" /\ Break /\ LeaveAddresses(ifs + 1) /\ strayed' = TRUE
  /\ UNCHANGED <<due, lost>>

-----------------------------------------------------------------------------
(* Commands, and the focus.                                                *)

\* RUN, RUN n, in a program too: variables cleared, stack flushed.
Run ==
  /\ mode \in {"prompt", "statement"} /\ Flush /\ lost' = FALSE
  /\ \/ GoOnAt(EndOf(0), Clinel) /\ Cpntrl' = EndOf(0) /\ UNCHANGED Blinel
     \/ \E n \in 1..Lines : Jump(n)

CommandGoto == mode = "prompt" /\ (\E n \in 1..Lines : Jump(n)) /\ UNCHANGED <<frames, lost>>

CommandCont ==
  /\ mode = "prompt" /\ Cpntrl # Nowhere
  /\ mode' = "check" /\ at' = Cpntrl /\ Clinel' = Blinel
  /\ UNCHANGED <<Blinel, Cpntrl, frames, ifs, due, lost>>

CommandFails == mode = "prompt" /\ Error

\* LIST, or IF .. THEN LIST.
CommandList ==
  /\ mode = "prompt" /\ mode' = "list" /\ ifs' \in 0..MaxIfs
  /\ UNCHANGED <<places, frames, due, lost>>

\* IF .. THEN STOP, which breaks nothing off but leaves an address too.
CommandStop ==
  /\ mode = "prompt" /\ Break /\ \E n \in 1..MaxIfs : LeaveAddresses(n)
  /\ strayed' = TRUE /\ UNCHANGED <<due, lost>>

\* A program line is entered: the program, the variables and the stack start anew.
EnterLine ==
  /\ mode = "prompt" /\ Flush /\ lost' = FALSE /\ Cpntrl' = Nowhere
  /\ UNCHANGED <<mode, at, Clinel, Blinel, ifs, due>>

\* The key that calls the applet menu, wherever a key is read: the reading does not return.
Leave ==
  /\ mode \in {"prompt", "check", "statement", "input", "more", "list"} /\ mode' = "away"
  /\ UNCHANGED <<places, frames, ifs, due, lost>>

\* MSG_SETFOCUS: the stack begins where EhBASIC_Resume is called now, whatever the program pushed.
EhBASIC_Resume ==
  /\ mode = "away" /\ WarmStart
  /\ stack' = <<>> /\ strays' = 0 /\ strayed' = FALSE /\ lost' = TRUE
  /\ UNCHANGED <<Blinel, Cpntrl, shadow, due>>

Next ==
  \/ Checked \/ CtrlC \/ AtEnd \/ Fetch
  \/ Other \/ If \/ Else \/ SkipLine \/ Clear \/ Goto \/ Gosub \/ Return \/ Do \/ Loop \/ Stop \/ Fails
  \/ Input \/ InputNull \/ InputGiven \/ MoreNull \/ List \/ Listed \/ ListCtrlC
  \/ Run \/ CommandGoto \/ CommandCont \/ CommandFails \/ CommandList \/ CommandStop
  \/ EnterLine \/ Leave \/ EhBASIC_Resume

Spec == Init /\ [][Next]_vars

-----------------------------------------------------------------------------
(* What is checked.                                                        *)

\* The type invariant of the interpreter's control variables.
TypeOK ==
  /\ mode \in {"prompt", "check", "execute", "statement", "input", "more", "list", "away"}
  /\ at \in Places \cup {InBuffer} /\ Cpntrl \in Places \cup {Nowhere}
  /\ Clinel \in {IMMEDIATE} \cup 0..Lines /\ Blinel \in {IMMEDIATE} \cup 0..Lines
  /\ stack \in Seq(Entries) /\ Len(stack) <= MaxFrames /\ shadow \in Seq(Frames)
  /\ strays \in 0..MaxStrays /\ ifs \in 0..MaxIfs

(***************************************************************************)
(* GOTO and GOSUB find every line of the program, although they start the  *)
(* search at the execute pointer when the target lies above the current    *)
(* line (lines 1345-1360): the current line is never below the line the    *)
(* execute pointer is in.  CONT takes it from the last break (line 1304),  *)
(* so this holds only while the program was not left by the applets key,   *)
(* which is no break.                                                      *)
(***************************************************************************)
LinesReachable == mode = "statement" /\ ~lost => \A n \in 1..Lines : Reachable(n)

(***************************************************************************)
(* RETURN and LOOP never take a frame that is not the innermost one of the *)
(* program, whatever broke it off, and also when the focus came back and   *)
(* the stack begins anew (line 478).  And they do find that frame, through *)
(* Ctrl-C, STOP, a null INPUT and CONT, with these exceptions: the         *)
(* statement is itself called by IF (RETURN right behind THEN is not, line *)
(* 1539); since the last flush a STOP, END or null INPUT behind THEN, a    *)
(* LIST or a second prompt of INPUT was broken off; or the focus was lost. *)
(* This is about programs without FOR, whose frames are not modelled.      *)
(***************************************************************************)
FramesFound ==
  mode = "statement" =>
    /\ \A kind \in {"gosub", "do"} : Finds(kind) => shadow # <<>> /\ Head(stack).frame = Head(shadow)
    /\ ~strayed /\ ~lost /\ ifs = 0 /\ shadow # <<>> => Finds(Head(shadow).kind)

(***************************************************************************)
(* CONT neither repeats nor skips a statement: it goes on behind the last  *)
(* one that was executed, or with the INPUT that got no answer.  The       *)
(* pointer is noted after the Ctrl-C check only (lines 1154-1158), so a    *)
(* program left by the applets key in the check repeats one.               *)
(***************************************************************************)
ContRepeatsNothing == [][CommandCont /\ ~lost => at' = due]_vars

=============================================================================
