-------------------------- MODULE BasicControlProofs --------------------------
EXTENDS BasicControl, TLAPS

(***************************************************************************)
(* Proofs about the interpreter loop.  None of its properties is           *)
(* inductive: where GOTO may start its search and where CONT goes on       *)
(* depends on where the execute, the continue and the break pointers are   *)
(* in each mode, and on the places that the frames on the stack lead back  *)
(* to.  IInv says that, for as long as the focus was not lost (~lost).     *)
(***************************************************************************)

Running  == {"statement", "input", "more"}
Between  == {"check", "execute"}

\* GOTO from a place p finds every line, or the next statement is the first of a line.
Settled(p, line) == p.done = Statements \/ (line # IMMEDIATE /\ p.line <= line)

\* The stack and its history.
StackTyped ==
  /\ stack \in Seq(Entries) /\ Len(stack) <= Len(shadow)
  /\ shadow \in Seq(Frames) /\ Len(shadow) <= MaxFrames
  /\ strays \in 0..MaxStrays /\ strayed \in BOOLEAN /\ lost \in BOOLEAN

Modes == {"prompt", "check", "execute", "statement", "input", "more", "list", "away"}

\* The places, and where the execute pointer is in which mode.
PlacesOK ==
  /\ mode \in Modes
  /\ at \in Places \cup {InBuffer} /\ Cpntrl \in Places \cup {Nowhere} /\ due \in Places
  /\ Clinel \in {IMMEDIATE} \cup 0..Lines /\ Blinel \in {IMMEDIATE} \cup 0..Lines
  /\ mode \in Running => at \in Places
  /\ mode = "prompt" => at = InBuffer
  /\ mode # "away" /\ at = InBuffer => Clinel = IMMEDIATE

Typed == StackTyped /\ PlacesOK /\ ifs \in 0..MaxIfs

\* Between statements the execute pointer is behind the last one executed.
Between1 == mode \in Between /\ at # InBuffer => at = due /\ Settled(at, Clinel)

\* In the loop the continue pointer is the execute pointer.
Noted ==
  /\ mode = "check" /\ Clinel = IMMEDIATE /\ at # InBuffer => Cpntrl = at
  /\ mode = "execute" /\ at # InBuffer => Cpntrl = at

\* In a statement the continue pointer is where the statement began.
InStatement ==
  mode \in Running =>
    /\ Clinel # IMMEDIATE /\ at.line <= Clinel
    /\ Cpntrl = due /\ Settled(due, Clinel)

InList == mode = "list" /\ at # InBuffer => at = due /\ Clinel # IMMEDIATE /\ at.line <= Clinel

\* At the prompt, or in LIST as a command.
AtPrompt ==
  mode \in {"prompt", "list"} \cup Between /\ at = InBuffer /\ Cpntrl # Nowhere =>
    Cpntrl = due /\ Settled(Cpntrl, Blinel)

FramesSettled ==
  \A i \in DOMAIN stack :
    stack[i].frame.line # IMMEDIATE /\ stack[i].frame.at.line <= stack[i].frame.line

PlacesKept == Between1 /\ Noted /\ InStatement /\ InList /\ AtPrompt

\* The frames on the stack are the last ones that the program pushed ...
Matched ==
  /\ \A i \in DOMAIN stack : stack[i].frame = shadow[i]
  /\ ~lost => Len(stack) = Len(shadow)

\* ... and nothing is between them.
Clean == ~strayed => strays = 0 /\ \A i \in DOMAIN stack : stack[i].strays = 0

IInv == Typed /\ Matched /\ Clean /\ (~lost => PlacesKept /\ FramesSettled)
-----------------------------------------------------------------------------
(* Sequences.                                                              *)

LEMMA Empty == ASSUME NEW S PROVE <<>> \in Seq(S) /\ Len(<<>>) = 0
  OBVIOUS

LEMMA Pushed ==
  ASSUME NEW S, NEW s \in Seq(S), NEW x \in S
  PROVE  /\ <<x>> \o s \in Seq(S) /\ Len(<<x>> \o s) = Len(s) + 1
         /\ (<<x>> \o s)[1] = x
         /\ \A i \in DOMAIN s : (<<x>> \o s)[i + 1] = s[i]
         /\ \A i \in DOMAIN (<<x>> \o s) : i = 1 \/ (i - 1 \in DOMAIN s /\ (<<x>> \o s)[i] = s[i - 1])
  OBVIOUS

LEMMA Popped ==
  ASSUME NEW S, NEW s \in Seq(S), s # <<>>
  PROVE  /\ Tail(s) \in Seq(S) /\ Len(Tail(s)) = Len(s) - 1
         /\ 1 \in DOMAIN s /\ Head(s) = s[1] /\ Head(s) \in S
         /\ \A i \in DOMAIN Tail(s) : i + 1 \in DOMAIN s /\ Tail(s)[i] = s[i + 1]
  OBVIOUS

-----------------------------------------------------------------------------
(* Types.                                                                  *)

LEMMA PlacesTyped ==
  /\ InBuffer \notin Places /\ Nowhere \notin Places /\ InBuffer # Nowhere
  /\ \A n \in 1..Lines : EndOf(n - 1) \in Places /\ EndOf(n - 1).line = n - 1 /\ EndOf(n - 1).done = Statements
  /\ EndOf(0) \in Places /\ EndOf(Lines) \in Places
  /\ \A p \in Places : p.line \in 0..Lines /\ p.done \in 0..Statements
  BY BasicControlAssumption DEF InBuffer, Nowhere, Places, EndOf, IMMEDIATE

LEMMA InitTyped == Init => Typed
<1> SUFFICES ASSUME Init PROVE Typed
  OBVIOUS
<1>1. stack = <<>> /\ shadow = <<>> /\ lost = FALSE /\ strayed = FALSE /\ strays = 0
  BY DEF Init
<1>2. StackTyped
  <2>1. stack \in Seq(Entries) /\ shadow \in Seq(Frames)
    BY <1>1, Empty
  <2>2. Len(stack) <= Len(shadow) /\ Len(shadow) <= MaxFrames /\ strays \in 0..MaxStrays
    BY <1>1, Empty, BasicControlAssumption
  <2> QED BY <1>1, <2>1, <2>2 DEF StackTyped
<1>3. /\ mode = "away" /\ at = InBuffer /\ Cpntrl = Nowhere /\ due = EndOf(0)
      /\ Clinel = IMMEDIATE /\ Blinel = 0
  BY DEF Init
<1>4. 0 \in 0..Lines /\ EndOf(0) \in Places
  BY PlacesTyped, BasicControlAssumption
<1>5. PlacesOK
  BY <1>3, <1>4 DEF PlacesOK, Running, Modes
<1>6. ifs \in 0..MaxIfs
  BY BasicControlAssumption DEF Init
<1> QED BY <1>2, <1>5, <1>6 DEF Typed

LEMMA FlushTyped == Flush /\ lost' \in BOOLEAN => StackTyped'
<1> SUFFICES ASSUME Flush, lost' \in BOOLEAN PROVE StackTyped'
  OBVIOUS
<1>1. stack' \in Seq(Entries) /\ shadow' \in Seq(Frames)
  BY Empty DEF Flush
<1>2. Len(stack') <= Len(shadow') /\ Len(shadow') <= MaxFrames /\ strays' \in 0..MaxStrays
  BY Empty, BasicControlAssumption DEF Flush
<1> QED BY <1>1, <1>2 DEF Flush, StackTyped

LEMMA LeaveTyped ==
  ASSUME StackTyped, NEW n \in Nat, LeaveAddresses(n), strayed' \in BOOLEAN, lost' = lost
  PROVE  StackTyped'
BY BasicControlAssumption DEF LeaveAddresses, StackTyped

LEMMA PushTyped ==
  ASSUME StackTyped, NEW kind \in {"gosub", "do"}, Push(kind),
         at \in Places, Clinel \in {IMMEDIATE} \cup 0..Lines
  PROVE  StackTyped'
<1>1. FrameOf(kind) \in Frames
  BY DEF FrameOf, Frames
<1>2. [frame |-> FrameOf(kind), strays |-> strays] \in Entries
  BY <1>1 DEF Entries, StackTyped
<1>3. stack' \in Seq(Entries) /\ Len(stack') = Len(stack) + 1
  BY <1>2, Pushed DEF Push, StackTyped
<1>4. shadow' \in Seq(Frames) /\ Len(shadow') = Len(shadow) + 1
  BY <1>1, Pushed DEF Push, StackTyped
<1>5. Len(stack) \in Nat /\ Len(shadow) \in Nat
  BY DEF StackTyped
<1> QED BY <1>3, <1>4, <1>5, BasicControlAssumption DEF Push, StackTyped

\* What is popped from the stack is popped from the history, too.
LEMMA PoppedBoth ==
  ASSUME StackTyped, Pop, stack # <<>>
  PROVE  shadow # <<>> /\ shadow' = Tail(shadow) /\ stack' = Tail(stack)
<1>1. Len(stack) > 0 /\ Len(stack) <= Len(shadow)
  BY DEF StackTyped
<1>2. shadow # <<>>
  BY <1>1 DEF StackTyped
<1> QED BY <1>2 DEF Pop

LEMMA PopTyped ==
  ASSUME StackTyped, Pop, stack # <<>>
  PROVE  StackTyped'
<1>1. stack' \in Seq(Entries) /\ Len(stack') = Len(stack) - 1 /\ Head(stack) \in Entries
  BY PoppedBoth, Popped DEF StackTyped
<1>2. shadow' \in Seq(Frames) /\ Len(shadow') = Len(shadow) - 1
  BY PoppedBoth, Popped DEF StackTyped
<1>3. strays' \in 0..MaxStrays
  BY <1>1 DEF Pop, Entries
<1>4. Len(stack) \in Nat /\ Len(shadow) \in Nat
  BY DEF StackTyped
<1> QED BY <1>1, <1>2, <1>3, <1>4, BasicControlAssumption DEF Pop, StackTyped

\* The frame a handler finds.
LEMMA FoundTyped ==
  ASSUME StackTyped, NEW kind \in {"gosub", "do"}, Finds(kind)
  PROVE  /\ stack # <<>> /\ 1 \in DOMAIN stack /\ Head(stack) = stack[1]
         /\ Head(stack).frame \in Frames
         /\ Head(stack).frame.at \in Places /\ Head(stack).frame.line \in {IMMEDIATE} \cup 0..Lines
<1>1. stack # <<>> /\ 1 \in DOMAIN stack /\ Head(stack) = stack[1] /\ Head(stack) \in Entries
  BY Popped DEF StackTyped, Finds
<1>2. Head(stack).frame \in Frames
  BY <1>1 DEF Entries
<1> QED BY <1>1, <1>2 DEF Frames

LEMMA EndOfLine == \A p \in Places : EndOf(p.line) \in Places
BY BasicControlAssumption DEF Places, EndOf

\* Where a jump leads.
LEMMA JumpPlaces ==
  ASSUME PlacesOK, NEW n \in 1..Lines, Jump(n)
  PROVE  PlacesOK' /\ at' \in Places /\ mode' = "check"
BY PlacesTyped DEF Jump, GoOnAt, PlacesOK, Running, Modes

LEMMA GoOnPlaces ==
  ASSUME PlacesOK, NEW p \in Places, NEW line \in {IMMEDIATE} \cup 0..Lines, GoOnAt(p, line),
         Cpntrl' \in {Cpntrl, Nowhere, p}, Blinel' = Blinel
  PROVE  PlacesOK'
BY PlacesTyped DEF GoOnAt, PlacesOK, Running, Modes

LEMMA BreakPlaces == PlacesOK /\ Break /\ due' = due => PlacesOK'
BY PlacesTyped DEF Break, WarmStart, PlacesOK, Running, Modes

LEMMA ErrorPlaces == PlacesOK /\ Error => PlacesOK'
BY PlacesTyped DEF Error, WarmStart, PlacesOK, Running, Modes

LEMMA SamePlaces ==
  ASSUME PlacesOK, UNCHANGED <<places, due>>, mode' \in Modes \ {"prompt"},
         mode' \in Running => at \in Places,
         mode # "away"
  PROVE  PlacesOK'
BY DEF places, PlacesOK, Running, Modes

LEMMA SameStack == StackTyped /\ UNCHANGED <<frames, lost>> => StackTyped'
BY DEF frames, StackTyped

\* Only IF counts up.
LEMMA IfsStep == Typed /\ [Next]_vars => ifs' \in 0..MaxIfs
<1> SUFFICES ASSUME Typed, [Next]_vars PROVE ifs' \in 0..MaxIfs
  OBVIOUS
<1>1. ifs' \in {ifs, 0} \/ (ifs < MaxIfs /\ ifs' = ifs + 1) \/ ifs' \in 0..MaxIfs
  BY DEF Next, vars, WarmStart, GoOnAt, GoOn, BackTo, Jump, Break, Error, Checked, CtrlC, AtEnd, Fetch, Other,
     If, Else, SkipLine, Clear, Goto, Gosub, Return, Do, Loop, Stop, Fails, Input, InputNull, InputGiven,
     MoreNull, List, Listed, ListCtrlC, Run, CommandGoto, CommandCont, CommandFails, CommandList,
     CommandStop, EnterLine, Leave, EhBASIC_Resume
<1>2. ifs \in 0..MaxIfs
  BY DEF Typed
<1> QED BY <1>1, <1>2, BasicControlAssumption

LEMMA TypedStep == Typed /\ [Next]_vars => Typed'
<1> SUFFICES ASSUME Typed, [Next]_vars PROVE StackTyped' /\ PlacesOK'
  BY IfsStep DEF Typed
<1> USE DEF Typed
<1>1. CASE Checked
  <2>1. PlacesOK'
    BY <1>1, PlacesTyped DEF Checked, PlacesOK, Running, Modes
  <2> QED BY <1>1, <2>1, SameStack DEF Checked
<1>2. CASE CtrlC
  BY <1>2, BreakPlaces, SameStack DEF CtrlC
<1>3. CASE AtEnd
  <2>1. PlacesOK'
    BY <1>3, PlacesTyped DEF AtEnd, WarmStart, PlacesOK, Running, Modes
  <2> QED BY <1>3, <2>1, SameStack DEF AtEnd
<1>4. CASE Fetch
  <2>1. at \in Places
    BY <1>4 DEF Fetch, PlacesOK
  <2>2. CASE at.done = Statements
    <3>1. at # EndOf(Lines) /\ at.line \in 0..Lines
      BY <1>4, <2>1, PlacesTyped DEF Fetch
    <3>2. at.line # Lines
      BY <2>1, <2>2, <3>1 DEF Places, EndOf
    <3>3. [line |-> at.line + 1, done |-> 1] \in Places /\ at.line + 1 \in 0..Lines
      BY <3>1, <3>2, BasicControlAssumption DEF Places
    <3>4. PlacesOK'
      BY <1>4, <2>2, <3>3, PlacesTyped DEF Fetch, PlacesOK, Running, Modes
    <3> QED BY <1>4, <3>4, SameStack DEF Fetch
  <2>3. CASE at.done # Statements
    <3>1. [at EXCEPT !.done = @ + 1] \in Places
      BY <2>1, <2>3, BasicControlAssumption DEF Places, EndOf
    <3>2. PlacesOK'
      BY <1>4, <2>3, <3>1, PlacesTyped DEF Fetch, PlacesOK, Running, Modes
    <3> QED BY <1>4, <3>2, SameStack DEF Fetch
  <2> QED BY <2>2, <2>3
<1>5. CASE Other
  BY <1>5, GoOnPlaces, SameStack DEF Other, GoOn, PlacesOK, Running
<1>30. CASE If
  BY <1>30, SamePlaces, SameStack DEF If, PlacesOK, Running, Modes
<1>31. CASE Else
  <2> PICK d \in at.done..Statements : at' = [at EXCEPT !.done = d]
    BY <1>31 DEF Else
  <2>1. at \in Places
    BY <1>31 DEF Else, PlacesOK, Running
  <2>2. [at EXCEPT !.done = d] \in Places
    BY <2>1, BasicControlAssumption DEF Places, EndOf
  <2>3. PlacesOK'
    BY <1>31, <2>2, PlacesTyped DEF Else, PlacesOK, Running, Modes
  <2> QED BY <1>31, <2>3, SameStack DEF Else
<1>32. CASE SkipLine
  <2>1. EndOf(at.line) \in Places
    BY <1>32, EndOfLine DEF SkipLine, PlacesOK, Running
  <2> QED BY <1>32, <2>1, GoOnPlaces, SameStack DEF SkipLine, PlacesOK
<1>6. CASE Clear
  <2>1. StackTyped'
    BY <1>6, FlushTyped DEF Clear, StackTyped
  <2>2. CASE GoOnAt(at, Clinel)
    BY <1>6, <2>1, <2>2, GoOnPlaces DEF Clear, PlacesOK, Running
  <2>3. CASE mode' = "away" /\ due' = at /\ UNCHANGED <<at, Clinel>>
    <3>1. PlacesOK'
      BY <1>6, <2>3, PlacesTyped DEF Clear, PlacesOK, Running, Modes
    <3> QED BY <2>1, <3>1
  <2> QED BY <1>6, <2>2, <2>3 DEF Clear
<1>7. CASE Goto
  BY <1>7, JumpPlaces, SameStack DEF Goto
<1>8. CASE Gosub
  BY <1>8, JumpPlaces, PushTyped DEF Gosub, PlacesOK, Running
<1>9. CASE Return
  <2>1. Head(stack).frame.at \in Places /\ Head(stack).frame.line \in {IMMEDIATE} \cup 0..Lines /\ stack # <<>>
    BY <1>9, FoundTyped DEF Return
  <2> QED BY <1>9, <2>1, GoOnPlaces, PopTyped DEF Return, BackTo
<1>10. CASE Do
  BY <1>10, GoOnPlaces, PushTyped DEF Do, GoOn, PlacesOK, Running
<1>11. CASE Loop
  <2>1. Head(stack).frame.at \in Places /\ Head(stack).frame.line \in {IMMEDIATE} \cup 0..Lines /\ stack # <<>>
    BY <1>11, FoundTyped DEF Loop
  <2>2. CASE BackTo(Head(stack).frame) /\ UNCHANGED <<frames, lost>>
    BY <2>1, <2>2, GoOnPlaces, SameStack DEF BackTo
  <2>3. CASE GoOn /\ Pop
    BY <2>1, <2>3, GoOnPlaces, PopTyped DEF GoOn, PlacesOK, Running
  <2> QED BY <1>11, <2>2, <2>3 DEF Loop
<1>12. CASE Stop
  <2>1. at \in Places
    BY <1>12 DEF Stop, PlacesOK, Running
  <2>2. PlacesOK'
    BY <1>12, <2>1, PlacesTyped DEF Stop, Break, WarmStart, PlacesOK, Running, Modes
  <2> QED BY <1>12, <2>2, LeaveTyped DEF Stop, StackTyped
<1>13. CASE Fails
  BY <1>13, ErrorPlaces, FlushTyped DEF Fails, Error
<1>14. CASE Input
  BY <1>14, SamePlaces, SameStack DEF Input, PlacesOK, Running, Modes
<1>15. CASE InputNull
  <2>1. PlacesOK'
    BY <1>15, PlacesTyped DEF InputNull, WarmStart, PlacesOK, Running, Modes
  <2> QED BY <1>15, <2>1, LeaveTyped DEF InputNull, StackTyped
<1>16. CASE InputGiven
  <2>1. at \in Places
    BY <1>16 DEF InputGiven, PlacesOK, Running
  <2>2. CASE GoOnAt(at, Clinel) /\ UNCHANGED <<Blinel, Cpntrl>>
    BY <1>16, <2>1, <2>2, GoOnPlaces, SameStack DEF InputGiven, PlacesOK
  <2>3. CASE mode' = "more" /\ UNCHANGED <<places, due>>
    BY <1>16, <2>1, <2>3, SamePlaces, SameStack DEF InputGiven, Modes
  <2>4. CASE Cpntrl # Nowhere /\ GoOnAt(Cpntrl, Clinel) /\ UNCHANGED <<Blinel, Cpntrl>>
    <3>1. Cpntrl \in Places
      BY <2>4 DEF PlacesOK
    <3> QED BY <1>16, <2>4, <3>1, GoOnPlaces, SameStack DEF InputGiven, PlacesOK
  <2> QED BY <1>16, <2>2, <2>3, <2>4 DEF InputGiven
<1>17. CASE MoreNull
  <2>1. PlacesOK'
    BY <1>17, PlacesTyped DEF MoreNull, WarmStart, PlacesOK, Running, Modes
  <2> QED BY <1>17, <2>1, LeaveTyped DEF MoreNull
<1>18. CASE List
  <2>1. PlacesOK'
    BY <1>18 DEF List, places, PlacesOK, Running, Modes
  <2> QED BY <1>18, <2>1, SameStack DEF List
<1>19. CASE Listed
  BY <1>19, SamePlaces, SameStack DEF Listed, Running, Modes
<1>20. CASE ListCtrlC
  <2>1. StackTyped'
    BY <1>20, LeaveTyped DEF ListCtrlC, StackTyped
  <2> QED BY <1>20, <2>1, BreakPlaces DEF ListCtrlC
<1>21. CASE Run
  <2>1. StackTyped'
    BY <1>21, FlushTyped DEF Run
  <2>2. CASE GoOnAt(EndOf(0), Clinel) /\ Cpntrl' = EndOf(0) /\ UNCHANGED Blinel
    BY <2>1, <2>2, GoOnPlaces, PlacesTyped DEF PlacesOK
  <2>3. CASE \E n \in 1..Lines : Jump(n)
    BY <2>1, <2>3, JumpPlaces
  <2> QED BY <1>21, <2>2, <2>3 DEF Run
<1>22. CASE CommandGoto
  BY <1>22, JumpPlaces, SameStack DEF CommandGoto
<1>23. CASE CommandCont
  <2>1. PlacesOK'
    BY <1>23, PlacesTyped DEF CommandCont, PlacesOK, Running, Modes
  <2> QED BY <1>23, <2>1, SameStack DEF CommandCont
<1>24. CASE CommandFails
  BY <1>24, ErrorPlaces, FlushTyped DEF CommandFails, Error
<1>25. CASE CommandList
  BY <1>25, SamePlaces, SameStack DEF CommandList, Running, Modes
<1>33. CASE CommandStop
  <2>1. PICK n \in 1..MaxIfs : LeaveAddresses(n)
    BY <1>33 DEF CommandStop
  <2>2. StackTyped'
    BY <1>33, <2>1, LeaveTyped, BasicControlAssumption DEF CommandStop, StackTyped
  <2> QED BY <1>33, <2>2, BreakPlaces DEF CommandStop
<1>26. CASE EnterLine
  <2>1. PlacesOK'
    BY <1>26, PlacesTyped DEF EnterLine, PlacesOK, Running, Modes
  <2> QED BY <1>26, <2>1, FlushTyped DEF EnterLine
<1>27. CASE Leave
  <2>1. PlacesOK'
    BY <1>27 DEF Leave, places, PlacesOK, Running, Modes
  <2> QED BY <1>27, <2>1, SameStack DEF Leave
<1>28. CASE EhBASIC_Resume
  <2>1. PlacesOK'
    BY <1>28, PlacesTyped DEF EhBASIC_Resume, WarmStart, PlacesOK, Running, Modes
  <2>2. stack' \in Seq(Entries) /\ strays' \in 0..MaxStrays
    BY <1>28, Empty, BasicControlAssumption DEF EhBASIC_Resume
  <2>3. Len(stack') <= Len(shadow') /\ shadow' = shadow
    BY <1>28, Empty DEF EhBASIC_Resume, StackTyped
  <2> QED BY <1>28, <2>1, <2>2, <2>3 DEF EhBASIC_Resume, StackTyped
<1>29. CASE UNCHANGED vars
  <2>1. PlacesOK' BY <1>29 DEF vars, places, PlacesOK
  <2> QED BY <1>29, <2>1, SameStack DEF vars
<1> QED BY <1>1, <1>2, <1>3, <1>4, <1>5, <1>6, <1>7, <1>8, <1>9, <1>10, <1>11, <1>12, <1>13,
           <1>14, <1>15, <1>16, <1>17, <1>18, <1>19, <1>20, <1>21, <1>22, <1>23, <1>24, <1>25,
           <1>26, <1>27, <1>28, <1>29, <1>30, <1>31, <1>32, <1>33 DEF Next

-----------------------------------------------------------------------------
(* The frames.                                                             *)

LEMMA PushMatched ==
  ASSUME Typed, Matched, NEW kind \in {"gosub", "do"}, Push(kind), FrameOf(kind) \in Frames
  PROVE  Matched'
<1> DEFINE entry == [frame |-> FrameOf(kind), strays |-> strays]
<1>1. stack \in Seq(Entries) /\ entry \in Entries /\ shadow \in Seq(Frames) /\ Len(stack) <= Len(shadow)
  BY DEF Typed, StackTyped, Entries
<1>2. stack' = <<entry>> \o stack /\ shadow' = <<FrameOf(kind)>> \o shadow /\ lost' = lost
  BY DEF Push
<1>3. entry.frame = FrameOf(kind)
  OBVIOUS
<1> HIDE DEF entry
<1>4. /\ Len(stack') = Len(stack) + 1 /\ stack'[1] = entry
      /\ \A i \in DOMAIN stack' : i = 1 \/ (i - 1 \in DOMAIN stack /\ stack'[i] = stack[i - 1])
  BY <1>1, <1>2, Pushed
<1>5. /\ Len(shadow') = Len(shadow) + 1 /\ shadow'[1] = FrameOf(kind)
      /\ \A i \in DOMAIN shadow : shadow'[i + 1] = shadow[i]
  BY <1>1, <1>2, Pushed
<1>6. DOMAIN stack = 1..Len(stack) /\ DOMAIN shadow = 1..Len(shadow)
  BY <1>1
<1>7. \A i \in DOMAIN stack' : stack'[i].frame = shadow'[i]
  <2> TAKE i \in DOMAIN stack'
  <2>1. CASE i = 1
    BY <2>1, <1>3, <1>4, <1>5
  <2>2. CASE i # 1
    <3>1. i - 1 \in DOMAIN stack /\ stack'[i] = stack[i - 1] /\ i - 1 \in DOMAIN shadow
      BY <2>2, <1>1, <1>4, <1>6
    <3>2. shadow'[i] = shadow[i - 1]
      BY <3>1, <1>5, <1>6
    <3> QED BY <3>1, <3>2 DEF Matched
  <2> QED BY <2>1, <2>2
<1> QED BY <1>2, <1>4, <1>5, <1>7 DEF Matched

LEMMA PopMatched ==
  ASSUME Typed, Matched, Pop, stack # <<>>
  PROVE  Matched'
<1>1. stack \in Seq(Entries) /\ shadow \in Seq(Frames) /\ Len(stack) <= Len(shadow)
  BY DEF Typed, StackTyped
<1>2. shadow # <<>> /\ stack' = Tail(stack) /\ shadow' = Tail(shadow) /\ lost' = lost
  BY PoppedBoth DEF Typed, Pop
<1>3. /\ Len(stack') = Len(stack) - 1
      /\ \A i \in DOMAIN stack' : i + 1 \in DOMAIN stack /\ stack'[i] = stack[i + 1]
  BY <1>1, <1>2, Popped
<1>4. /\ Len(shadow') = Len(shadow) - 1 /\ shadow' \in Seq(Frames)
      /\ \A i \in DOMAIN shadow' : shadow'[i] = shadow[i + 1]
  BY <1>1, <1>2, Popped
<1>5. stack' \in Seq(Entries)
  BY <1>1, <1>2, Popped
<1>6. DOMAIN stack' = 1..Len(stack') /\ DOMAIN shadow' = 1..Len(shadow')
  BY <1>4, <1>5
<1>7. \A i \in DOMAIN stack' : i \in DOMAIN shadow'
  BY <1>1, <1>3, <1>4, <1>5, <1>6
<1> QED BY <1>1, <1>2, <1>3, <1>4, <1>7 DEF Matched

LEMMA MatchedStep == Typed /\ Matched /\ [Next]_vars => Matched'
<1> SUFFICES ASSUME Typed, Matched, [Next]_vars PROVE Matched'
  OBVIOUS
<1>1. CASE Flush
  BY <1>1, Empty DEF Flush, Matched
<1>2. CASE UNCHANGED <<stack, shadow, lost>>
  BY <1>2 DEF Matched
<1>3. ASSUME NEW kind \in {"gosub", "do"}, Push(kind), mode = "statement" PROVE Matched'
  <2>1. FrameOf(kind) \in Frames
    BY <1>3 DEF FrameOf, Frames, Typed, PlacesOK, Running
  <2> QED BY <1>3, <2>1, PushMatched
<1>4. CASE Pop /\ stack # <<>>
  BY <1>4, PopMatched
<1>5. CASE EhBASIC_Resume
  BY <1>5, Empty DEF EhBASIC_Resume, Matched
<1> QED BY <1>1, <1>2, <1>3, <1>4, <1>5
    DEF Next, vars, frames, LeaveAddresses, GoOn, Checked, CtrlC, AtEnd, Fetch, Other, If, Else, SkipLine,
        Clear, Goto, Gosub, Return, Do, Loop, Stop, Fails, Error, Input, InputNull, InputGiven, MoreNull,
        List, Listed, ListCtrlC, Run, CommandGoto, CommandCont, CommandFails, CommandList, CommandStop,
        EnterLine, Leave, Finds

\* STOP, END and a null INPUT drop exactly the loop's return address, unless IF is in between.
LEMMA CleanStep == Typed /\ Clean /\ [Next]_vars => Clean'
<1> SUFFICES ASSUME Typed, Clean, [Next]_vars, ~strayed' PROVE strays' = 0 /\ \A i \in DOMAIN stack' : stack'[i].strays = 0
  BY DEF Clean
<1>1. CASE stack' = <<>> /\ strays' = 0
  BY <1>1, Empty
<1>2. CASE UNCHANGED <<stack, strays, strayed>>
  BY <1>2 DEF Clean
<1>3. ASSUME NEW kind \in {"gosub", "do"}, Push(kind) PROVE strays' = 0 /\ \A i \in DOMAIN stack' : stack'[i].strays = 0
  <2> DEFINE entry == [frame |-> FrameOf(kind), strays |-> strays]
             S == Entries \cup {entry}
  <2>1. stack \in Seq(S) /\ entry \in S /\ stack' = <<entry>> \o stack
    BY <1>3 DEF Typed, StackTyped, Push
  <2>2. ~strayed /\ strays' = 0 /\ entry.strays = strays
    BY <1>3 DEF Push
  <2> HIDE DEF entry
  <2>3. /\ stack'[1] = entry
        /\ \A i \in DOMAIN stack' : i = 1 \/ (i - 1 \in DOMAIN stack /\ stack'[i] = stack[i - 1])
    BY <2>1, Pushed
  <2> QED BY <2>2, <2>3 DEF Clean
<1>4. CASE Pop /\ stack # <<>>
  <2>1. stack \in Seq(Entries) /\ stack' = Tail(stack) /\ strays' = Head(stack).strays /\ ~strayed
    BY <1>4 DEF Typed, StackTyped, Pop
  <2>2. /\ 1 \in DOMAIN stack /\ Head(stack) = stack[1]
        /\ \A i \in DOMAIN stack' : i + 1 \in DOMAIN stack /\ stack'[i] = stack[i + 1]
    BY <2>1, <1>4, Popped
  <2> QED BY <2>1, <2>2 DEF Clean
<1>5. CASE Stop \/ InputNull
  <2>1. ~strayed /\ ~(ifs > 0)
    BY <1>5, Zenon DEF Stop, InputNull
  <2>2. LeaveAddresses(ifs)
    BY <1>5 DEF Stop, InputNull
  <2>3. ifs = 0
    BY <2>1, BasicControlAssumption DEF Typed
  <2> QED BY <2>1, <2>2, <2>3 DEF LeaveAddresses, Clean, Typed, StackTyped
<1>6. CASE MoreNull \/ ListCtrlC \/ CommandStop
  BY <1>6 DEF MoreNull, ListCtrlC, CommandStop
<1> QED BY <1>1, <1>2, <1>3, <1>4, <1>5, <1>6
    DEF Next, vars, frames, Flush, GoOn, Checked, CtrlC, AtEnd, Fetch, Other, If, Else, SkipLine,
        Clear, Goto, Gosub, Return, Do, Loop, Fails, Error, Input, InputGiven,
        List, Listed, Run, CommandGoto, CommandCont, CommandFails, CommandList,
        EnterLine, Leave, EhBASIC_Resume, Finds

LEMMA FramesSettledStep ==
  Typed /\ PlacesKept /\ FramesSettled /\ Next /\ ~lost /\ ~lost' => FramesSettled'
<1> SUFFICES ASSUME Typed, PlacesKept, FramesSettled, Next, ~lost, ~lost' PROVE FramesSettled'
  OBVIOUS
<1>1. CASE UNCHANGED stack
  BY <1>1 DEF FramesSettled
<1>2. CASE stack' = <<>>
  BY <1>2 DEF FramesSettled
<1>4. ASSUME NEW kind \in {"gosub", "do"}, Push(kind), mode = "statement" PROVE FramesSettled'
  <2> DEFINE entry == [frame |-> FrameOf(kind), strays |-> strays]
             S == Entries \cup {entry}
  <2>1. stack \in Seq(S) /\ entry \in S /\ stack' = <<entry>> \o stack
    BY <1>4 DEF Typed, StackTyped, Push
  <2>2. entry.frame.line = Clinel /\ entry.frame.at = at
    BY DEF FrameOf
  <2> HIDE DEF entry
  <2>3. /\ stack'[1] = entry
        /\ \A i \in DOMAIN stack' : i = 1 \/ (i - 1 \in DOMAIN stack /\ stack'[i] = stack[i - 1])
    BY <2>1, Pushed
  <2>4. Clinel # IMMEDIATE /\ at.line <= Clinel
    BY <1>4 DEF PlacesKept, InStatement, Running
  <2> QED BY <2>2, <2>3, <2>4 DEF FramesSettled
<1>5. CASE Pop /\ stack # <<>>
  <2>1. stack \in Seq(Entries)
    BY DEF Typed, StackTyped
  <2>2. \A i \in DOMAIN stack' : i + 1 \in DOMAIN stack /\ stack'[i] = stack[i + 1]
    BY <2>1, <1>5, Popped DEF Pop
  <2> QED BY <2>2 DEF FramesSettled
<1> QED BY <1>1, <1>2, <1>4, <1>5
    DEF Next, frames, GoOn, Flush, LeaveAddresses, Checked, CtrlC, AtEnd, Fetch, Other, If, Else, SkipLine,
        Clear, Goto, Gosub, Return, Do, Loop, Stop, Fails, Error, Input, InputNull, InputGiven, MoreNull,
        List, Listed, ListCtrlC, Run, CommandGoto, CommandCont, CommandFails, CommandList, CommandStop,
        EnterLine, Leave, EhBASIC_Resume, Finds

-----------------------------------------------------------------------------
(* The places.                                                             *)

LEMMA GoOnKept ==
  ASSUME NEW p \in Places, NEW line \in {IMMEDIATE} \cup 0..Lines, GoOnAt(p, line), Settled(p, line),
         line # IMMEDIATE \/ Cpntrl' = p
  PROVE  PlacesKept'
BY PlacesTyped DEF GoOnAt, PlacesKept, Between1, Between, Noted, InStatement, InList, AtPrompt, Running, Settled

LEMMA JumpKept ==
  ASSUME PlacesOK, NEW n \in 1..Lines, Jump(n)
  PROVE  PlacesKept'
<1>1. EndOf(n - 1) \in Places /\ Settled(EndOf(n - 1), Clinel)
  BY PlacesTyped DEF Settled
<1> QED BY <1>1, GoOnKept DEF Jump, PlacesOK

\* At the prompt with nothing to go on with, or behind the last statement.
LEMMA PromptKept ==
  ASSUME WarmStart, Cpntrl' # Nowhere => Cpntrl' = due' /\ Settled(Cpntrl', Blinel')
  PROVE  PlacesKept'
BY PlacesTyped DEF WarmStart, PlacesKept, Between1, Between, Noted, InStatement, InList, AtPrompt, Running

LEMMA BreakKept ==
  ASSUME Typed, PlacesKept, Break, due' = due,
         mode \in {"check", "list"}
  PROVE  PlacesKept'
<1>1. CASE at = InBuffer
  BY <1>1, PromptKept DEF Break, PlacesKept, AtPrompt, Between
<1>2. CASE at # InBuffer
  <2>1. at = due /\ Settled(at, Clinel)
    BY <1>2 DEF PlacesKept, Between1, Between, InList, Settled
  <2>2. Cpntrl' = at /\ Blinel' = Clinel
    BY <1>2 DEF Break
  <2> QED BY <2>1, <2>2, PromptKept DEF Break
<1> QED BY <1>1, <1>2

\* What the steps that begin anew need of the places: nothing, whatever a lost focus left.
LEMMA ErrorKept == Error => PlacesKept'
BY PromptKept DEF Error

LEMMA RunKept == Typed /\ Run => PlacesKept'
<1> SUFFICES ASSUME Typed, Run PROVE PlacesKept'
  OBVIOUS
<1>1. CASE \E n \in 1..Lines : Jump(n)
  BY <1>1, JumpKept DEF Typed
<1>2. CASE GoOnAt(EndOf(0), Clinel) /\ Cpntrl' = EndOf(0)
  <2>1. EndOf(0) \in Places /\ Settled(EndOf(0), Clinel)
    BY PlacesTyped DEF EndOf, Settled
  <2> QED BY <1>2, <2>1, GoOnKept DEF Typed, PlacesOK
<1> QED BY <1>1, <1>2 DEF Run

LEMMA EnterKept == Typed /\ EnterLine => PlacesKept'
BY DEF EnterLine, Typed, PlacesOK, PlacesKept, Between1, Between, Noted, InStatement, InList, AtPrompt, Running

LEMMA PlacesKeptStep ==
  Typed /\ PlacesKept /\ FramesSettled /\ Next /\ ~lost /\ ~lost' => PlacesKept'
<1> SUFFICES ASSUME Typed, PlacesKept, FramesSettled, Next, ~lost, ~lost' PROVE PlacesKept'
  OBVIOUS
<1> USE DEF Typed
<1>a. mode = "statement" =>
        /\ at \in Places /\ Clinel \in 0..Lines /\ Clinel # IMMEDIATE /\ Settled(at, Clinel)
        /\ Cpntrl = due /\ Settled(due, Clinel)
  BY DEF PlacesOK, PlacesKept, InStatement, Running, Settled
<1>1. CASE Checked
  BY <1>1, PlacesTyped DEF Checked, PlacesOK,
     PlacesKept, Between1, Between, Noted, InStatement, InList, AtPrompt, Running
<1>2. CASE CtrlC
  BY <1>2, BreakKept DEF CtrlC
<1>3. CASE AtEnd
  <2>1. CASE at = InBuffer
    BY <1>3, <2>1, PromptKept DEF AtEnd, PlacesKept, AtPrompt, Between
  <2>2. CASE at # InBuffer
    <3>1. at = EndOf(Lines) /\ at = due /\ Cpntrl = at
      BY <1>3, <2>2 DEF AtEnd, PlacesKept, Between1, Between, Noted
    <3>2. EndOf(Lines).done = Statements
      BY DEF EndOf
    <3> QED BY <1>3, <3>1, <3>2, PromptKept DEF AtEnd, Settled
  <2> QED BY <2>1, <2>2
<1>4. CASE Fetch
  <2>1. at \in Places /\ at.line \in 0..Lines /\ at = due /\ Cpntrl = at /\ Settled(at, Clinel)
    BY <1>4, PlacesTyped DEF Fetch, PlacesOK, PlacesKept, Between1, Between, Noted
  <2>2. mode' = "statement" /\ Cpntrl' = due'
    BY <1>4, <2>1 DEF Fetch
  <2>3. CASE at.done = Statements
    <3>1. at'.line = at.line + 1 /\ Clinel' = at.line + 1 /\ Settled(due', Clinel')
      BY <1>4, <2>1, <2>3 DEF Fetch, Settled
    <3>2. Clinel' # IMMEDIATE /\ at'.line <= Clinel'
      BY <3>1, <2>1 DEF IMMEDIATE
    <3> QED BY <2>2, <3>1, <3>2
        DEF PlacesKept, Between1, Between, Noted, InStatement, InList, AtPrompt, Running
  <2>4. CASE at.done # Statements
    <3>1. at'.line = at.line /\ Clinel' = Clinel /\ due' = at
      BY <1>4, <2>1, <2>4 DEF Fetch, Places, EndOf
    <3>2. Clinel' # IMMEDIATE /\ at'.line <= Clinel' /\ Settled(due', Clinel')
      BY <2>1, <2>4, <3>1 DEF Settled
    <3> QED BY <2>2, <3>2
        DEF PlacesKept, Between1, Between, Noted, InStatement, InList, AtPrompt, Running
  <2> QED BY <2>3, <2>4
<1>5. CASE Other
  BY <1>a, <1>5, GoOnKept DEF Other, GoOn, PlacesOK
<1>30. CASE If
  BY <1>30 DEF If, places, PlacesKept, Between1, Between, Noted, InStatement, InList, AtPrompt, Running
<1>31. CASE Else
  <2>1. at'.line = at.line
    BY <1>a, <1>31 DEF Else, Places, EndOf
  <2> QED BY <1>31, <2>1
      DEF Else, PlacesKept, Between1, Between, Noted, InStatement, InList, AtPrompt, Running
<1>32. CASE SkipLine
  <2>1. EndOf(at.line) \in Places /\ Settled(EndOf(at.line), Clinel)
    BY <1>a, <1>32, EndOfLine DEF SkipLine, EndOf, Settled
  <2> QED BY <1>a, <1>32, <2>1, GoOnKept DEF SkipLine, PlacesOK
<1>6. CASE Clear
  <2>1. CASE GoOnAt(at, Clinel)
    BY <1>a, <1>6, <2>1, GoOnKept DEF Clear, PlacesOK
  <2>2. CASE mode' = "away"
    BY <2>2 DEF PlacesKept, Between1, Between, Noted, InStatement, InList, AtPrompt, Running
  <2> QED BY <1>6, <2>1, <2>2 DEF Clear
<1>7. CASE Goto
  BY <1>7, JumpKept DEF Goto
<1>8. CASE Gosub
  BY <1>8, JumpKept DEF Gosub
<1>b. ASSUME NEW kind \in {"gosub", "do"}, Finds(kind), BackTo(Head(stack).frame) PROVE PlacesKept'
  <2> DEFINE p == Head(stack).frame.at
             l == Head(stack).frame.line
  <2>1. p \in Places /\ l \in {IMMEDIATE} \cup 0..Lines
    BY <1>b, FoundTyped
  <2>2. l # IMMEDIATE /\ Settled(p, l)
    BY <1>b, FoundTyped DEF FramesSettled, Settled
  <2>3. GoOnAt(p, l)
    BY <1>b DEF BackTo
  <2> QED BY <2>1, <2>2, <2>3, GoOnKept
<1>9. CASE Return
  BY <1>9, <1>b DEF Return
<1>10. CASE Do
  BY <1>a, <1>10, GoOnKept DEF Do, GoOn, PlacesOK
<1>11. CASE Loop
  <2>1. CASE BackTo(Head(stack).frame)
    BY <1>11, <2>1, <1>b DEF Loop
  <2>2. CASE GoOn
    BY <1>a, <2>2, GoOnKept DEF GoOn, PlacesOK
  <2> QED BY <1>11, <2>1, <2>2 DEF Loop
<1>12. CASE Stop
  <2>1. at # InBuffer
    BY <1>a, <1>12, PlacesTyped DEF Stop
  <2>2. Cpntrl' = at /\ Blinel' = Clinel /\ due' = at
    BY <1>12, <2>1 DEF Stop, Break
  <2> QED BY <1>a, <1>12, <2>2, PromptKept DEF Stop, Break
<1>13. CASE Error
  BY <1>13, ErrorKept
<1>14. CASE Input
  BY <1>14 DEF Input, places, PlacesKept, Between1, Between, Noted, InStatement, InList, AtPrompt, Running
<1>15. CASE InputNull
  BY <1>15, PromptKept DEF InputNull, PlacesKept, InStatement, Running
<1>16. CASE InputGiven
  <2>1. at \in Places /\ Clinel # IMMEDIATE /\ Settled(at, Clinel) /\ Clinel \in {IMMEDIATE} \cup 0..Lines
    BY <1>16 DEF InputGiven, PlacesOK, PlacesKept, InStatement, Running, Settled
  <2>2. CASE GoOnAt(at, Clinel)
    BY <2>1, <2>2, GoOnKept
  <2>3. CASE mode' = "more" /\ UNCHANGED <<places, due>>
    BY <1>16, <2>3
       DEF InputGiven, places, PlacesKept, Between1, Between, Noted, InStatement, InList, AtPrompt, Running
  <2>4. CASE Cpntrl # Nowhere /\ GoOnAt(Cpntrl, Clinel)
    <3>1. Cpntrl \in Places /\ Settled(Cpntrl, Clinel)
      BY <1>16, <2>4 DEF InputGiven, PlacesOK, PlacesKept, InStatement, Running
    <3> QED BY <2>1, <2>4, <3>1, GoOnKept
  <2> QED BY <1>16, <2>2, <2>3, <2>4 DEF InputGiven
<1>17. CASE MoreNull
  BY <1>17, PromptKept DEF MoreNull, PlacesKept, InStatement, Running
<1>18. CASE List
  <2>1. at # InBuffer /\ mode' = "list" /\ UNCHANGED places /\ due' = at
    BY <1>a, <1>18, PlacesTyped DEF List
  <2>2. Clinel # IMMEDIATE /\ at.line <= Clinel
    BY <1>18 DEF List, PlacesKept, InStatement, Running
  <2> QED BY <2>1, <2>2
      DEF places, PlacesKept, Between1, Between, Noted, InStatement, InList, AtPrompt, Running
<1>19. CASE Listed
  BY <1>19
     DEF Listed, places, PlacesKept, Between1, Between, Noted, InStatement, InList, AtPrompt, Running, Settled
<1>20. CASE ListCtrlC
  BY <1>20, BreakKept DEF ListCtrlC
<1>21. CASE Run
  BY <1>21, RunKept
<1>22. CASE CommandGoto
  BY <1>22, JumpKept DEF CommandGoto
<1>23. CASE CommandCont
  <2>1. at = InBuffer /\ Cpntrl \in Places /\ Cpntrl = due /\ Settled(Cpntrl, Blinel)
    BY <1>23 DEF CommandCont, PlacesOK, PlacesKept, AtPrompt
  <2> QED BY <1>23, <2>1, PlacesTyped
      DEF CommandCont, PlacesKept, Between1, Between, Noted, InStatement, InList, AtPrompt, Running
<1>24. CASE CommandList
  <2>1. at = InBuffer
    BY <1>24 DEF CommandList, PlacesOK
  <2> QED BY <1>24, <2>1
      DEF CommandList, places, PlacesKept, Between1, Between, Noted, InStatement, InList, AtPrompt, Running
<1>33. CASE CommandStop
  <2>1. at = InBuffer
    BY <1>33 DEF CommandStop, PlacesOK
  <2> QED BY <1>33, <2>1, PromptKept DEF CommandStop, Break, PlacesKept, AtPrompt
<1>25. CASE EnterLine
  BY <1>25, EnterKept
<1>26. CASE Leave
  BY <1>26 DEF Leave, PlacesKept, Between1, Between, Noted, InStatement, InList, AtPrompt, Running
<1>27. CASE EhBASIC_Resume
  BY <1>27 DEF EhBASIC_Resume
<1> QED BY <1>1, <1>2, <1>3, <1>4, <1>5, <1>6, <1>7, <1>8, <1>9, <1>10, <1>11, <1>12, <1>13,
           <1>14, <1>15, <1>16, <1>17, <1>18, <1>19, <1>20, <1>21, <1>22, <1>23, <1>24, <1>25,
           <1>26, <1>27, <1>30, <1>31, <1>32, <1>33 DEF Next, Fails, CommandFails

-----------------------------------------------------------------------------
(* The inductive invariant.                                                *)

LEMMA IInvInit == Init => IInv
<1> SUFFICES ASSUME Init PROVE IInv
  OBVIOUS
<1>1. Matched /\ Clean /\ FramesSettled
  BY Empty DEF Init, Matched, Clean, FramesSettled
<1>2. PlacesKept
  BY DEF Init, PlacesKept, Between1, Between, Noted, InStatement, InList, AtPrompt, Running
<1> QED BY <1>1, <1>2, InitTyped DEF IInv

\* Only an error, RUN and an entered line begin anew after the focus was lost.
LEMMA IInvStep == IInv /\ [Next]_vars => IInv'
<1> SUFFICES ASSUME IInv, [Next]_vars PROVE IInv'
  OBVIOUS
<1>1. Typed' /\ Matched' /\ Clean'
  BY TypedStep, MatchedStep, CleanStep DEF IInv
<1>2. ASSUME ~lost' PROVE PlacesKept' /\ FramesSettled'
  <2>1. CASE UNCHANGED vars
    BY <1>2, <2>1 DEF IInv, vars, places, frames, PlacesKept, Between1, Noted, InStatement, InList,
       AtPrompt, FramesSettled, Settled
  <2>2. CASE Next /\ ~lost
    BY <1>2, <2>2, PlacesKeptStep, FramesSettledStep DEF IInv
  <2>3. CASE Next /\ lost
    <3>1. Error \/ Run \/ EnterLine
      BY <1>2, <2>3
         DEF Next, frames, GoOn, Push, Pop, Checked, CtrlC, AtEnd, Fetch, Other, If, Else, SkipLine, Clear,
             Goto, Gosub, Return, Do, Loop, Stop, Fails, Input, InputNull, InputGiven, MoreNull, List, Listed, ListCtrlC,
             CommandGoto, CommandCont, CommandFails, CommandList, CommandStop, Leave, EhBASIC_Resume
    <3>2. PlacesKept'
      BY <3>1, ErrorKept, RunKept, EnterKept DEF IInv
    <3>3. stack' = <<>>
      BY <3>1 DEF Error, Run, EnterLine, Flush
    <3> QED BY <3>2, <3>3 DEF FramesSettled
  <2> QED BY <2>1, <2>2, <2>3
<1> QED BY <1>1, <1>2 DEF IInv

LEMMA IInvHolds == Spec => []IInv
BY IInvInit, IInvStep, PTL DEF Spec

-----------------------------------------------------------------------------
(* What follows, for programs of any length and stacks of any depth.       *)

(* The interpreter's control variables keep their types: the execute pointer is in the
   program or in the input buffer, never behind the program's end (EhBASIC.asm:1138-1163). *)
THEOREM TypeCorrect == Spec => []TypeOK
<1>1. IInv => TypeOK
  <2> SUFFICES ASSUME IInv PROVE TypeOK
    OBVIOUS
  <2>1. Len(stack) <= MaxFrames
    BY BasicControlAssumption DEF IInv, Typed, StackTyped
  <2> QED BY <2>1 DEF IInv, Typed, StackTyped, PlacesOK, Modes, TypeOK
<1> QED BY <1>1, IInvHolds, PTL

(* GOTO and GOSUB can find every line of the program from wherever a statement runs
   (EhBASIC.asm:1363-1386), if the applet did not lose the focus. *)
THEOREM LinesReachableAlways == Spec => []LinesReachable
<1>1. IInv => LinesReachable
  <2> SUFFICES ASSUME IInv, mode = "statement", ~lost, NEW n \in 1..Lines PROVE Reachable(n)
    BY DEF LinesReachable
  <2>1. at \in Places /\ Clinel \in 0..Lines /\ at.line <= Clinel
    BY DEF IInv, Typed, PlacesOK, PlacesKept, InStatement, Running
  <2>2. at.line \in 0..Lines
    BY <2>1, PlacesTyped
  <2> QED BY <2>1, <2>2, BasicControlAssumption DEF Reachable
<1> QED BY <1>1, IInvHolds, PTL

(* RETURN and LOOP take the innermost frame of the program or none, and find it through Ctrl-C,
   STOP, a null INPUT and CONT, if IF calls neither them nor what was broken off, LIST and second
   prompts were not broken off, and the focus was not lost (EhBASIC.asm:1223-1243, 1394-1452, 1543). *)
THEOREM FramesFoundAlways == Spec => []FramesFound
<1>1. IInv => FramesFound
  <2> SUFFICES ASSUME IInv
               PROVE  /\ \A kind \in {"gosub", "do"} : Finds(kind) => shadow # <<>> /\ Head(stack).frame = Head(shadow)
                      /\ ~strayed /\ ~lost /\ ifs = 0 /\ shadow # <<>> => Finds(Head(shadow).kind)
    BY DEF FramesFound
  <2>1. stack \in Seq(Entries) /\ shadow \in Seq(Frames) /\ Len(stack) <= Len(shadow)
    BY DEF IInv, Typed, StackTyped
  <2>2. ASSUME stack # <<>> PROVE shadow # <<>> /\ Head(stack).frame = Head(shadow)
    <3>1. Len(stack) > 0
      BY <2>1, <2>2
    <3>2. shadow # <<>> /\ 1 \in DOMAIN stack /\ Head(stack) = stack[1] /\ Head(shadow) = shadow[1]
      BY <2>1, <2>2, <3>1
    <3> QED BY <3>2 DEF IInv, Matched
  <2>3. ASSUME ~strayed, ~lost, ifs = 0, shadow # <<>> PROVE Finds(Head(shadow).kind)
    <3>1. Len(stack) = Len(shadow) /\ strays = 0
      BY <2>3 DEF IInv, Matched, Clean
    <3>2. stack # <<>>
      BY <3>1, <2>1, <2>3
    <3> QED BY <2>2, <2>3, <3>1, <3>2 DEF Finds
  <2> QED BY <2>2, <2>3 DEF Finds
<1> QED BY <1>1, IInvHolds, PTL

(* CONT goes on behind the last statement executed, in every program
   (EhBASIC.asm:1293-1305). *)
THEOREM ContRepeatsNothingAlways == Spec => ContRepeatsNothing
<1>1. IInv /\ [Next]_vars => [CommandCont /\ ~lost => at' = due]_vars
  <2> SUFFICES ASSUME IInv, CommandCont, ~lost PROVE at' = due
    OBVIOUS
  <2>1. mode = "prompt" /\ Cpntrl # Nowhere /\ at' = Cpntrl
    BY DEF CommandCont
  <2>2. at = InBuffer
    BY <2>1 DEF IInv, Typed, PlacesOK
  <2> QED BY <2>1, <2>2 DEF IInv, PlacesKept, AtPrompt
<1> QED BY <1>1, IInvHolds, PTL DEF Spec, ContRepeatsNothing

=============================================================================
