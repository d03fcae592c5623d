---------------------------- MODULE StringSpace ----------------------------
(***************************************************************************)
(* The strings of EhBASIC (applets/EhBASIC/EhBASIC.asm): string space, the *)
(* descriptor stack, and the garbage collector between them.               *)
(*                                                                         *)
(* A string is a descriptor, an address and a length.  Descriptors live in *)
(* string variables and on the descriptor stack (register a4); the bytes   *)
(* live in the program text (a literal) or in string space, which grows    *)
(* down from Ememl towards the end of the arrays.  An expression holds its *)
(* operands as addresses of descriptors (FAC1_m, and the machine stack),   *)
(* so that the collector may move the bytes under it.                      *)
(*                                                                         *)
(* Every routine of the interpreter is an operator on heap, and every      *)
(* operand carries the text the program should see in it, want.            *)
(***************************************************************************)
EXTENDS Integers, Sequences, FiniteSets

CONSTANTS
  Text,        \* the program text: the bytes below the variables, from address 1
  Literals,    \* descriptors of the string literals in it
  Ememl,       \* end of memory, exclusive
  NVars,       \* string variables (and string array elements) of the program
  Made,        \* strings CHR$, STR$ and the like make
  EmptyOffsets,\* start offsets of slices that turn out empty
  MaxLength,   \* 65535: LAB_224E adds lengths as words
  MaxPending,  \* bound: operands an expression holds at once
  ArrayRoom,   \* bound: how far DIM and new variables push Earryl
  ArrayBytes,  \* bytes of elements of the array a DIM makes
  Ops          \* the operations the program uses

ASSUME StringSpaceAssumption ==
  /\ NVars \in Nat \ {0} /\ MaxPending \in Nat \ {0} /\ MaxLength \in Nat
  /\ ArrayBytes \in Nat /\ Ememl \in Nat /\ Ememl % 2 = 0
  /\ Text \in Seq(STRING) /\ Len(Text) % 2 = 0 /\ Len(Text) + 2 <= Ememl
  /\ Literals \subseteq [ptr : 1..Len(Text), len : Nat]
  /\ \A d \in Literals : d.ptr + d.len <= Len(Text) + 1
  /\ Made \subseteq Seq(STRING) /\ EmptyOffsets \subseteq Nat

\* Room for four descriptors: des_sk_e is 24 bytes below des_sk.
StackMax == 4

VarSize    == 8    \* a new numeric variable: name and value
HeaderSize == 12   \* an array of one dimension: name, size, count, bound

Vars == 1..NVars
Null == [ptr |-> 0, len |-> 0]

\* Even lengths: strings are word aligned.
Even(n) == n + (n % 2)

VARIABLES
  heap,     \* the machine state, see Init
  args,     \* operands of the expression: descriptor address and text
  want,     \* the text the program has assigned to each variable
  frames    \* calls of FN functions in progress

vars == <<heap, args, want, frames>>

-----------------------------------------------------------------------------
(* Descriptors and bytes.                                                  *)

VarRef(v)   == [on |-> "var", at |-> v]
StackRef(i) == [on |-> "stack", at |-> i]

Get(h, r) == IF r.on = "var" THEN h.vars[r.at] ELSE h.slots[r.at]

SetPtr(h, r, ptr) == IF r.on = "var" THEN [h EXCEPT !.vars[r.at].ptr = ptr]
                                     ELSE [h EXCEPT !.slots[r.at].ptr = ptr]

\* Every descriptor in the order the collector meets it: the variables in
\* memory order, then the stack from its top.
Roots(h) == [v \in 1..NVars |-> VarRef(v)]
            \o [i \in 1..h.depth |-> StackRef(h.depth + 1 - i)]

Byte(mem, a) == IF a \in DOMAIN mem THEN mem[a] ELSE "?"

\* What the program sees in descriptor d.
Read(h, d) == [i \in 1..d.len |-> Byte(h.mem, d.ptr + i - 1)]

\* The copy loops run in the direction that is safe for the overlaps they meet.
Copy(mem, src, dst, n) ==
  [a \in DOMAIN mem |-> IF a \in dst..(dst + n - 1) THEN Byte(mem, src + a - dst) ELSE mem[a]]

Lower(c) == IF c = "A" THEN "a" ELSE c

-----------------------------------------------------------------------------
(* The garbage collector, LAB_GARB.                                        *)

\* A descriptor whose string starts at the very end of the arrays.
AtFloor(h) == \E i \in DOMAIN Roots(h) :
                LET d == Get(h, Roots(h)[i]) IN d.len > 0 /\ d.ptr = h.earryl

\* Two descriptors of the same bytes: FN leaves its argument's on the stack.
Shared(h) == \E i, j \in DOMAIN Roots(h) :
               LET d == Get(h, Roots(h)[i])
                   e == Get(h, Roots(h)[j])
               IN  i # j /\ d.len > 0 /\ e.len > 0 /\ d.ptr = e.ptr /\ d.ptr >= h.earryl

(***************************************************************************)
(* LAB_2206, "test and set if this is the highest string".  s holds the    *)
(* heap, the highest string seen in this pass and its descriptor.          *)
(***************************************************************************)
TestHighest(s, r) ==
  LET d == Get(s.h, r)
  IN  IF d.ptr = 0 \/ s.high >= d.ptr \/ d.ptr >= s.h.sstorl THEN s
      ELSE IF d.len > 0 /\ s.h.sstorl - Even(d.len) = d.ptr
           THEN [s EXCEPT !.h.sstorl = d.ptr]
      ELSE [s EXCEPT !.high = d.ptr, !.found = <<r>>]

\* One pass over all descriptors.
Pass(h) ==
  LET seen[i \in 0..Len(Roots(h))] ==
        IF i = 0 THEN [h |-> h, high |-> h.earryl, found |-> <<>>]
        ELSE TestHighest(seen[i - 1], Roots(h)[i])
  IN  seen[Len(Roots(h))]

\* Move the string of descriptor r up against the strings already collected.
\* The word count of an empty string wraps and the copy runs over all memory: nothing follows.
MoveUp(h, r) ==
  LET d    == Get(h, r)
      size == Even(d.len)
      dst  == h.sstorl - size
  IN  IF d.ptr + size = h.sstorl THEN [h EXCEPT !.sstorl = d.ptr]
      ELSE IF size = 0 THEN [h EXCEPT !.err = "wild"]
      ELSE SetPtr([h EXCEPT !.mem = Copy(h.mem, d.ptr, dst, size), !.sstorl = dst], r, dst)

\* One pass after another until a pass finds nothing to move.
AfterPass(s) == IF s.found = <<>> THEN s.h ELSE MoveUp(s.h, s.found[1])

CollectOnce(h) == IF h.err = "wild" THEN h ELSE AfterPass(Pass(h))

Collect(h) ==
  LET passes == Len(Roots(h)) + 1
      start  == [h EXCEPT !.sstorl = Ememl, !.exposed = @ \/ AtFloor(h) \/ Shared(h)]
      after[k \in 0..passes] == IF k = 0 THEN start ELSE CollectOnce(after[k - 1])
  IN  after[passes]

-----------------------------------------------------------------------------
(* String space, LAB_2115, and the descriptor stack.                       *)

\* Mutant of Fits: one word too many.
FitsTight(h, n) == h.sstorl - Even(n) + 2 >= h.earryl

Fits(h, n) == h.sstorl - Even(n) >= h.earryl

Take(h, n) == [h EXCEPT !.sstorl = @ - Even(n), !.utl = h.sstorl - Even(n)]

\* "go try again", once.
Retry(h, n) ==
  IF h.err # "none" THEN h
  ELSE IF Fits(h, n) THEN Take(h, n)
  ELSE [h EXCEPT !.err = "memory", !.need = n]

\* Mutant of Make: nothing is collected.
MakeOnce(h, n, held) ==
  IF h.err # "none" THEN h ELSE IF n = 0 THEN [h EXCEPT !.utl = 0] ELSE Retry(h, n)

\* LAB_2115: space for n bytes, at utl.  held is the address of the bytes
\* the caller will copy, when it kept that instead of the descriptor, or 0.
Make(h, n, held) ==
  IF h.err # "none" THEN h
  ELSE IF n = 0 THEN [h EXCEPT !.utl = 0]
  ELSE IF Fits(h, n) THEN Take(h, n)
  ELSE Retry([Collect(h) EXCEPT !.exposed = @ \/ held >= h.earryl], n)

\* LAB_RTST
Push(h, d) ==
  IF h.err # "none" THEN h
  ELSE IF h.depth = StackMax THEN [h EXCEPT !.err = "complex"]
  ELSE [h EXCEPT !.depth = @ + 1, !.slots[h.depth + 1] = d]

Top(h) == StackRef(h.depth)

\* Mutant of Pop: a variable's bytes are freed too.
PopAny(h, r) ==
  IF h.err # "none" THEN h
  ELSE IF Get(h, r).ptr = h.sstorl
       THEN [h EXCEPT !.depth = IF r = Top(h) THEN @ - 1 ELSE @, !.sstorl = @ + Even(Get(h, r).len)]
       ELSE [h EXCEPT !.depth = IF r = Top(h) THEN @ - 1 ELSE @]

\* LAB_22BA: pop the descriptor if it is on top, and free its bytes if they
\* are the lowest ones.
Pop(h, r) ==
  IF h.err # "none" THEN h
  ELSE LET d == Get(h, r)
           k == IF r = Top(h) THEN [h EXCEPT !.depth = @ - 1] ELSE h
       IN  IF r = StackRef(k.depth + 1) /\ d.ptr = k.sstorl
           THEN [k EXCEPT !.sstorl = @ + Even(d.len)] ELSE k

\* LAB_229E: append the bytes of d to the string being built at utl.
AppendBytes(h, ptr, n) ==
  IF h.err # "none" \/ n = 0 THEN h
  ELSE [h EXCEPT !.mem = Copy(h.mem, ptr, h.utl, n), !.utl = @ + n]

\* The space just made holds a new string: its descriptor is pushed.
PushBuilt(h, at) == Push(h, IF at = 0 THEN Null ELSE [ptr |-> at, len |-> h.utl - at])

\* A string is popped and its bytes, now free, are appended.
AppendPopped(h, r) == LET d == Get(h, r) IN AppendBytes(Pop(h, r), d.ptr, d.len)

\* LAB_224E
Joined(h, r1, r2) ==
  LET d1 == Get(h, r1)
  IN  PushBuilt(Pop(AppendPopped(AppendBytes(h, d1.ptr, d1.len), r2), r1), h.utl)

Concatenate(h, r1, r2) ==
  LET len == Get(h, r1).len + Get(h, r2).len
  IN  IF len > MaxLength THEN [h EXCEPT !.err = "long"]
      ELSE Joined(Make(h, len, 0), r1, r2)

\* LAB_231C: n bytes from an offset of the string of r (LEFT$, RIGHT$, MID$).
\* An empty slice keeps the address it would have started at.
Sliced(h, r, offset, n) ==
  LET from == Get(h, r).ptr + offset
  IN  Push(AppendBytes(Pop(h, r), from, n), [ptr |-> IF n = 0 THEN from ELSE h.utl, len |-> n])

SliceOf(h, r, offset, n) == Sliced(Make(h, n, 0), r, offset, n)

\* The bytes of s are written to the space just made.
Written(h, s) ==
  Push([h EXCEPT !.mem = [a \in DOMAIN @ |->
          IF h.err = "none" /\ a \in h.utl..(h.utl + Len(s) - 1) THEN s[a - h.utl + 1] ELSE @[a]]],
       [ptr |-> h.utl, len |-> Len(s)])

\* LAB_20D8: they are copied from the n bytes at ptr.
Filled(h, ptr, n) == Written(h, [i \in 1..n |-> Byte(h.mem, ptr + i - 1)])

\* LAB_LCASE: the operand is popped before the result's space is made.
LowerCase(h, r) ==
  LET d == Get(h, r)
  IN  IF d.len = 0 THEN Push(Pop(h, r), d)
      ELSE LET made == Make(Pop(h, r), d.len, d.ptr)
           IN  Written(made, [i \in 1..d.len |-> Lower(Byte(made.mem, d.ptr + i - 1))])

\* LAB_20C9: copy the n bytes at ptr to string space, for a string that is not
\* the program's own.  The address is kept across the allocation.
CopyIn(h, ptr, n) ==
  IF n = 0 THEN Push(h, Null) ELSE Filled(Make(h, n, ptr), ptr, n)

\* Mutant of MoveTo: the descriptor stays on the stack.
MoveToUnpopped(h, r, v) == IF h.err # "none" THEN h ELSE [h EXCEPT !.vars[v] = Get(h, r)]

\* LAB_1811: the descriptor of r moves to variable v.
MoveTo(h, r, v) ==
  IF h.err # "none" THEN h
  ELSE [h EXCEPT !.vars[v] = Get(h, r), !.depth = IF r = Top(h) THEN @ - 1 ELSE @]

CopyTo(h, v) == MoveTo(h, Top(h), v)

\* LAB_17D6: assign the operand r to variable v.  A literal's descriptor and a
\* stacked one are moved to the variable; another variable's text is copied.
Assign(h, r, v) ==
  LET d == Get(h, r)
  IN  IF h.err # "none" THEN h
      ELSE IF d.ptr < h.sstorl \/ r.on = "stack" THEN MoveTo(h, r, v)
      ELSE CopyTo(CopyIn(h, d.ptr, d.len), v)

-----------------------------------------------------------------------------
(* The interpreter.                                                        *)

Blank == [a \in 1..(Ememl - 1) |-> IF a <= Len(Text) THEN Text[a] ELSE "?"]

(***************************************************************************)
(*   earryl, sstorl  end of the arrays, bottom of string space             *)
(*   mem, vars       bytes, and the descriptors of the string variables    *)
(*   slots, depth    descriptor stack: its memory, and how much is in use  *)
(*   utl             Sutill, where a string is being built                 *)
(*   err             error the interpreter is about to report              *)
(*   exposed         a collection ran while a string lay at the very end   *)
(*                   of the arrays, while two descriptors named the same   *)
(*                   bytes or while the address of some was held, or bytes *)
(*                   were written past the end of the arrays into strings  *)
(***************************************************************************)
Init ==
  /\ heap = [earryl |-> Len(Text) + 2, sstorl |-> Ememl, mem |-> Blank,
             vars |-> [v \in Vars |-> Null], slots |-> [i \in 1..StackMax |-> Null],
             depth |-> 0, utl |-> 0, err |-> "none", need |-> 0, exposed |-> FALSE]
  /\ args = <<>>
  /\ want = [v \in Vars |-> <<>>]
  /\ frames = <<>>

Arg(i)   == args[Len(args) + 1 - i]          \* the i-th operand from the last
Drop(n)  == SubSeq(args, 1, Len(args) - n)

Operand(r, text) == [ref |-> r, text |-> text]

\* Bytes that no descriptor in use covers are forgotten: no string may rely on
\* them.  So are the slots no operand names.
Tidy(h, rest) ==
  LET refs   == {VarRef(v) : v \in Vars} \cup {StackRef(i) : i \in 1..h.depth}
                \cup {rest[i].ref : i \in DOMAIN rest}
      owned  == UNION {LET d == Get(h, r) IN d.ptr..(d.ptr + d.len - 1) : r \in refs}
  IN  [h EXCEPT !.utl = 0,
                !.mem = [a \in DOMAIN @ |-> IF a \in owned \/ a <= Len(Text) THEN @[a] ELSE "?"],
                !.slots = [i \in 1..StackMax |-> IF StackRef(i) \in refs THEN @[i] ELSE Null]]

\* The routine leaves heap h and the operands rest.
Becomes(h, rest) ==
  LET left == IF h.err = "none" THEN rest ELSE args
  IN  heap' = Tidy(h, left) /\ args' = left

\* A string result on the descriptor stack becomes the last operand.
Yields(h, rest, text) == Becomes(h, Append(rest, Operand(Top(h), text)))

Running(op) == heap.err = "none" /\ op \in Ops

Quiet == args = <<>> /\ frames = <<>>

\* A function's expression has n operands of its own.
Have(n) == Len(args) >= n + (IF frames = <<>> THEN 0 ELSE frames[1].base)

Variable(v) ==
  /\ Running("variable") /\ Len(args) < MaxPending
  /\ args' = Append(args, Operand(VarRef(v), want[v]))
  /\ UNCHANGED <<heap, want, frames>>

Literal(d) ==
  /\ Running("literal") /\ Len(args) < MaxPending
  /\ Yields(Push(heap, d), args, Read(heap, d))
  /\ UNCHANGED <<want, frames>>

\* CHR$, and every function that writes a new string of its own.
NewString(s) ==
  /\ Running("make") /\ Len(args) < MaxPending
  /\ Yields(Written(Make(heap, Len(s), 0), s), args, s)
  /\ UNCHANGED <<want, frames>>

Concat ==
  /\ Running("concat") /\ Have(2)
  /\ Yields(Concatenate(heap, Arg(2).ref, Arg(1).ref), Drop(2), Arg(2).text \o Arg(1).text)
  /\ UNCHANGED <<want, frames>>

Slice ==
  /\ Running("slice") /\ Have(1)
  /\ LET r   == Arg(1).ref
         len == Get(heap, r).len
     IN  \/ \E offset \in 0..(len - 1) : \E n \in 1..(len - offset) :
              Yields(SliceOf(heap, r, offset, n), Drop(1), SubSeq(Arg(1).text, offset + 1, offset + n))
         \/ \E offset \in EmptyOffsets \cup {i \in {0} : len = 0} : Yields(SliceOf(heap, r, offset, 0), Drop(1), <<>>)
  /\ UNCHANGED <<want, frames>>

LCase ==
  /\ Running("lcase") /\ Have(1)
  /\ LET text == Arg(1).text
     IN  Yields(LowerCase(heap, Arg(1).ref), Drop(1), [i \in DOMAIN text |-> Lower(text[i])])
  /\ UNCHANGED <<want, frames>>

\* PRINT, LEN and the other users of one string.
Consume ==
  /\ Running("consume") /\ Have(1)
  /\ Becomes(Pop(heap, Arg(1).ref), Drop(1))
  /\ UNCHANGED <<want, frames>>

\* A comparison pops its second string first.
Compare ==
  /\ Running("compare") /\ Have(2)
  /\ Becomes(Pop(Pop(heap, Arg(1).ref), Arg(2).ref), Drop(2))
  /\ UNCHANGED <<want, frames>>

\* FRE() collects in the middle of an expression.
Fre ==
  /\ Running("fre")
  /\ Becomes(Collect(heap), args)
  /\ UNCHANGED <<want, frames>>

\* LET v$ = expression; "copy" is LET v$ = w$.
Let(v) ==
  /\ Running("let") /\ Len(args) = 1 /\ frames = <<>>
  /\ Arg(1).ref.on = "var" => "copy" \in Ops
  /\ Becomes(Assign(heap, Arg(1).ref, v), <<>>)
  /\ want' = IF heap'.err = "none" THEN [want EXCEPT ![v] = Arg(1).text] ELSE want
  /\ UNCHANGED frames

\* LAB_XERR: the error is reported, the descriptor stack and the machine stack
\* are emptied.  A function variable keeps its argument.
WarmStart ==
  /\ heap.err \notin {"none", "wild"}
  /\ heap' = [heap EXCEPT !.err = "none", !.need = 0, !.depth = 0,
                          !.slots = [i \in 1..StackMax |-> Null]]
  /\ args' = <<>> /\ frames' = <<>>
  /\ UNCHANGED want

-----------------------------------------------------------------------------
(* Variables, arrays and functions.                                        *)

Clobber(mem, from, to) == [a \in DOMAIN mem |-> IF a \in from..to THEN "?" ELSE mem[a]]

\* LAB_1D98: a numeric variable is created; the arrays move up to make room.
NewVariable ==
  /\ Running("newvar") /\ Quiet /\ heap.earryl + VarSize <= ArrayRoom
  /\ Becomes([heap EXCEPT !.earryl = @ + VarSize,
                          !.exposed = @ \/ heap.earryl + VarSize > heap.sstorl,
                          !.mem = Clobber(heap.mem, heap.earryl, heap.earryl + VarSize - 1)], args)
  /\ UNCHANGED <<want, frames>>

\* Mutant of Dimensioned: the space is compared with the one before collection.
DimensionedStale(h, end) ==
  IF h.err # "none" THEN h
  ELSE IF end < h.sstorl /\ end < heap.sstorl
       THEN [h EXCEPT !.earryl = end, !.mem = Clobber(@, h.earryl, end - 1)]
  ELSE [h EXCEPT !.err = "memory", !.need = end - h.earryl + 1]

\* LAB_1ED6: the array up to end is taken and cleared, with one byte to spare.
Dimensioned(h, end) ==
  IF h.err # "none" THEN h
  ELSE IF end < h.sstorl
       THEN [h EXCEPT !.earryl = end, !.mem = Clobber(@, h.earryl, end - 1)]
  ELSE [h EXCEPT !.err = "memory", !.need = end - h.earryl + 1]

\* LAB_1EA1: DIM of a numeric array.  The header is written at the
\* end of the arrays, all but its size, before the space is checked.
HeaderWritten(h) ==
  [h EXCEPT !.mem = Clobber(Clobber(@, h.earryl, h.earryl + 3), h.earryl + 8, h.earryl + 11),
            !.exposed = @ \/ h.earryl + HeaderSize > h.sstorl]

Dim ==
  /\ Running("dim") /\ Quiet
  /\ LET end == heap.earryl + HeaderSize + ArrayBytes
     IN  /\ end <= ArrayRoom
         /\ Becomes(Dimensioned(IF end < heap.sstorl THEN HeaderWritten(heap)
                                ELSE Collect(HeaderWritten(heap)), end), args)
  /\ UNCHANGED <<want, frames>>

\* Mutant of EnterWith: the other way round.
EnterSwapped(h, r, v) == Push(Assign(h, r, v), Assign(h, r, v).vars[v])

\* The function variable's value is stacked before its argument replaces it.
EnterWith(h, r, v) == Assign(Push(h, h.vars[v]), r, v)

\* LAB_201E: FN with a string argument.  The variable's descriptor is saved on
\* the descriptor stack, above the argument, which is then assigned to it.
FnEnter(v) ==
  /\ Running("fn") /\ Have(1) /\ frames = <<>>
  /\ Becomes(EnterWith(heap, Arg(1).ref, v), Drop(1))
  /\ IF heap'.err = "none"
     THEN /\ frames' = <<[v |-> v, text |-> want[v], base |-> Len(args) - 1]>>
          /\ want' = [want EXCEPT ![v] = Arg(1).text]
     ELSE UNCHANGED <<want, frames>>

\* The end of the function: the saved descriptor is pulled back.
FnLeave ==
  /\ heap.err = "none" /\ frames # <<>>
  /\ \/ Len(args) = frames[1].base
     \/ Len(args) = frames[1].base + 1 /\ "fnstring" \in Ops
  /\ heap' = [heap EXCEPT !.vars[frames[1].v] = heap.slots[heap.depth], !.depth = @ - 1]
  /\ want' = [want EXCEPT ![frames[1].v] = frames[1].text]
  /\ frames' = <<>>
  /\ UNCHANGED args

Next ==
  \/ \E v \in Vars : Variable(v) \/ Let(v) \/ FnEnter(v)
  \/ \E d \in Literals : Literal(d)
  \/ \E s \in Made : NewString(s)
  \/ Concat \/ Slice \/ LCase \/ Consume \/ Compare \/ Fre
  \/ NewVariable \/ Dim
  \/ FnLeave \/ WarmStart

Spec == Init /\ [][Next]_vars

-----------------------------------------------------------------------------
(* What is checked.                                                        *)

\* Descriptors of strings in string space, and the bytes above the arrays that
\* no string, with the byte that makes it even, lies in.
Live == {r \in {VarRef(v) : v \in Vars} \cup {StackRef(i) : i \in 1..heap.depth} :
           Get(heap, r).len > 0 /\ Get(heap, r).ptr >= heap.earryl}

Unused == {a \in heap.earryl..(Ememl - 1) :
             \A r \in Live : LET d == Get(heap, r) IN a \notin d.ptr..(d.ptr + Even(d.len) - 1)}

\* The operand is the variable of the function in progress: its own text is
\* back when the function ends.
Shadowed(i) == frames # <<>> /\ i <= frames[1].base /\ args[i].ref = VarRef(frames[1].v)

(***************************************************************************)
(* Every variable and every pending operand reads back as the text the     *)
(* program gave it, however often the collector has moved the bytes.       *)
(***************************************************************************)
StringsIntact ==
  heap.err = "none" =>
    /\ \A v \in Vars : Read(heap, heap.vars[v]) = want[v]
    /\ \A i \in DOMAIN args :
         \/ Read(heap, Get(heap, args[i].ref)) = args[i].text
         \/ Shadowed(i)

(***************************************************************************)
(* The same, as long as no collection ran over a string at the very end of *)
(* the arrays, over bytes that an argument of FN left on the stack shares  *)
(* with a variable or bytes whose address LCASE$ or LET was holding, and   *)
(* nothing was written past the end of the arrays into a string: there is  *)
(* no further way for the routines to lose text.                           *)
(***************************************************************************)
IntactUnlessExposed == heap.exposed \/ StringsIntact

(***************************************************************************)
(* A statement leaves the descriptor stack as empty as it found it: the    *)
(* routines pop every descriptor they push (LAB_22BA, LAB_1811), or four   *)
(* statements later the program stops with "String too complex".           *)
(***************************************************************************)
NoDescriptorLeak == heap.err = "none" /\ Quiet => heap.depth = 0

(***************************************************************************)
(* Earryl is the start of free memory, Sstorl moves down to it and never   *)
(* past it, and never above the end of memory: LAB_2115 compares before it *)
(* takes, and LAB_22BA gives back only what was taken.                     *)
(***************************************************************************)
SpaceOrdered ==
  heap.err = "none" => heap.earryl <= heap.sstorl /\ heap.sstorl <= Ememl

(***************************************************************************)
(* "Out of memory" is reported only when the strings in use really leave   *)
(* less than was asked for: the collector recovers every other byte before *)
(* LAB_2115 or DIM gives up.                                               *)
(***************************************************************************)
MemoryErrorIsReal ==
  heap.err = "memory" /\ ~heap.exposed =>
    Cardinality(Unused) < Even(heap.need)

=============================================================================
