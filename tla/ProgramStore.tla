---------------------------- MODULE ProgramStore ----------------------------
(***************************************************************************)
(* The program text of EhBASIC (applets/EhBASIC/EhBASIC.asm): how lines    *)
(* are entered, moved and chained, and what still points at them.          *)
(*                                                                         *)
(* Memory is a sequence of cells: a longword of a line's header, a word of *)
(* its tokens, or the [EOL] that ends it.  A line is                       *)
(*     next line pointer, line number, tokens ..., Eol                     *)
(* and a null next line pointer, the end marker, ends the program.  Behind *)
(* it lie the functions, variables, strings and arrays, in that order.     *)
(***************************************************************************)
EXTENDS Integers, Sequences

CONSTANTS
  Smeml,    \* start of the program
  Top,      \* bound: the last cell the model looks at
  Numbers,  \* line numbers that are typed
  Codes,    \* token sequences that are typed, [EOL] included
  Largest   \* bound: how far functions, variables and arrays may reach

Eol == 0   \* [EOL], and a null pointer
Rechain == -1

Forgotten == -2   \* a cell that is no program text: variables, or free memory

ASSUME ProgramStoreAssumption ==
  /\ Smeml \in Nat \ {0} /\ Top \in Nat /\ Largest \in Nat
  /\ Smeml < Top
  /\ Numbers \subseteq Nat
  /\ \A c \in Codes : /\ c \in Seq(Nat) /\ Len(c) > 1 /\ c[Len(c)] = Eol
                      /\ \A i \in 1..(Len(c) - 1) : c[i] \in Nat \ {Eol}

Cells == Smeml..Top

VARIABLES
  mem,       \* the cells
  regions,   \* Sfncl, Svarl, Sstrl, Sarryl and Earryl
  execs,     \* execute pointers of the functions DEF has made
  exec,      \* execute pointer (register a3) of a running program, or 0
  Cpntrl,    \* continue pointer, or 0
  Dptrl      \* DATA pointer

vars == <<mem, regions, execs, exec, Cpntrl, Dptrl>>

-----------------------------------------------------------------------------
(* Lines.                                                                  *)

\* The lowest address of S.
First(S) == CHOOSE a \in S : \A b \in S : a <= b

\* The cell behind the [EOL] of the line at a.
AfterLine(m, a) ==
  IF \E b \in (a + 2)..Top : m[b] = Eol
  THEN 1 + CHOOSE b \in (a + 2)..Top : m[b] = Eol /\ \A c \in (a + 2)..(b - 1) : m[c] # Eol
  ELSE Top + 1

\* The cells passed on the way from a along next, which leads upwards, with the one it ends at.
Walk(next, a) ==
  LET walk[b \in Cells] ==
        LET to == next[b] IN IF to \in (b + 1)..Top THEN {b} \cup walk[to] ELSE {b}
  IN  walk[a]

\* The lines from the start on, by following next line pointers.
Chain(m) == {a \in Walk(m, Smeml) : m[a] # Eol}

\* Mutant of Search: the line of number n itself is passed over.
SearchPast(m, n) == First({a \in Walk(m, Smeml) : m[a] = Eol \/ m[a + 1] > n})

\* LAB_SSLN: the line of number n, or the one it would come before.
Search(m, n) == First({a \in Walk(m, Smeml) : m[a] = Eol \/ m[a + 1] >= n})

Found(m, a, n) == m[a] # Eol /\ m[a + 1] = n

\* LAB_12B0: the lines behind the one at a move down over it.
Deleted(m, a, end) ==
  [b \in Cells |-> IF b \in a..(a + end - m[a] - 1) THEN m[b - a + m[a]] ELSE m[b]]

\* LAB_12E6: the lines from a on move up, and the new line is copied in.
Inserted(m, a, end, n, code) ==
  LET size == 2 + Len(code)
  IN  [b \in Cells |->
         IF b = a THEN Rechain ELSE IF b = a + 1 THEN n
         ELSE IF b \in (a + 2)..(a + size - 1) THEN code[b - a - 1]
         ELSE IF b \in (a + size)..(end + size - 1) THEN m[b - size] ELSE m[b]]

\* Mutant of Rechained: only the new line's pointer is set.
RechainedOnce(m, a) == IF m[a] = Eol THEN m ELSE [m EXCEPT ![a] = AfterLine(m, a)]

\* LAB_1325: from a on, line by line, a null pointer ends the program and any
\* other becomes the address behind the line's [EOL].
Rechained(m, a) ==
  LET next   == [b \in Cells |-> IF m[b] = Eol THEN Eol ELSE AfterLine(m, b)]
      passed == Walk(next, a)
  IN  [b \in Cells |-> IF b \in passed THEN next[b] ELSE m[b]]

\* Behind the program memory is not the program's.
Trimmed(m, end) == [b \in Cells |-> IF b < end THEN m[b] ELSE Forgotten]

-----------------------------------------------------------------------------
(* Memory and execution.                                                   *)

Regions(at) == [Sfncl |-> at, Svarl |-> at, Sstrl |-> at, Sarryl |-> at, Earryl |-> at]

Immediate == exec = 0

\* Mutants of Cleared: the variables survive; the continue pointer does.
ClearedButVariables(sfncl, at) ==
  /\ regions' = [regions EXCEPT !.Sfncl = sfncl]
  /\ execs' = {}
  /\ Cpntrl' = at
  /\ Dptrl' = Smeml - 1

ClearedButCont(sfncl, at) ==
  /\ regions' = Regions(sfncl)
  /\ execs' = {}
  /\ Cpntrl' = IF at = 0 THEN Cpntrl ELSE at
  /\ Dptrl' = Smeml - 1

\* LAB_147A: variables, functions and the DATA pointer are cleared.  A program
\* that goes on saves its execute pointer, at, as the continue pointer.
Cleared(sfncl, at) ==
  /\ regions' = Regions(sfncl)
  /\ execs' = {}
  /\ Cpntrl' = at
  /\ Dptrl' = Smeml - 1

\* LAB_1DAF: something of this kind is created, and what lies behind it moves up.
Behind == [function |-> {"Svarl", "Sstrl", "Sarryl", "Earryl"},
           variable |-> {"Sstrl", "Sarryl", "Earryl"},
           string   |-> {"Sarryl", "Earryl"},
           array    |-> {"Earryl"}]

Grown(r, kind) == [x \in DOMAIN r |-> IF x \in Behind[kind] THEN r[x] + 1 ELSE r[x]]

\* The variable a statement names is there, or is created.
Named(r) == {r} \cup {s \in {Grown(r, "variable"), Grown(r, "string")} : s.Earryl <= Largest}

Init ==
  /\ mem = [a \in Cells |-> IF a = Smeml THEN Eol ELSE Forgotten]
  /\ regions = Regions(Smeml + 1)
  /\ execs = {} /\ exec = 0 /\ Cpntrl = 0 /\ Dptrl = Smeml - 1

\* LAB_1295: a numbered line is typed.  <<>> is a number alone.
EnterLine(n, code) ==
  /\ Immediate
  /\ UNCHANGED exec
  /\ LET a    == Search(mem, n)
         end  == regions.Sfncl
         m1   == IF Found(mem, a, n) THEN Deleted(mem, a, end) ELSE mem
         end1 == IF Found(mem, a, n) THEN end - (mem[a] - a) ELSE end
         m2   == IF code = <<>> THEN m1 ELSE Inserted(m1, a, end1, n, code)
         end2 == IF code = <<>> THEN end1 ELSE end1 + 2 + Len(code)
     IN  /\ end2 - 1 <= Top
         /\ Cleared(end2, 0)
         /\ mem' = Trimmed(Rechained(m2, a), end2)

\* LAB_NEW, as a command or a statement of the program.
New ==
  /\ mem' = Trimmed([mem EXCEPT ![Smeml] = Eol], Smeml + 1)
  /\ exec' = IF Immediate THEN 0 ELSE Smeml - 1
  /\ Cleared(Smeml + 1, exec')

\* LAB_CLEAR.
Clear == Cleared(regions.Sfncl, exec) /\ UNCHANGED <<mem, exec>>

\* The tokens and [EOL]s of the program.
Positions(m) == UNION {(a + 2)..(AfterLine(m, a) - 1) : a \in Chain(m)}

\* LAB_RUN.
Run == exec' = Smeml - 1 /\ Cleared(regions.Sfncl, exec') /\ UNCHANGED mem

\* LAB_GOTO, as a statement or, to start the program as it is, a command.
Goto(n) ==
  /\ LET a == Search(mem, n) IN Found(mem, a, n) /\ exec' = a - 1
  /\ Cpntrl' = exec'
  /\ UNCHANGED <<mem, regions, execs, Dptrl>>

\* LAB_15C2: the next statement, wherever NEXT, LOOP or RETURN lead.
Statement ==
  /\ ~Immediate
  /\ \E p \in Positions(mem) : exec' = p /\ Cpntrl' = p
  /\ UNCHANGED <<mem, regions, execs, Dptrl>>

\* LAB_163B: STOP, END and Ctrl-C.
Stop ==
  /\ ~Immediate
  /\ Cpntrl' = exec /\ exec' = 0
  /\ UNCHANGED <<mem, regions, execs, Dptrl>>

\* LAB_15DC: the end of the program is reached.
RunOff ==
  /\ ~Immediate
  /\ exec' = 0
  /\ UNCHANGED <<mem, regions, execs, Cpntrl, Dptrl>>

\* LAB_XERR: an error stops the program for good.
Error ==
  /\ Cpntrl' = 0 /\ exec' = 0
  /\ UNCHANGED <<mem, regions, execs, Dptrl>>

\* LAB_CONT.
Cont ==
  /\ Immediate /\ Cpntrl # 0
  /\ exec' = Cpntrl
  /\ UNCHANGED <<mem, regions, execs, Cpntrl, Dptrl>>

\* LAB_RESTORE, with or without a line number.
Restore ==
  /\ \/ Dptrl' = Smeml - 1
     \/ \E n \in Numbers : LET a == Search(mem, n) IN Found(mem, a, n) /\ Dptrl' = a - 1
  /\ UNCHANGED <<mem, regions, execs, exec, Cpntrl>>

\* LAB_READ leaves the DATA pointer behind the item it took.
Read ==
  /\ ~Immediate
  /\ \E p \in Positions(mem) : p > Dptrl /\ Dptrl' = p
  /\ regions' \in Named(regions)
  /\ UNCHANGED <<mem, execs, exec, Cpntrl>>

\* LAB_DEF: a function is created, its variable if need be, and its execute
\* pointer set.
DefineFunction ==
  /\ ~Immediate /\ regions.Earryl < Largest
  /\ regions' \in Named(Grown(regions, "function"))
  /\ \E p \in Positions(mem) : execs' = execs \cup {p}
  /\ UNCHANGED <<mem, exec, Cpntrl, Dptrl>>

\* LAB_DEF for a function that is there already.
RedefineFunction ==
  /\ ~Immediate
  /\ regions' \in Named(regions)
  /\ \E q \in execs, p \in Positions(mem) : execs' = (execs \ {q}) \cup {p}
  /\ UNCHANGED <<mem, exec, Cpntrl, Dptrl>>

\* LAB_DEF as a command, or with a syntax error: the function is created before
\* either is noticed, and stays behind with a null execute pointer.
FailToDefine ==
  /\ regions.Earryl < Largest
  /\ regions' \in IF Immediate THEN {Grown(regions, "function")} ELSE Named(Grown(regions, "function"))
  /\ execs' = execs \cup {0}
  /\ Cpntrl' = 0 /\ exec' = 0
  /\ UNCHANGED <<mem, Dptrl>>

\* LAB_1D98, LAB_1EA1: LET, INPUT, DIM and the like create a variable or array.
CreateVariable ==
  /\ regions.Earryl < Largest
  /\ \E kind \in {"variable", "string", "array"} : regions' = Grown(regions, kind)
  /\ UNCHANGED <<mem, execs, exec, Cpntrl, Dptrl>>

Next ==
  \/ \E n \in Numbers, code \in Codes \cup {<<>>} : EnterLine(n, code)
  \/ \E n \in Numbers : Goto(n)
  \/ New \/ Clear \/ Run \/ Statement \/ Stop \/ RunOff \/ Error \/ Cont
  \/ Restore \/ Read
  \/ DefineFunction \/ RedefineFunction \/ FailToDefine \/ CreateVariable

Spec == Init /\ [][Next]_vars

-----------------------------------------------------------------------------
(* What is checked.                                                        *)

Pointers == Cells \cup {0, Smeml - 1}

\* Types; and the regions of memory lie in their order, with the program
\* below them.
TypeOK ==
  /\ mem \in [Cells -> Int]
  /\ DOMAIN regions = {"Sfncl", "Svarl", "Sstrl", "Sarryl", "Earryl"}
  /\ Smeml < regions.Sfncl /\ regions.Sfncl <= regions.Svarl
  /\ regions.Svarl <= regions.Sstrl /\ regions.Sstrl <= regions.Sarryl
  /\ regions.Sarryl <= regions.Earryl
  /\ execs \subseteq Pointers /\ {exec, Cpntrl, Dptrl} \subseteq Pointers

(***************************************************************************)
(* After any number of insertions, replacements and deletions every next   *)
(* line pointer names the cell behind the line's [EOL], the numbers ascend *)
(* along the chain, and the end marker is the last cell below Sfncl: what  *)
(* LAB_SCLN, LIST and the run of the program rely on.                      *)
(***************************************************************************)
ChainInOrder ==
  LET lines == Chain(mem)
  IN  /\ mem[regions.Sfncl - 1] = Eol
      /\ lines = {} => regions.Sfncl = Smeml + 1
      /\ \A a \in lines :
           /\ mem[a] = AfterLine(mem, a)
           /\ IF mem[a] \in lines THEN mem[a + 1] < mem[mem[a] + 1]
                                 ELSE mem[a] = regions.Sfncl - 1

(***************************************************************************)
(* No edit leaves a pointer into text that has moved: the execute, the     *)
(* continue and the DATA pointer and those of the functions are null, at   *)
(* the start of the program or at a token or [EOL] of a line it has now.   *)
(***************************************************************************)
PointersCurrent ==
  (execs \cup {exec, Cpntrl, Dptrl}) \subseteq (Positions(mem) \cup {0, Smeml - 1})

\* The lines the chain leads to, by number.
Listed ==
  LET lines == Chain(mem)
      text(a) == [i \in 1..(mem[a] - a - 2) |-> mem[a + 1 + i]]
  IN  [n \in {mem[a + 1] : a \in lines} |-> text(CHOOSE a \in lines : mem[a + 1] = n)]

User == INSTANCE Listing WITH listing <- Listed

\* The block moves, the search and the chaining together do what the user was
\* promised: a typed line replaces or deletes the line of its number, every
\* other line keeps its text, and running a program changes none of them.
ListsProgram ==
  /\ User!Spec
  /\ [][\A n \in Numbers, code \in Codes \cup {<<>>} : EnterLine(n, code) => User!Typed(n, code)]_vars

=============================================================================
