------------------------- MODULE StringSpaceProofs -------------------------
(***************************************************************************)
(* What TLAPS proves of StringSpace, for every program text, size of       *)
(* memory, number of variables, set of strings made and set of operations  *)
(* in which FN returns numbers: that no text is lost but in the ways the   *)
(* model names as exposed, that free space stays in order, that an "Out of *)
(* memory" error is real, and that without FN no descriptor is left behind.*)
(*                                                                         *)
(* The invariant is State, Inv of the variables.  Neat says where strings  *)
(* are, Framing where the operands of an expression are on the descriptor  *)
(* stack, Meaning that each descriptor reads back as the program's text    *)
(* and which may share bytes.  Kept(h, g, k) is what one routine promises  *)
(* another: the descriptors up to depth k have the same strings in g as in *)
(* h, and are as far apart.  In this order: one collection, from one test  *)
(* to all the passes; space for a string; the descriptor stack; routines   *)
(* that return strings; assignment; variables and arrays; operands; the    *)
(* invariant and its actions.                                              *)
(***************************************************************************)
EXTENDS StringSpace, FiniteSetTheorems, WellFoundedInduction, TLAPS

-----------------------------------------------------------------------------
(* Induction over the natural numbers, for sets.                           *)

Less == {p \in Nat \X Nat : p[1] < p[2]}

\* A set of numbers that holds zero and every successor of its elements holds them all.
LEMMA NatSetInduction ==
  ASSUME NEW T, 0 \in T, \A k \in Nat : k \in T => k + 1 \in T
  PROVE  Nat \subseteq T
<1> DEFINE Rest == {k \in Nat : k \notin T}
<1> SUFFICES ASSUME Rest # {} PROVE FALSE
  OBVIOUS
<1>1. IsWellFoundedOn(Less, Nat)
  BY NatLessThanWellFounded DEF OpToRel, Less
<1>2. Rest \subseteq Nat
  OBVIOUS
<1> HIDE DEF Rest
<1>3. \E x \in Rest : \A y \in Rest : ~(<<y, x>> \in Less)
  BY <1>1, <1>2, WFMin, Zenon
<1>4. PICK x \in Rest : \A y \in Rest : ~(<<y, x>> \in Less)
  BY <1>3
<1>5. x \in Nat /\ x # 0 /\ x \notin T
  BY DEF Rest
<1>6. x - 1 \in Nat /\ x - 1 < x /\ (x - 1) + 1 = x
  BY <1>5
<1>7. x - 1 \notin T
  BY <1>5, <1>6
<1>8. x - 1 \in Rest
  BY <1>6, <1>7 DEF Rest
<1>9. <<x - 1, x>> \in Less
  BY <1>5, <1>6 DEF Less
<1> QED
  BY <1>4, <1>8, <1>9

-----------------------------------------------------------------------------
(* Types.                                                                  *)

Descs == [ptr : Int, len : Nat]

\* The characters that ever lie in memory.
Chars == {"?", "a"} \cup {Text[i] : i \in DOMAIN Text} \cup UNION {{s[i] : i \in DOMAIN s} : s \in Made}

Mems == [1..(Ememl - 1) -> Chars]

Errors == {"none", "memory", "complex", "long", "wild"}

Heaps ==
  [earryl : Nat, sstorl : Int, mem : Mems,
   vars : [Vars -> Descs], slots : [1..StackMax -> Descs], depth : 0..StackMax,
   utl : Int, err : Errors, need : Nat, exposed : BOOLEAN]

OnStack == {StackRef(i) : i \in 1..StackMax}

OfVars == {VarRef(v) : v \in Vars}

\* The descriptors in use.
Refs(h) == OfVars \cup {StackRef(i) : i \in 1..h.depth}

\* An even length is the length or one more.
LEMMA EvenFacts ==
  ASSUME NEW n \in Nat
  PROVE  /\ Even(n) \in Nat /\ Even(n) >= n /\ Even(n) <= n + 1
         /\ n > 0 => Even(n) > 0
         /\ n = 0 => Even(n) = 0
BY DEF Even

\* What is read in memory, or beyond it, is a character.
LEMMA ByteType ==
  ASSUME NEW m \in Mems, NEW a
  PROVE  Byte(m, a) \in Chars
BY DEF Byte, Chars, Mems

\* A copy leaves characters in memory.
LEMMA CopyType ==
  ASSUME NEW m \in Mems, NEW src, NEW dst, NEW n
  PROVE  Copy(m, src, dst, n) \in Mems
BY ByteType DEF Copy, Mems

\* Lower case makes a character of one.
LEMMA LowerType == ASSUME NEW c \in Chars PROVE Lower(c) \in Chars
BY DEF Lower, Chars

\* What the constants are.
LEMMA Constant ==
  /\ NVars \in Nat /\ NVars > 0 /\ Ememl \in Nat /\ Len(Text) \in Nat /\ Len(Text) + 2 <= Ememl
  /\ MaxLength \in Nat /\ ArrayBytes \in Nat
<1> DEFINE S == STRING
<1>1. Text \in Seq(S)
  BY StringSpaceAssumption
<1> HIDE DEF S
<1>2. Len(Text) \in Nat
  BY <1>1
<1>3. Len(Text) + 2 <= Ememl
  BY StringSpaceAssumption
<1>4. NVars \in Nat \ {0} /\ Ememl \in Nat /\ MaxLength \in Nat /\ ArrayBytes \in Nat
  BY StringSpaceAssumption
<1> QED BY <1>2, <1>3, <1>4

\* The parts of a heap.
LEMMA HeapFacts ==
  ASSUME NEW h \in Heaps
  PROVE  /\ h.earryl \in Nat /\ h.sstorl \in Int /\ h.mem \in Mems /\ h.vars \in [Vars -> Descs]
         /\ h.slots \in [1..StackMax -> Descs] /\ h.depth \in 0..StackMax /\ h.depth \in Nat
         /\ h.utl \in Int /\ h.err \in Errors /\ h.need \in Nat /\ h.exposed \in BOOLEAN
BY DEF Heaps, Mems, StackMax

\* The descriptors of a heap.
LEMMA RefFacts ==
  ASSUME NEW h \in Heaps, NEW r \in Refs(h)
  PROVE  /\ Get(h, r) \in Descs
         /\ Get(h, r).ptr \in Int /\ Get(h, r).len \in Nat
         /\ \/ \E v \in Vars : r = VarRef(v) /\ r.on = "var" /\ r.at = v /\ Get(h, r) = h.vars[v]
            \/ \E i \in 1..h.depth : r = StackRef(i) /\ r.on = "stack" /\ r.at = i
                 /\ i \in 1..StackMax /\ Get(h, r) = h.slots[i]
<1>1. h.vars \in [Vars -> Descs] /\ h.slots \in [1..StackMax -> Descs] /\ h.depth \in 0..StackMax
  BY DEF Heaps
<1>2. CASE r \in OfVars
  <2>1. PICK v \in Vars : r = VarRef(v)
    BY <1>2 DEF OfVars
  <2>2. r.on = "var" /\ r.at = v /\ Get(h, r) = h.vars[v]
    BY <2>1 DEF VarRef, Get
  <2> QED BY <1>1, <2>1, <2>2 DEF Descs
<1>3. CASE r \notin OfVars
  <2>1. PICK i \in 1..h.depth : r = StackRef(i)
    BY <1>3 DEF Refs
  <2>2. r.on = "stack" /\ r.at = i /\ Get(h, r) = h.slots[i]
    BY <2>1 DEF StackRef, Get
  <2>3. i \in 1..StackMax
    BY <1>1 DEF StackMax
  <2> QED BY <1>1, <2>1, <2>2, <2>3 DEF Descs
<1> QED BY <1>2, <1>3

\* Variables and slots have different addresses, and so have any two of either.
LEMMA RefsApart ==
  /\ \A v, i : VarRef(v) # StackRef(i)
  /\ \A v, w : VarRef(v) = VarRef(w) => v = w
  /\ \A i, j : StackRef(i) = StackRef(j) => i = j
<1>1. \A v, i : VarRef(v).on = "var" /\ StackRef(i).on = "stack" /\ VarRef(v).at = v /\ StackRef(i).at = i
  BY DEF VarRef, StackRef
<1> QED BY <1>1

\* The order in which the collector meets them.
LEMMA RootFacts ==
  ASSUME NEW h, h.depth \in Nat
  PROVE  /\ Len(Roots(h)) = NVars + h.depth /\ Len(Roots(h)) \in Nat
         /\ DOMAIN Roots(h) = 1..Len(Roots(h))
         /\ \A i \in 1..Len(Roots(h)) : Roots(h)[i] \in Refs(h)
         /\ \A r \in Refs(h) : \E i \in 1..Len(Roots(h)) : Roots(h)[i] = r
<1> DEFINE a == [v \in 1..NVars |-> VarRef(v)]
           b == [i \in 1..h.depth |-> StackRef(h.depth + 1 - i)]
           n == NVars
           k == h.depth
<1>0. n \in Nat /\ k \in Nat
  BY Constant
<1> DEFINE S == Refs(h)
<1>1. a \in [1..n -> S] /\ \A v \in 1..n : a[v] = VarRef(v)
  BY DEF Refs, OfVars, Vars
<1>2. b \in [1..k -> S] /\ \A i \in 1..k : b[i] = StackRef(k + 1 - i)
  <2>1. \A i \in 1..k : k + 1 - i \in 1..k
    BY <1>0
  <2>2. \A i \in 1..k : StackRef(k + 1 - i) \in S
    BY <2>1 DEF Refs
  <2> QED BY <2>2
<1> HIDE DEF a, b, S
<1>7. a \in Seq(S) /\ Len(a) = n /\ b \in Seq(S) /\ Len(b) = k
  BY <1>0, <1>1, <1>2
<1>3. /\ Len(a \o b) = n + k /\ DOMAIN (a \o b) = 1..(n + k)
      /\ \A i \in 1..(n + k) : (a \o b)[i] = IF i <= n THEN a[i] ELSE b[i - n]
  BY <1>0, <1>7
<1>4. Roots(h) = a \o b
  BY DEF Roots, a, b
<1>5. \A i \in 1..(n + k) : (a \o b)[i] \in Refs(h)
  <2> SUFFICES ASSUME NEW i \in 1..(n + k) PROVE (a \o b)[i] \in Refs(h)
    OBVIOUS
  <2>1. CASE i <= n
    <3>1. (a \o b)[i] = VarRef(i) /\ i \in 1..n
      BY <1>0, <1>1, <1>3, <2>1
    <3> QED BY <3>1 DEF Refs, OfVars, Vars
  <2>2. CASE ~(i <= n)
    <3>1. i - n \in 1..k /\ k + 1 - (i - n) \in 1..k
      BY <1>0, <2>2
    <3>2. (a \o b)[i] = StackRef(k + 1 - (i - n))
      BY <1>2, <1>3, <2>2, <3>1
    <3> QED BY <3>1, <3>2 DEF Refs
  <2> QED BY <2>1, <2>2
<1>6. \A r \in Refs(h) : \E i \in 1..(n + k) : (a \o b)[i] = r
  <2> SUFFICES ASSUME NEW r \in Refs(h) PROVE \E i \in 1..(n + k) : (a \o b)[i] = r
    OBVIOUS
  <2>1. ASSUME r \in OfVars PROVE \E i \in 1..(n + k) : (a \o b)[i] = r
    <3>1. PICK v \in 1..n : r = VarRef(v)
      BY <2>1 DEF OfVars, Vars
    <3>2. v \in 1..(n + k) /\ v <= n
      BY <1>0
    <3> QED BY <1>1, <1>3, <3>1, <3>2
  <2>2. ASSUME r \notin OfVars PROVE \E i \in 1..(n + k) : (a \o b)[i] = r
    <3>1. PICK i \in 1..k : r = StackRef(i)
      BY <2>2 DEF Refs
    <3> DEFINE j == n + (k + 1 - i)
    <3>2. j \in 1..(n + k) /\ ~(j <= n) /\ j - n \in 1..k /\ k + 1 - (j - n) = i
      BY <1>0
    <3> HIDE DEF j
    <3>3. (a \o b)[j] = b[j - n]
      BY <1>3, <3>2
    <3>4. b[j - n] = StackRef(i)
      BY <1>2, <3>2
    <3> QED BY <3>1, <3>2, <3>3, <3>4
  <2> QED BY <2>1, <2>2
<1> QED BY <1>0, <1>3, <1>4, <1>5, <1>6

-----------------------------------------------------------------------------
(* Bytes.                                                                  *)

\* What a copy loop leaves at one address.
LEMMA CopyByte ==
  ASSUME NEW m \in Mems, NEW src \in Int, NEW dst \in Int, NEW n \in Int, NEW a \in Int
  PROVE  /\ a \in dst..(dst + n - 1) /\ a \in 1..(Ememl - 1) =>
              Byte(Copy(m, src, dst, n), a) = Byte(m, src + a - dst)
         /\ a \notin dst..(dst + n - 1) => Byte(Copy(m, src, dst, n), a) = Byte(m, a)
<1> DEFINE c == Copy(m, src, dst, n)
<1>1. DOMAIN m = 1..(Ememl - 1) /\ DOMAIN c = 1..(Ememl - 1)
  BY DEF Mems, Copy
<1>2. \A b \in 1..(Ememl - 1) : c[b] = IF b \in dst..(dst + n - 1) THEN Byte(m, src + b - dst) ELSE m[b]
  BY <1>1 DEF Copy
<1> HIDE DEF c
<1>3. Byte(c, a) = IF a \in 1..(Ememl - 1) THEN c[a] ELSE "?"
  BY <1>1 DEF Byte
<1>4. Byte(m, a) = IF a \in 1..(Ememl - 1) THEN m[a] ELSE "?"
  BY <1>1 DEF Byte
<1>5. ASSUME a \in dst..(dst + n - 1), a \in 1..(Ememl - 1) PROVE Byte(c, a) = Byte(m, src + a - dst)
  BY <1>2, <1>3, <1>5
<1>6. ASSUME a \notin dst..(dst + n - 1) PROVE Byte(c, a) = Byte(m, a)
  BY <1>2, <1>3, <1>4, <1>6
<1> QED BY <1>5, <1>6 DEF c

\* The same bytes at two places, or at two times.
LEMMA ReadSame ==
  ASSUME NEW h, NEW g, NEW d, NEW e, d.len = e.len,
         \A i \in 1..d.len : Byte(g.mem, e.ptr + i - 1) = Byte(h.mem, d.ptr + i - 1)
  PROVE  Read(g, e) = Read(h, d)
BY DEF Read

InText(d) == d.ptr >= 1 /\ d.ptr + d.len <= Len(Text) + 1

Below(d, e) == d.ptr + Even(d.len) <= e.ptr

\* Neither string's bytes are the other's.
Apart(d, e) ==
  d.len = 0 \/ e.len = 0 \/ InText(d) \/ InText(e) \/ Below(d, e) \/ Below(e, d)

-----------------------------------------------------------------------------
(* One collection.                                                         *)

\* Among the strings already collected, in the text, or still to be collected.
Spot(g, d) ==
  d.len > 0 => \/ InText(d)
               \/ g.sstorl <= d.ptr /\ d.ptr + Even(d.len) <= Ememl
               \/ g.earryl < d.ptr /\ d.ptr + Even(d.len) <= g.sstorl

\* The strings already collected leave no gap.
Packed(g) ==
  \A a \in g.sstorl..(Ememl - 1) :
    \E r \in Refs(g) : LET d == Get(g, r)
                       IN  d.len > 0 /\ g.sstorl <= d.ptr /\ a \in d.ptr..(d.ptr + Even(d.len) - 1)

SameScalars(h, g) ==
  /\ g.earryl = h.earryl /\ g.depth = h.depth /\ g.utl = h.utl
  /\ g.err = h.err /\ g.need = h.need /\ g.exposed = h.exposed

\* g is heap h with some of its strings collected.
Collecting(h, g) ==
  /\ h \in Heaps /\ g \in Heaps /\ SameScalars(h, g)
  /\ Len(Text) + 2 <= g.earryl /\ g.earryl <= g.sstorl /\ g.sstorl <= Ememl
  /\ \A r \in Refs(h) : /\ Spot(g, Get(g, r))
                        /\ Get(g, r).len = Get(h, r).len
                        /\ Read(g, Get(g, r)) = Read(h, Get(h, r))
  /\ \A r, q \in Refs(h) : r # q => Apart(Get(g, r), Get(g, q))
  /\ \A a \in 1..Len(Text) : g.mem[a] = h.mem[a]
  /\ Packed(g)

\* The depth of the stack alone says which descriptors there are.
LEMMA SameRefs ==
  ASSUME NEW h, NEW g, g.depth = h.depth
  PROVE  Refs(g) = Refs(h)
BY DEF Refs

\* What only the bottom of string space can change.
LEMMA TouchHeap ==
  ASSUME NEW h \in Heaps, NEW n \in Int
  PROVE  LET g == [h EXCEPT !.sstorl = n]
         IN  /\ g \in Heaps /\ g.sstorl = n /\ SameScalars(h, g) /\ g.mem = h.mem
             /\ g.vars = h.vars /\ g.slots = h.slots
             /\ \A r : Get(g, r) = Get(h, r)
             /\ \A d : Read(g, d) = Read(h, d)
BY DEF Heaps, SameScalars, Get, Read

\* The string just below the collected ones needs no move.
LEMMA TouchCollecting ==
  ASSUME NEW h, NEW k, Collecting(h, k), NEW r \in Refs(h),
         Get(k, r).len > 0, k.earryl < Get(k, r).ptr,
         Get(k, r).ptr + Even(Get(k, r).len) = k.sstorl
  PROVE  Collecting(h, [k EXCEPT !.sstorl = Get(k, r).ptr])
<1> DEFINE d == Get(k, r)
           g == [k EXCEPT !.sstorl = Get(k, r).ptr]
           n == d.ptr
<1>0. k \in Heaps /\ h \in Heaps /\ SameScalars(h, k) /\ Refs(k) = Refs(h)
  BY SameRefs DEF Collecting, SameScalars
<1>1. n \in Int /\ d.len \in Nat /\ d.len > 0 /\ Even(d.len) \in Nat /\ Even(d.len) > 0
  BY <1>0, RefFacts, EvenFacts
<1>2. /\ g \in Heaps /\ g.sstorl = n /\ SameScalars(k, g) /\ g.mem = k.mem
      /\ \A q : Get(g, q) = Get(k, q)
      /\ \A e : Read(g, e) = Read(k, e)
  BY <1>0, <1>1, TouchHeap
<1>3. SameScalars(h, g) /\ g.earryl = k.earryl /\ Refs(g) = Refs(h)
  BY <1>0, <1>2, SameRefs DEF SameScalars
<1>4. n < k.sstorl /\ k.sstorl \in Int /\ k.earryl \in Int /\ Ememl \in Int /\ k.sstorl <= Ememl
      /\ k.sstorl = n + Even(d.len) /\ Len(Text) + 2 <= k.earryl /\ k.earryl < n
      /\ Len(Text) \in Nat
  <2>1. k.sstorl \in Int /\ k.earryl \in Int /\ Ememl \in Int /\ Len(Text) \in Nat
    BY <1>0, HeapFacts, Constant
  <2>2. k.sstorl <= Ememl /\ Len(Text) + 2 <= k.earryl
    BY DEF Collecting
  <2> QED BY <1>1, <2>1, <2>2
<1> HIDE DEF d, g, n
<1>5. ASSUME NEW q \in Refs(h) PROVE Spot(g, Get(g, q))
  <2> DEFINE e == Get(k, q)
  <2>1. e.ptr \in Int /\ e.len \in Nat /\ Even(e.len) \in Nat /\ Spot(k, e)
    BY <1>0, RefFacts, EvenFacts DEF Collecting
  <2>2. CASE q = r
    <3>1. e = d
      BY <2>2 DEF d
    <3> QED BY <1>1, <1>2, <1>4, <3>1 DEF Spot, d, n
  <2>3. CASE q # r
    <3>1. Apart(d, e)
      BY <2>3 DEF Collecting, d
    <3>2. d.ptr = n /\ Get(g, q) = e
      BY <1>2 DEF n
    <3> HIDE DEF e
    <3> SUFFICES ASSUME e.len > 0, ~InText(e) PROVE (n <= e.ptr /\ e.ptr + Even(e.len) <= Ememl)
                                                   \/ (k.earryl < e.ptr /\ e.ptr + Even(e.len) <= n)
      BY <1>2, <1>3, <3>2 DEF Spot
    <3>3. ~InText(d)
      BY <1>1, <1>4, <3>2 DEF InText
    <3>4. n + Even(d.len) <= e.ptr \/ e.ptr + Even(e.len) <= n
      BY <1>1, <2>1, <3>1, <3>2, <3>3 DEF Apart, Below
    <3>5. (k.sstorl <= e.ptr /\ e.ptr + Even(e.len) <= Ememl) \/ (k.earryl < e.ptr /\ e.ptr + Even(e.len) <= k.sstorl)
      BY <2>1 DEF Spot
    <3>6. CASE k.sstorl <= e.ptr /\ e.ptr + Even(e.len) <= Ememl
      BY <1>1, <1>4, <2>1, <3>6
    <3>7. CASE k.earryl < e.ptr /\ e.ptr + Even(e.len) <= k.sstorl
      <4> DEFINE m == e.len
                 size == Even(m)
      <4>0. m \in Nat /\ m > 0 /\ size = Even(m)
        BY <2>1
      <4> HIDE DEF m, size
      <4>1. size \in Nat /\ size >= m
        BY <4>0, EvenFacts
      <4>2. e.ptr + size <= k.sstorl /\ e.ptr \in Int /\ k.sstorl \in Int
        BY <1>4, <2>1, <3>7 DEF size, m
      <4>3. e.ptr < k.sstorl
        BY <4>0, <4>1, <4>2
      <4>4. ~(n + Even(d.len) <= e.ptr)
        BY <1>4, <2>1, <4>3
      <4> QED BY <3>4, <3>7, <4>4
    <3> QED BY <3>5, <3>6, <3>7
  <2> QED BY <2>2, <2>3
<1>6. Packed(g)
  <2> SUFFICES ASSUME NEW a \in g.sstorl..(Ememl - 1)
               PROVE  \E q \in Refs(g) : LET e == Get(g, q)
                        IN  e.len > 0 /\ g.sstorl <= e.ptr /\ a \in e.ptr..(e.ptr + Even(e.len) - 1)
    BY DEF Packed
  <2>1. CASE a < k.sstorl
    <3>1. a \in d.ptr..(d.ptr + Even(d.len) - 1)
      BY <1>1, <1>2, <1>4, <2>1 DEF n
    <3> QED BY <1>1, <1>2, <1>3, <3>1 DEF d, n
  <2>2. CASE ~(a < k.sstorl)
    <3>1. a \in k.sstorl..(Ememl - 1)
      BY <1>2, <1>4, <2>2
    <3>2. PICK q \in Refs(k) : LET e == Get(k, q)
                              IN  e.len > 0 /\ k.sstorl <= e.ptr /\ a \in e.ptr..(e.ptr + Even(e.len) - 1)
      BY <3>1 DEF Collecting, Packed
    <3>3. Get(k, q).ptr \in Int /\ n \in Int
      BY <1>0, <1>1, <3>2, RefFacts
    <3> QED BY <1>0, <1>2, <1>3, <1>4, <3>2, <3>3
  <2> QED BY <2>1, <2>2
<1>7. /\ \A q \in Refs(h) : Get(g, q).len = Get(h, q).len /\ Read(g, Get(g, q)) = Read(h, Get(h, q))
      /\ \A q, p \in Refs(h) : q # p => Apart(Get(g, q), Get(g, p))
      /\ \A a \in 1..Len(Text) : g.mem[a] = h.mem[a]
  BY <1>2 DEF Collecting
<1>8. Len(Text) + 2 <= g.earryl /\ g.earryl <= g.sstorl /\ g.sstorl <= Ememl
  BY <1>1, <1>2, <1>3, <1>4
<1>9. Collecting(h, g)
  BY <1>0, <1>2, <1>3, <1>5, <1>6, <1>7, <1>8 DEF Collecting
<1> QED BY <1>9 DEF g

\* One descriptor is given another address.
LEMMA SetPtrIs ==
  ASSUME NEW h \in Heaps, NEW r \in Refs(h), NEW p \in Int
  PROVE  LET g == SetPtr(h, r, p)
         IN  /\ g \in Heaps /\ SameScalars(h, g) /\ g.sstorl = h.sstorl /\ g.mem = h.mem
             /\ Get(g, r).ptr = p /\ Get(g, r).len = Get(h, r).len
             /\ \A q \in Refs(h) : q # r => Get(g, q) = Get(h, q)
<1> DEFINE g == SetPtr(h, r, p)
<1>0. h.vars \in [Vars -> Descs] /\ h.slots \in [1..StackMax -> Descs]
  BY HeapFacts
<1>1. CASE \E v \in Vars : r = VarRef(v) /\ r.on = "var" /\ r.at = v
  <2>1. PICK v \in Vars : r = VarRef(v) /\ r.on = "var" /\ r.at = v
    BY <1>1
  <2> DEFINE w == [h.vars EXCEPT ![v].ptr = p]
  <2>2. w \in [Vars -> Descs] /\ w[v].ptr = p /\ w[v].len = h.vars[v].len
        /\ \A u \in Vars : u # v => w[u] = h.vars[u]
    BY <1>0, <2>1 DEF Descs
  <2> HIDE DEF w
  <2>3. g = [h EXCEPT !.vars = w]
    BY <2>1 DEF SetPtr, w
  <2>4. /\ g \in Heaps /\ SameScalars(h, g) /\ g.sstorl = h.sstorl /\ g.mem = h.mem
        /\ g.vars = w /\ g.slots = h.slots
    BY <2>2, <2>3 DEF Heaps, SameScalars
  <2>5. Get(g, r) = w[v] /\ Get(h, r) = h.vars[v]
    BY <2>1, <2>4 DEF Get
  <2>6. ASSUME NEW q \in Refs(h), q # r PROVE Get(g, q) = Get(h, q)
    <3>1. q.on = "var" => q.at \in Vars /\ q.at # v
      BY <2>1, <2>6, RefFacts
    <3> QED BY <2>2, <2>4, <3>1 DEF Get
  <2> QED BY <2>2, <2>4, <2>5, <2>6
<1>2. CASE \E i \in 1..h.depth : r = StackRef(i) /\ r.on = "stack" /\ r.at = i /\ i \in 1..StackMax
  <2>1. PICK i \in 1..StackMax : r = StackRef(i) /\ r.on = "stack" /\ r.at = i
    BY <1>2
  <2> DEFINE w == [h.slots EXCEPT ![i].ptr = p]
  <2>2. w \in [1..StackMax -> Descs] /\ w[i].ptr = p /\ w[i].len = h.slots[i].len
        /\ \A u \in 1..StackMax : u # i => w[u] = h.slots[u]
    BY <1>0, <2>1 DEF Descs
  <2> HIDE DEF w
  <2>3. g = [h EXCEPT !.slots = w]
    BY <2>1 DEF SetPtr, w
  <2>4. /\ g \in Heaps /\ SameScalars(h, g) /\ g.sstorl = h.sstorl /\ g.mem = h.mem
        /\ g.slots = w /\ g.vars = h.vars
    BY <2>2, <2>3 DEF Heaps, SameScalars
  <2>5. Get(g, r) = w[i] /\ Get(h, r) = h.slots[i]
    BY <2>1, <2>4 DEF Get
  <2>6. ASSUME NEW q \in Refs(h), q # r PROVE Get(g, q) = Get(h, q)
    <3>1. q.on # "var" => q.at \in 1..StackMax /\ q.at # i
      BY <2>1, <2>6, RefFacts
    <3> QED BY <2>2, <2>4, <3>1 DEF Get
  <2> QED BY <2>2, <2>4, <2>5, <2>6
<1> QED BY <1>1, <1>2, RefFacts

\* What MoveUp does to a string that has to move.
Lifted(k, r, g) ==
  LET d == Get(k, r)
      dst == k.sstorl - Even(d.len)
  IN  /\ g \in Heaps /\ SameScalars(k, g) /\ g.sstorl = dst
      /\ g.mem = Copy(k.mem, d.ptr, dst, Even(d.len))
      /\ Get(g, r).ptr = dst /\ Get(g, r).len = d.len
      /\ \A q \in Refs(k) : q # r => Get(g, q) = Get(k, q)

\* The highest string is where it belongs, or is an empty one, or is moved.
LEMMA MoveUpIs ==
  ASSUME NEW k \in Heaps, NEW r \in Refs(k)
  PROVE  LET d == Get(k, r)
         IN  IF d.ptr + Even(d.len) = k.sstorl THEN MoveUp(k, r) = [k EXCEPT !.sstorl = d.ptr]
             ELSE IF d.len = 0 THEN MoveUp(k, r) = [k EXCEPT !.err = "wild"]
             ELSE Lifted(k, r, MoveUp(k, r))
<1> DEFINE d == Get(k, r)
           size == Even(d.len)
           dst == k.sstorl - size
           m == Copy(k.mem, d.ptr, dst, size)
           k1 == [k EXCEPT !.mem = m, !.sstorl = dst]
<1>1. d.ptr \in Int /\ d.len \in Nat /\ size \in Nat /\ (d.len = 0 <=> size = 0) /\ k.mem \in Mems /\ k.sstorl \in Int
  <2>1. d.ptr \in Int /\ d.len \in Nat
    BY RefFacts
  <2>2. size \in Nat /\ (d.len = 0 <=> size = 0)
    BY <2>1, EvenFacts
  <2> QED BY <2>1, <2>2, HeapFacts
<1>2. m \in Mems /\ dst \in Int
  BY <1>1, CopyType
<1>3. MoveUp(k, r) = IF d.ptr + size = k.sstorl THEN [k EXCEPT !.sstorl = d.ptr]
                     ELSE IF size = 0 THEN [k EXCEPT !.err = "wild"]
                     ELSE SetPtr(k1, r, dst)
  BY DEF MoveUp
<1> HIDE DEF m, dst, size
<1>4. k1 \in Heaps /\ SameScalars(k, k1) /\ k1.sstorl = dst /\ k1.mem = m /\ k1.vars = k.vars /\ k1.slots = k.slots
  BY <1>2 DEF Heaps, SameScalars
<1>5. \A q : Get(k1, q) = Get(k, q)
  BY <1>4 DEF Get
<1>6. Refs(k1) = Refs(k)
  BY <1>4, SameRefs DEF SameScalars
<1> HIDE DEF k1
<1> DEFINE g == SetPtr(k1, r, dst)
<1>7. /\ g \in Heaps /\ SameScalars(k1, g) /\ g.sstorl = k1.sstorl /\ g.mem = k1.mem
      /\ Get(g, r).ptr = dst /\ Get(g, r).len = Get(k1, r).len
      /\ \A q \in Refs(k1) : q # r => Get(g, q) = Get(k1, q)
  BY <1>2, <1>4, <1>6, SetPtrIs
<1> HIDE DEF g
<1>8. SameScalars(k, g)
  BY <1>4, <1>7 DEF SameScalars
<1>9. Lifted(k, r, g)
  BY <1>4, <1>5, <1>6, <1>7, <1>8 DEF Lifted, dst, size, m
<1> QED BY <1>1, <1>3, <1>9 DEF g, size

\* The strings still to be collected.
Pending(g, r) == LET d == Get(g, r) IN d.len > 0 /\ g.earryl < d.ptr /\ d.ptr < g.sstorl

\* The string of r is the highest of them.
Highest(g, r) ==
  /\ Pending(g, r)
  /\ \A q \in Refs(g) : Get(g, q).ptr < g.sstorl => Get(g, q).ptr <= Get(g, r).ptr

\* The highest string is moved up against the ones already collected.
LEMMA LiftCollecting ==
  ASSUME NEW h, NEW k, Collecting(h, k), NEW r \in Refs(h), Highest(k, r),
         NEW g, Lifted(k, r, g)
  PROVE  Collecting(h, g)
<1> DEFINE d == Get(k, r)
           n == d.ptr
           size == Even(d.len)
           dst == k.sstorl - size
<1>0. k \in Heaps /\ h \in Heaps /\ SameScalars(h, k) /\ Refs(k) = Refs(h)
  BY SameRefs DEF Collecting, SameScalars
<1>1. n \in Int /\ d.len \in Nat /\ d.len > 0 /\ size \in Nat /\ size > 0 /\ size >= d.len
  <2>1. n \in Int /\ d.len \in Nat /\ d.len > 0
    BY <1>0, RefFacts DEF Highest, Pending
  <2> QED BY <2>1, EvenFacts
<1>2. k.sstorl \in Int /\ k.earryl \in Int /\ Ememl \in Int /\ Len(Text) \in Nat /\ k.sstorl <= Ememl
      /\ Len(Text) + 2 <= k.earryl /\ k.earryl < n /\ n < k.sstorl /\ dst \in Int /\ k.mem \in Mems
  <2>1. k.sstorl \in Int /\ k.earryl \in Int /\ Ememl \in Int /\ Len(Text) \in Nat /\ k.mem \in Mems
    BY <1>0, HeapFacts, Constant
  <2>2. k.sstorl <= Ememl /\ Len(Text) + 2 <= k.earryl /\ k.earryl < n /\ n < k.sstorl
    BY DEF Collecting, Highest, Pending
  <2> QED BY <1>1, <2>1, <2>2
<1>3. /\ g \in Heaps /\ SameScalars(k, g) /\ g.sstorl = dst
      /\ g.mem = Copy(k.mem, n, dst, size)
      /\ Get(g, r).ptr = dst /\ Get(g, r).len = d.len
      /\ \A q \in Refs(k) : q # r => Get(g, q) = Get(k, q)
  BY DEF Lifted
<1>18. dst = k.sstorl - size
  OBVIOUS
<1>4. \A q \in Refs(h) : q # r => Apart(d, Get(k, q))
  BY DEF Collecting
<1>5. \A q \in Refs(h) : Get(k, q).ptr < k.sstorl => Get(k, q).ptr <= n
  BY <1>0 DEF Highest
<1>6. \A q \in Refs(h) : Spot(k, Get(k, q))
  BY DEF Collecting
<1> HIDE DEF d, n, size, dst
<1>7. n + size <= k.sstorl
  <2>1. Spot(k, d)
    BY <1>6 DEF d
  <2> QED BY <1>1, <1>2, <2>1 DEF Spot, InText, n, size
<1>8. dst >= n /\ dst + size = k.sstorl /\ dst > 0 /\ k.earryl < dst
  BY <1>1, <1>2, <1>7, <1>18
<1>9. SameScalars(h, g) /\ g.earryl = k.earryl /\ Refs(g) = Refs(h)
  BY <1>0, <1>3, SameRefs DEF SameScalars
\* Where every other string is, seen from the one that moves.
<1>10. ASSUME NEW q \in Refs(h), q # r
       PROVE  LET e == Get(k, q)
              IN  /\ Get(g, q) = e /\ e.ptr \in Int /\ e.len \in Nat /\ Even(e.len) \in Nat /\ Even(e.len) >= e.len
                  /\ e.len > 0 => \/ InText(e)
                                  \/ k.sstorl <= e.ptr /\ e.ptr + Even(e.len) <= Ememl
                                  \/ k.earryl < e.ptr /\ e.ptr + Even(e.len) <= dst
  <2> DEFINE e == Get(k, q)
  <2>1. e.ptr \in Int /\ e.len \in Nat
    BY <1>0, RefFacts
  <2>2. Even(e.len) \in Nat /\ Even(e.len) >= e.len /\ (e.len > 0 => Even(e.len) > 0)
    BY <2>1, EvenFacts
  <2>3. Get(g, q) = e
    BY <1>0, <1>3, <1>10
  <2>4. Apart(d, e) /\ Spot(k, e) /\ (e.ptr < k.sstorl => e.ptr <= n)
    BY <1>4, <1>5, <1>6, <1>10
  <2> HIDE DEF e
  <2>5. ASSUME e.len > 0, ~InText(e), ~(k.sstorl <= e.ptr /\ e.ptr + Even(e.len) <= Ememl)
        PROVE  k.earryl < e.ptr /\ e.ptr + Even(e.len) <= dst
    <3>1. k.earryl < e.ptr /\ e.ptr + Even(e.len) <= k.sstorl
      BY <2>4, <2>5 DEF Spot
    <3>2. e.ptr < k.sstorl
      BY <1>2, <2>1, <2>2, <2>5, <3>1
    <3>3. e.ptr <= n
      BY <2>4, <3>2
    <3>4. ~InText(d)
      BY <1>1, <1>2 DEF InText, n
    <3>5. ~Below(d, e)
      BY <1>1, <2>1, <3>3 DEF Below, n, size
    <3>6. Below(e, d)
      BY <1>1, <2>4, <2>5, <3>4, <3>5 DEF Apart
    <3> QED BY <1>1, <1>2, <1>8, <2>1, <2>2, <3>1, <3>6 DEF Below, n
  <2> QED BY <2>1, <2>2, <2>3, <2>5 DEF e
<1>11. ASSUME NEW q \in Refs(h) PROVE Spot(g, Get(g, q))
  <2>1. CASE q = r
    BY <1>1, <1>2, <1>3, <1>8, <2>1 DEF Spot, size
  <2>2. CASE q # r
    <3> DEFINE e == Get(k, q)
    <3>1. /\ Get(g, q) = e /\ e.ptr \in Int /\ e.len \in Nat /\ Even(e.len) \in Nat /\ Even(e.len) >= e.len
          /\ e.len > 0 => \/ InText(e)
                          \/ k.sstorl <= e.ptr /\ e.ptr + Even(e.len) <= Ememl
                          \/ k.earryl < e.ptr /\ e.ptr + Even(e.len) <= dst
      BY <1>10, <2>2
    <3> HIDE DEF e
    <3> QED BY <1>1, <1>2, <1>3, <1>8, <1>9, <3>1 DEF Spot
  <2> QED BY <2>1, <2>2
<1>12. ASSUME NEW q \in Refs(h), q # r PROVE Apart(Get(g, r), Get(g, q)) /\ Apart(Get(g, q), Get(g, r))
  <2> DEFINE e == Get(k, q)
             f == Get(g, r)
  <2>1. /\ Get(g, q) = e /\ e.ptr \in Int /\ e.len \in Nat /\ Even(e.len) \in Nat /\ Even(e.len) >= e.len
        /\ e.len > 0 => \/ InText(e)
                        \/ k.sstorl <= e.ptr /\ e.ptr + Even(e.len) <= Ememl
                        \/ k.earryl < e.ptr /\ e.ptr + Even(e.len) <= dst
    BY <1>10, <1>12
  <2>2. f.ptr = dst /\ f.len = d.len /\ f.ptr + Even(f.len) = k.sstorl
    BY <1>3, <1>8 DEF size
  <2> HIDE DEF e, f
  <2>3. e.len = 0 \/ InText(e) \/ Below(f, e) \/ Below(e, f)
    BY <1>2, <2>1, <2>2 DEF Below
  <2> QED BY <2>1, <2>3 DEF Apart, f
<1>13. \A q, p \in Refs(h) : q # p => Apart(Get(g, q), Get(g, p))
  <2> SUFFICES ASSUME NEW q \in Refs(h), NEW p \in Refs(h), q # p PROVE Apart(Get(g, q), Get(g, p))
    OBVIOUS
  <2>1. CASE q # r /\ p # r
    <3>1. Get(g, q) = Get(k, q) /\ Get(g, p) = Get(k, p)
      BY <1>0, <1>3, <2>1
    <3> QED BY <3>1 DEF Collecting
  <2> QED BY <1>12, <2>1
<1>14. ASSUME NEW q \in Refs(h) PROVE Get(g, q).len = Get(h, q).len /\ Read(g, Get(g, q)) = Read(h, Get(h, q))
  <2>1. Get(k, q).len = Get(h, q).len /\ Read(k, Get(k, q)) = Read(h, Get(h, q))
    BY DEF Collecting
  <2> SUFFICES Get(g, q).len = Get(k, q).len /\ Read(g, Get(g, q)) = Read(k, Get(k, q))
    BY <2>1
  <2>2. CASE q = r
    <3> SUFFICES ASSUME NEW i \in 1..d.len PROVE Byte(g.mem, dst + i - 1) = Byte(k.mem, n + i - 1)
      BY <1>3, <2>2, ReadSame DEF d, n
    <3> DEFINE a == dst + i - 1
    <3>0. i \in Int /\ 1 <= i /\ i <= d.len /\ a = dst + i - 1 /\ a \in Int
      BY <1>1, <1>2
    <3> HIDE DEF a
    <3>1. a \in dst..(dst + size - 1) /\ a \in 1..(Ememl - 1) /\ n + a - dst = n + i - 1
      <4>1. dst <= a /\ a <= dst + size - 1 /\ 1 <= a /\ n + a - dst = n + i - 1
        BY <1>1, <1>2, <1>8, <3>0
      <4>2. a <= Ememl - 1
        BY <1>1, <1>2, <1>8, <3>0, <4>1
      <4> QED BY <1>1, <1>2, <3>0, <4>1, <4>2
    <3>2. Byte(Copy(k.mem, n, dst, size), a) = Byte(k.mem, n + a - dst)
      <4>1. k.mem \in Mems /\ n \in Int /\ dst \in Int /\ size \in Int /\ a \in Int
        BY <1>1, <1>2, <3>0
      <4> QED BY ONLY <4>1, <3>1, CopyByte
    <3> QED BY <1>3, <3>1, <3>2 DEF a
  <2>3. CASE q # r
    <3> DEFINE e == Get(k, q)
    <3>1. /\ Get(g, q) = e /\ e.ptr \in Int /\ e.len \in Nat /\ Even(e.len) \in Nat /\ Even(e.len) >= e.len
          /\ e.len > 0 => \/ InText(e)
                          \/ k.sstorl <= e.ptr /\ e.ptr + Even(e.len) <= Ememl
                          \/ k.earryl < e.ptr /\ e.ptr + Even(e.len) <= dst
      BY <1>10, <2>3
    <3> HIDE DEF e
    <3> SUFFICES ASSUME NEW i \in 1..e.len PROVE Byte(g.mem, e.ptr + i - 1) = Byte(k.mem, e.ptr + i - 1)
      BY <3>1, ReadSame DEF e
    <3> DEFINE a == e.ptr + i - 1
    <3>2. a \in Int /\ ~(dst <= a /\ a <= dst + size - 1)
      <4>0. i \in Int /\ 1 <= i /\ i <= e.len /\ e.len > 0 /\ a \in Int /\ a = e.ptr + i - 1
        BY <3>1
      <4> HIDE DEF a
      <4>1. ASSUME InText(e) PROVE a < dst
        <5>1. e.ptr + e.len <= Len(Text) + 1
          BY <4>1 DEF InText
        <5> QED BY <1>2, <1>8, <3>1, <4>0, <5>1
      <4>2. ASSUME k.sstorl <= e.ptr PROVE a > dst + size - 1
        BY <1>1, <1>2, <1>8, <3>1, <4>0, <4>2
      <4>3. ASSUME e.ptr + Even(e.len) <= dst PROVE a < dst
        BY <1>2, <3>1, <4>0, <4>3
      <4> QED BY <1>1, <1>2, <3>1, <4>0, <4>1, <4>2, <4>3
    <3> HIDE DEF a
    <3>3. Byte(Copy(k.mem, n, dst, size), a) = Byte(k.mem, a)
      BY <1>1, <1>2, <3>2, CopyByte
    <3> QED BY <1>3, <3>3 DEF a
  <2> QED BY <2>2, <2>3
<1>15. ASSUME NEW a \in 1..Len(Text) PROVE g.mem[a] = h.mem[a]
  <2>1. a \in Int /\ a \notin dst..(dst + size - 1) /\ a \in 1..(Ememl - 1)
    BY <1>1, <1>2, <1>8
  <2>2. Byte(Copy(k.mem, n, dst, size), a) = Byte(k.mem, a)
    BY <1>1, <1>2, <2>1, CopyByte
  <2>3. a \in DOMAIN g.mem /\ a \in DOMAIN k.mem
    BY <1>0, <1>3, <2>1, HeapFacts DEF Mems
  <2> QED BY <1>3, <2>2, <2>3 DEF Byte, Collecting
<1>16. Packed(g)
  <2> SUFFICES ASSUME NEW a \in g.sstorl..(Ememl - 1)
               PROVE  \E q \in Refs(g) : LET e == Get(g, q)
                        IN  e.len > 0 /\ g.sstorl <= e.ptr /\ a \in e.ptr..(e.ptr + Even(e.len) - 1)
    BY DEF Packed
  <2>0. a \in Int /\ dst <= a /\ a <= Ememl - 1
    BY <1>2, <1>3
  <2>1. CASE a < k.sstorl
    <3> DEFINE f == Get(g, r)
    <3>1. f.ptr = dst /\ f.len = d.len
      BY <1>3
    <3>2. a \in dst..(dst + size - 1)
      BY <1>1, <1>2, <1>8, <2>0, <2>1
    <3>3. dst <= dst
      BY <1>2
    <3> HIDE DEF f
    <3>4. f.len > 0 /\ g.sstorl <= f.ptr /\ a \in f.ptr..(f.ptr + Even(f.len) - 1)
      BY <1>1, <1>3, <3>1, <3>2, <3>3 DEF size
    <3> QED BY <1>9, <3>4 DEF f
  <2>2. CASE ~(a < k.sstorl)
    <3>1. a \in k.sstorl..(Ememl - 1)
      BY <1>2, <2>0, <2>2
    <3>2. PICK q \in Refs(k) : LET e == Get(k, q)
                              IN  e.len > 0 /\ k.sstorl <= e.ptr /\ a \in e.ptr..(e.ptr + Even(e.len) - 1)
      BY <3>1 DEF Collecting, Packed
    <3>3. Get(k, q).ptr \in Int
      BY <1>0, <3>2, RefFacts
    <3>4. q # r
      <4>1. Get(k, r).ptr < k.sstorl /\ Get(k, r).ptr \in Int
        BY <1>1, <1>2 DEF n, d
      <4>2. k.sstorl <= Get(k, q).ptr
        BY <3>2
      <4> QED BY <1>2, <4>1, <4>2
    <3>5. Get(g, q) = Get(k, q)
      BY <1>3, <3>4
    <3>6. g.sstorl <= Get(k, q).ptr
      BY <1>1, <1>2, <1>3, <1>8, <3>2, <3>3
    <3> QED BY <1>0, <1>9, <3>2, <3>5, <3>6
  <2> QED BY <2>1, <2>2
<1>17. Len(Text) + 2 <= g.earryl /\ g.earryl <= g.sstorl /\ g.sstorl <= Ememl
  BY <1>1, <1>2, <1>3, <1>8, <1>9
<1> QED
  BY <1>0, <1>3, <1>9, <1>11, <1>13, <1>14, <1>15, <1>16, <1>17 DEF Collecting

-----------------------------------------------------------------------------
(* One pass over the descriptors.                                          *)

\* f holds what a pass over the first n of the roots R has seen.
IsPass(f, u, R, n) ==
  f[0] = u /\ \A i \in 1..n : f[i] = TestHighest(f[i - 1], R[i])

SolvesPass(f, u, R, n) ==
  f = [i \in 0..n |-> IF i = 0 THEN u ELSE TestHighest(f[i - 1], R[i])]

\* The recursive function in Pass exists: the strings seen after each descriptor.
LEMMA PassExists ==
  ASSUME NEW u, NEW R, NEW n \in Nat
  PROVE  \E f : SolvesPass(f, u, R, n)
<1> DEFINE Row(f, m) == SolvesPass(f, u, R, m)
           T == {m \in Nat : \E f : Row(f, m)}
<1> USE DEF SolvesPass
<1>1. 0 \in T
  <2> DEFINE f == [i \in 0..0 |-> u]
  <2>1. \A i \in 0..0 : i = 0
    OBVIOUS
  <2>2. Row(f, 0)
    BY <2>1
  <2> QED BY <2>2
<1>2. ASSUME NEW m \in Nat, m \in T PROVE m + 1 \in T
  <2>1. PICK f : Row(f, m)
    BY <1>2
  <2> DEFINE g == [i \in 0..(m + 1) |-> IF i = m + 1 THEN TestHighest(f[m], R[m + 1]) ELSE f[i]]
  <2>2. \A i \in 0..m : f[i] = IF i = 0 THEN u ELSE TestHighest(f[i - 1], R[i])
    BY <2>1
  <2>3. ASSUME NEW i \in 0..(m + 1)
        PROVE  g[i] = IF i = 0 THEN u ELSE TestHighest(g[i - 1], R[i])
    <3>1. CASE i = m + 1
      <4>1. g[i] = TestHighest(f[m], R[m + 1]) /\ i # 0 /\ i - 1 = m /\ i - 1 \in 0..(m + 1) /\ i - 1 # m + 1
        BY <3>1
      <4>2. g[i - 1] = f[m]
        BY <4>1
      <4> QED BY <3>1, <4>1, <4>2
    <3>2. CASE i # m + 1
      <4>1. i \in 0..m /\ g[i] = f[i]
        BY <3>2
      <4>2. CASE i = 0
        BY <2>2, <4>1, <4>2
      <4>3. CASE i # 0
        <5>1. i - 1 \in 0..(m + 1) /\ i - 1 # m + 1
          BY <4>1, <4>3
        <5>2. g[i - 1] = f[i - 1]
          BY <5>1
        <5> QED BY <2>2, <4>1, <4>3, <5>2
      <4> QED BY <4>2, <4>3
    <3> QED BY <3>1, <3>2
  <2>4. g = [i \in 0..(m + 1) |-> IF i = 0 THEN u ELSE TestHighest(g[i - 1], R[i])]
    <3>1. g = [i \in 0..(m + 1) |-> g[i]]
      OBVIOUS
    <3> HIDE DEF g
    <3> QED BY <2>3, <3>1
  <2> HIDE DEF g
  <2>5. Row(g, m + 1) /\ m + 1 \in Nat
    BY <2>4
  <2> QED BY <2>5
<1> HIDE DEF T
<1>3. Nat \subseteq T
  BY <1>1, <1>2, NatSetInduction
<1>4. n \in T
  BY <1>3
<1> QED BY <1>4 DEF T

\* A pass is a row of tests, one for each descriptor.
LEMMA PassIs ==
  ASSUME NEW h, h.depth \in Nat
  PROVE  \E f : /\ IsPass(f, [h |-> h, high |-> h.earryl, found |-> <<>>], Roots(h), Len(Roots(h)))
                /\ Pass(h) = f[Len(Roots(h))]
<1> DEFINE n == Len(Roots(h))
           R == Roots(h)
           u == [h |-> h, high |-> h.earryl, found |-> <<>>]
           seen == CHOOSE f : f = [i \in 0..n |-> IF i = 0 THEN u ELSE TestHighest(f[i - 1], R[i])]
<1>1. n \in Nat
  BY RootFacts
<1>2. Pass(h) = seen[n]
  BY DEF Pass
<1> HIDE DEF n, R, u
<1>3. \E f : f = [i \in 0..n |-> IF i = 0 THEN u ELSE TestHighest(f[i - 1], R[i])]
  <2>1. \E f : SolvesPass(f, u, R, n)
    BY <1>1, PassExists
  <2> QED BY <2>1 DEF SolvesPass
<1>4. seen = [i \in 0..n |-> IF i = 0 THEN u ELSE TestHighest(seen[i - 1], R[i])]
  BY <1>3
<1> HIDE DEF seen
<1>5. \A i \in 0..n : seen[i] = IF i = 0 THEN u ELSE TestHighest(seen[i - 1], R[i])
  BY <1>4
<1>6. IsPass(seen, u, R, n)
  BY <1>1, <1>5 DEF IsPass
<1> QED BY <1>2, <1>6 DEF n, R, u

Founds == {<<>>} \cup {<<r>> : r \in OfVars \cup OnStack}

Scans == [h : Heaps, high : Int, found : Founds]

\* Every descriptor is a variable's or a slot.
LEMMA RefsAre ==
  ASSUME NEW h \in Heaps
  PROVE  Refs(h) \subseteq OfVars \cup OnStack
<1>1. h.depth \in 0..StackMax /\ StackMax \in Nat
  BY HeapFacts DEF StackMax
<1>2. \A i \in 1..h.depth : i \in 1..StackMax
  BY <1>1
<1> QED BY <1>2 DEF Refs, OnStack

\* One test: the descriptor is of no interest, its string is at its place, or
\* it is the highest so far.
LEMMA TestIs ==
  ASSUME NEW s \in Scans, NEW r \in Refs(s.h)
  PROVE  LET d == Get(s.h, r)
             t == TestHighest(s, r)
         IN  /\ t \in Scans
             /\ d.ptr \in Int /\ s.high \in Int /\ s.h \in Heaps
             /\ \/ t = s /\ (d.ptr = 0 \/ s.high >= d.ptr \/ d.ptr >= s.h.sstorl)
                \/ /\ s.high < d.ptr /\ d.ptr < s.h.sstorl /\ d.len > 0 /\ d.ptr + Even(d.len) = s.h.sstorl
                   /\ t.h = [s.h EXCEPT !.sstorl = d.ptr] /\ t.high = s.high /\ t.found = s.found
                \/ /\ s.high < d.ptr /\ d.ptr < s.h.sstorl
                   /\ t.h = s.h /\ t.high = d.ptr /\ t.found = <<r>>
<1> DEFINE d == Get(s.h, r)
           t == TestHighest(s, r)
           b == [s.h EXCEPT !.sstorl = d.ptr]
<1>1. s.h \in Heaps /\ s.high \in Int /\ s.found \in Founds
  BY DEF Scans
<1>2. d.ptr \in Int /\ d.len \in Nat /\ s.h.sstorl \in Int
  BY <1>1, RefFacts, HeapFacts
<1>3. b \in Heaps
  BY <1>1, <1>2, TouchHeap
<1>4. <<r>> \in Founds
  BY <1>1, RefsAre DEF Founds
<1>5. Even(d.len) \in Nat
  BY <1>2, EvenFacts
<1>6. t = IF d.ptr = 0 \/ s.high >= d.ptr \/ d.ptr >= s.h.sstorl THEN s
          ELSE IF d.len > 0 /\ s.h.sstorl - Even(d.len) = d.ptr
               THEN [s EXCEPT !.h.sstorl = d.ptr]
          ELSE [s EXCEPT !.high = d.ptr, !.found = <<r>>]
  BY DEF TestHighest
<1>7. [s EXCEPT !.h.sstorl = d.ptr] = [s EXCEPT !.h = b]
  OBVIOUS
<1> HIDE DEF t, b, d
<1>8. CASE d.ptr = 0 \/ s.high >= d.ptr \/ d.ptr >= s.h.sstorl
  BY <1>1, <1>2, <1>6, <1>8 DEF d, t
<1>9. CASE /\ ~(d.ptr = 0 \/ s.high >= d.ptr \/ d.ptr >= s.h.sstorl)
           /\ d.len > 0 /\ s.h.sstorl - Even(d.len) = d.ptr
  <2>1. t = [s EXCEPT !.h = b]
    BY <1>6, <1>7, <1>9
  <2>2. t \in Scans /\ t.h = b /\ t.high = s.high /\ t.found = s.found
    BY <1>3, <2>1 DEF Scans
  <2>3. s.high < d.ptr /\ d.ptr < s.h.sstorl /\ d.ptr + Even(d.len) = s.h.sstorl
    BY <1>1, <1>2, <1>5, <1>9
  <2> QED BY <1>1, <1>2, <1>9, <2>2, <2>3 DEF d, b, t
<1>10. CASE /\ ~(d.ptr = 0 \/ s.high >= d.ptr \/ d.ptr >= s.h.sstorl)
            /\ ~(d.len > 0 /\ s.h.sstorl - Even(d.len) = d.ptr)
  <2>1. t = [s EXCEPT !.high = d.ptr, !.found = <<r>>]
    BY <1>6, <1>10
  <2>2. t \in Scans /\ t.h = s.h /\ t.high = d.ptr /\ t.found = <<r>>
    BY <1>2, <1>4, <2>1 DEF Scans
  <2>3. s.high < d.ptr /\ d.ptr < s.h.sstorl
    BY <1>1, <1>2, <1>10
  <2> QED BY <1>1, <1>2, <2>2, <2>3 DEF d, t
<1> QED BY <1>8, <1>9, <1>10

SameStrings(h, g) == g.mem = h.mem /\ g.vars = h.vars /\ g.slots = h.slots

\* What a pass over heap k has seen after i descriptors, in any heap.
Passed(k, s) ==
  /\ s \in Scans /\ SameScalars(k, s.h) /\ SameStrings(k, s.h)
  /\ s.found = <<>> \/ \E r \in Refs(k) : s.found = <<r>>

\* Strings a pass went by are still passed in a heap with the same strings.
LEMMA PassedSame ==
  ASSUME NEW k, NEW s, Passed(k, s)
  PROVE  Refs(s.h) = Refs(k) /\ (\A r : Get(s.h, r) = Get(k, r)) /\ s.h \in Heaps /\ s.h.depth = k.depth
         /\ s.h.earryl = k.earryl
BY SameRefs DEF Passed, SameScalars, SameStrings, Get, Scans

\* A test passes its descriptor, and keeps those passed before.
LEMMA PassedStep ==
  ASSUME NEW k, NEW s, Passed(k, s), NEW r \in Refs(k)
  PROVE  Passed(k, TestHighest(s, r))
<1>1. s \in Scans /\ r \in Refs(s.h) /\ s.h \in Heaps
  BY PassedSame DEF Passed
<1>2. LET d == Get(s.h, r)
          t == TestHighest(s, r)
      IN  /\ t \in Scans /\ d.ptr \in Int
          /\ \/ t = s
             \/ t.h = [s.h EXCEPT !.sstorl = d.ptr] /\ t.found = s.found
             \/ t.h = s.h /\ t.found = <<r>>
  BY <1>1, TestIs
<1> DEFINE t == TestHighest(s, r)
           b == [s.h EXCEPT !.sstorl = Get(s.h, r).ptr]
<1>3. SameScalars(s.h, b) /\ SameStrings(s.h, b)
  BY <1>1, <1>2, TouchHeap DEF SameStrings
<1>4. t \in Scans /\ (t.h = s.h \/ t.h = b) /\ (t.found = s.found \/ t.found = <<r>>)
  BY <1>2
<1> HIDE DEF t, b
<1>5. SameScalars(k, t.h) /\ SameStrings(k, t.h)
  BY <1>3, <1>4 DEF Passed, SameScalars, SameStrings
<1>6. Passed(k, t)
  BY <1>4, <1>5 DEF Passed
<1> QED BY <1>6 DEF t

\* The same, when the heap is a collected one: what the first i descriptors have told.
Scanned(h, k, s, i) ==
  /\ Passed(k, s) /\ Collecting(h, s.h) /\ s.h.sstorl <= k.sstorl
  /\ \/ s.found = <<>> /\ s.high = k.earryl
     \/ \E r \in Refs(k) : /\ s.found = <<r>> /\ s.high = Get(k, r).ptr
                           /\ k.earryl < s.high /\ s.high < s.h.sstorl
  /\ \A j \in 1..i : Get(k, Roots(k)[j]).ptr < s.h.sstorl => Get(k, Roots(k)[j]).ptr <= s.high

\* A test keeps what a pass has established so far.
LEMMA ScannedStep ==
  ASSUME NEW h, NEW k, Collecting(h, k), NEW s, NEW i \in Nat, i + 1 \in 1..Len(Roots(k)), Scanned(h, k, s, i)
  PROVE  Scanned(h, k, TestHighest(s, Roots(k)[i + 1]), i + 1)
<1> DEFINE r == Roots(k)[i + 1]
           d == Get(k, r)
           t == TestHighest(s, r)
<1>1. k \in Heaps /\ k.depth \in Nat /\ Refs(k) = Refs(h) /\ k.earryl \in Nat /\ k.sstorl \in Int
  BY SameRefs, HeapFacts DEF Collecting, SameScalars
<1>2. r \in Refs(k) /\ \A j \in 1..(i + 1) : Roots(k)[j] \in Refs(k)
  BY <1>1, RootFacts
<1>3. Passed(k, s) /\ s \in Scans /\ s.h \in Heaps /\ Refs(s.h) = Refs(k) /\ (\A q : Get(s.h, q) = Get(k, q))
      /\ s.h.earryl = k.earryl
  BY PassedSame DEF Scanned, Passed
<1>4. s.h.sstorl \in Int /\ s.high \in Int /\ d.ptr \in Int /\ d.len \in Nat /\ d.len >= 0
  BY <1>1, <1>2, <1>3, HeapFacts, RefFacts DEF Scans
<1>5. Passed(k, t)
  BY <1>2, <1>3, PassedStep
<1>6. Collecting(h, s.h) /\ s.h.sstorl <= k.sstorl /\ k.earryl <= s.high
  <2>1. k.earryl <= k.earryl
    BY <1>1
  <2> QED BY <1>1, <1>4, <2>1 DEF Scanned
<1>7. /\ \/ t = s /\ (d.ptr = 0 \/ s.high >= d.ptr \/ d.ptr >= s.h.sstorl)
         \/ /\ s.high < d.ptr /\ d.ptr < s.h.sstorl /\ d.len > 0 /\ d.ptr + Even(d.len) = s.h.sstorl
            /\ t.h = [s.h EXCEPT !.sstorl = d.ptr] /\ t.high = s.high /\ t.found = s.found
         \/ /\ s.high < d.ptr /\ d.ptr < s.h.sstorl
            /\ t.h = s.h /\ t.high = d.ptr /\ t.found = <<r>>
  <2>1. r \in Refs(s.h) /\ Get(s.h, r) = d
    BY <1>2, <1>3
  <2> DEFINE e == Get(s.h, r)
  <2>2. \/ t = s /\ (e.ptr = 0 \/ s.high >= e.ptr \/ e.ptr >= s.h.sstorl)
        \/ /\ s.high < e.ptr /\ e.ptr < s.h.sstorl /\ e.len > 0 /\ e.ptr + Even(e.len) = s.h.sstorl
           /\ t.h = [s.h EXCEPT !.sstorl = e.ptr] /\ t.high = s.high /\ t.found = s.found
        \/ /\ s.high < e.ptr /\ e.ptr < s.h.sstorl
           /\ t.h = s.h /\ t.high = e.ptr /\ t.found = <<r>>
    <3> HIDE DEF r, d
    <3> QED BY <1>3, <2>1, TestIs
  <2> HIDE DEF t, d, r
  <2> QED BY <2>1, <2>2
<1>8. Scanned(h, k, s, i)
  OBVIOUS
<1>9. \A j \in 1..(i + 1) : Get(k, Roots(k)[j]).ptr \in Int
  BY <1>1, <1>2, RefFacts
<1>10. \A j \in 1..(i + 1) : j \in 1..i \/ Roots(k)[j] = r
  OBVIOUS
<1> HIDE DEF t, d, r
<1>11. CASE t = s /\ (d.ptr = 0 \/ s.high >= d.ptr \/ d.ptr >= s.h.sstorl)
  <2>1. ASSUME NEW j \in 1..(i + 1), Get(k, Roots(k)[j]).ptr < s.h.sstorl PROVE Get(k, Roots(k)[j]).ptr <= s.high
    <3>1. CASE j \in 1..i
      BY <1>8, <2>1, <3>1 DEF Scanned
    <3>2. CASE Roots(k)[j] = r
      BY <1>1, <1>4, <1>6, <1>11, <2>1, <3>2 DEF d
    <3> QED BY <1>10, <3>1, <3>2
  <2>2. Scanned(h, k, t, i + 1)
    BY <1>8, <1>11, <2>1 DEF Scanned
  <2> QED BY <2>2 DEF t, r
<1>12. CASE /\ s.high < d.ptr /\ d.ptr < s.h.sstorl /\ d.len > 0 /\ d.ptr + Even(d.len) = s.h.sstorl
            /\ t.h = [s.h EXCEPT !.sstorl = d.ptr] /\ t.high = s.high /\ t.found = s.found
  <2>1. Get(s.h, r) = d /\ r \in Refs(h) /\ s.h.earryl < d.ptr
    BY <1>1, <1>2, <1>3, <1>4, <1>6, <1>12 DEF d
  <2>2. Collecting(h, t.h)
    BY <1>6, <1>12, <2>1, TouchCollecting
  <2>3. t.h.sstorl = d.ptr
    BY <1>3, <1>4, <1>12, TouchHeap
  <2>4. ASSUME NEW j \in 1..(i + 1), Get(k, Roots(k)[j]).ptr < t.h.sstorl PROVE Get(k, Roots(k)[j]).ptr <= t.high
    <3>1. CASE j \in 1..i
      BY <1>4, <1>8, <1>9, <1>12, <2>3, <2>4, <3>1 DEF Scanned
    <3>2. CASE Roots(k)[j] = r
      BY <1>4, <1>12, <2>3, <2>4, <3>2 DEF d
    <3> QED BY <1>10, <3>1, <3>2
  <2>5. t.h.sstorl <= k.sstorl /\ s.high < t.h.sstorl
    BY <1>1, <1>4, <1>6, <1>12, <2>3
  <2>6. Scanned(h, k, t, i + 1)
    BY <1>5, <1>8, <1>12, <2>2, <2>4, <2>5 DEF Scanned
  <2> QED BY <2>6 DEF t, r
<1>13. CASE /\ s.high < d.ptr /\ d.ptr < s.h.sstorl
            /\ t.h = s.h /\ t.high = d.ptr /\ t.found = <<r>>
  <2>1. k.earryl < d.ptr
    BY <1>1, <1>4, <1>6, <1>13
  <2>2. ASSUME NEW j \in 1..(i + 1), Get(k, Roots(k)[j]).ptr < t.h.sstorl PROVE Get(k, Roots(k)[j]).ptr <= t.high
    <3>1. CASE j \in 1..i
      BY <1>4, <1>8, <1>9, <1>13, <2>2, <3>1 DEF Scanned
    <3>2. CASE Roots(k)[j] = r
      BY <1>4, <1>13, <2>2, <3>2 DEF d
    <3> QED BY <1>10, <3>1, <3>2
  <2>3. Scanned(h, k, t, i + 1)
    BY <1>2, <1>5, <1>6, <1>13, <2>1, <2>2 DEF Scanned, d
  <2> QED BY <2>3 DEF t, r
<1> QED BY <1>7, <1>11, <1>12, <1>13

\* A pass over a heap.
LEMMA PassTyped ==
  ASSUME NEW k \in Heaps
  PROVE  Passed(k, Pass(k))
<1> DEFINE n == Len(Roots(k))
           u == [h |-> k, high |-> k.earryl, found |-> <<>>]
<1>1. n \in Nat /\ k.depth \in Nat /\ k.earryl \in Int /\ \A i \in 1..n : Roots(k)[i] \in Refs(k)
  BY HeapFacts, RootFacts
<1>2. PICK f : IsPass(f, u, Roots(k), n) /\ Pass(k) = f[n]
  BY <1>1, PassIs
<1>3. Passed(k, u)
  <2>1. u \in Scans
    BY <1>1 DEF Scans, Founds
  <2> QED BY <2>1 DEF Passed, SameScalars, SameStrings
<1> HIDE DEF n, u
<1> DEFINE T == {i \in Nat : i <= n => Passed(k, f[i])}
<1>4. 0 \in T
  BY <1>2, <1>3 DEF IsPass
<1>5. ASSUME NEW i \in Nat, i \in T PROVE i + 1 \in T
  <2>1. ASSUME i + 1 <= n PROVE Passed(k, f[i + 1])
    <3>1. Passed(k, f[i]) /\ i + 1 \in 1..n /\ (i + 1) - 1 = i
      BY <1>1, <1>5, <2>1
    <3>2. f[i + 1] = TestHighest(f[i], Roots(k)[i + 1])
      BY <1>2, <3>1 DEF IsPass
    <3> QED BY <1>1, <3>1, <3>2, PassedStep
  <2> QED BY <2>1
<1> HIDE DEF T
<1>6. n \in T
  BY <1>1, <1>4, <1>5, NatSetInduction
<1>7. n <= n
  BY <1>1
<1> QED BY <1>2, <1>6, <1>7 DEF T

\* A pass over a heap that is being collected finds the highest string, if any is left.
LEMMA PassCollecting ==
  ASSUME NEW h, NEW k, Collecting(h, k)
  PROVE  Scanned(h, k, Pass(k), Len(Roots(k)))
<1> DEFINE n == Len(Roots(k))
           u == [h |-> k, high |-> k.earryl, found |-> <<>>]
<1>1. k \in Heaps
  BY DEF Collecting
<1>2. n \in Nat /\ k.depth \in Nat /\ k.earryl \in Int /\ k.sstorl \in Int
  BY <1>1, HeapFacts, RootFacts
<1>3. PICK f : IsPass(f, u, Roots(k), n) /\ Pass(k) = f[n]
  BY <1>2, PassIs
<1>4. Scanned(h, k, u, 0)
  <2>1. u \in Scans
    BY <1>1, <1>2 DEF Scans, Founds
  <2>2. Passed(k, u)
    BY <2>1 DEF Passed, SameScalars, SameStrings
  <2>3. k.sstorl <= k.sstorl
    BY <1>2
  <2> QED BY <2>2, <2>3 DEF Scanned
<1> HIDE DEF n, u
<1> DEFINE T == {i \in Nat : i <= n => Scanned(h, k, f[i], i)}
<1>5. 0 \in T
  BY <1>3, <1>4 DEF IsPass
<1>6. ASSUME NEW i \in Nat, i \in T PROVE i + 1 \in T
  <2>1. ASSUME i + 1 <= n PROVE Scanned(h, k, f[i + 1], i + 1)
    <3>1. Scanned(h, k, f[i], i) /\ i + 1 \in 1..n /\ (i + 1) - 1 = i
      BY <1>2, <1>6, <2>1
    <3>2. f[i + 1] = TestHighest(f[i], Roots(k)[i + 1])
      BY <1>3, <3>1 DEF IsPass
    <3> QED BY <3>1, <3>2, ScannedStep DEF n
  <2> QED BY <2>1
<1> HIDE DEF T
<1>7. n \in T
  BY <1>2, <1>5, <1>6, NatSetInduction
<1>8. n <= n
  BY <1>2
<1>9. Scanned(h, k, f[n], n)
  BY <1>7, <1>8 DEF T
<1> QED BY <1>3, <1>9 DEF n

-----------------------------------------------------------------------------
(* All the passes.                                                         *)

SameButErr(h, g) ==
  /\ g.earryl = h.earryl /\ g.depth = h.depth /\ g.utl = h.utl
  /\ g.need = h.need /\ g.exposed = h.exposed /\ g.err \in {h.err, "wild"}

\* A pass and a move, in any heap.
LEMMA CollectOnceTyped ==
  ASSUME NEW k \in Heaps
  PROVE  CollectOnce(k) \in Heaps /\ SameButErr(k, CollectOnce(k))
<1> DEFINE s == Pass(k)
           g == s.h
<1>1. Passed(k, s)
  BY PassTyped
<1>2. g \in Heaps /\ SameScalars(k, g) /\ Refs(g) = Refs(k)
  BY <1>1, PassedSame DEF Passed
<1>3. CollectOnce(k) = IF k.err = "wild" THEN k ELSE IF s.found = <<>> THEN g ELSE MoveUp(g, s.found[1])
  BY DEF CollectOnce, AfterPass
<1>4. s.found = <<>> \/ s.found[1] \in Refs(g)
  <2>1. s.found = <<>> \/ \E r \in Refs(k) : s.found = <<r>>
    BY <1>1 DEF Passed
  <2> HIDE DEF s
  <2> QED BY <1>2, <2>1
<1> HIDE DEF s, g
<1>5. ASSUME NEW r \in Refs(g) PROVE MoveUp(g, r) \in Heaps /\ SameButErr(g, MoveUp(g, r))
  <2> DEFINE d == Get(g, r)
  <2>1. d.ptr \in Int
    BY <1>2, RefFacts
  <2>2. IF d.ptr + Even(d.len) = g.sstorl THEN MoveUp(g, r) = [g EXCEPT !.sstorl = d.ptr]
        ELSE IF d.len = 0 THEN MoveUp(g, r) = [g EXCEPT !.err = "wild"]
        ELSE Lifted(g, r, MoveUp(g, r))
    BY <1>2, MoveUpIs
  <2> HIDE DEF d
  <2>3. CASE MoveUp(g, r) = [g EXCEPT !.sstorl = d.ptr]
    <3>1. [g EXCEPT !.sstorl = d.ptr] \in Heaps /\ SameScalars(g, [g EXCEPT !.sstorl = d.ptr])
      BY <1>2, <2>1, TouchHeap
    <3> QED BY <2>3, <3>1 DEF SameScalars, SameButErr
  <2>4. CASE MoveUp(g, r) = [g EXCEPT !.err = "wild"]
    BY <1>2, <2>4 DEF Heaps, Errors, SameButErr
  <2>5. CASE Lifted(g, r, MoveUp(g, r))
    BY <2>5 DEF Lifted, SameScalars, SameButErr
  <2> QED BY <2>2, <2>3, <2>4, <2>5
<1>6. CASE CollectOnce(k) = k
  BY <1>6 DEF SameButErr
<1>7. CASE CollectOnce(k) = g
  BY <1>2, <1>7 DEF SameButErr, SameScalars
<1>8. CASE s.found # <<>> /\ CollectOnce(k) = MoveUp(g, s.found[1])
  <2>1. MoveUp(g, s.found[1]) \in Heaps /\ SameButErr(g, MoveUp(g, s.found[1]))
    BY <1>4, <1>5, <1>8
  <2> QED BY <1>2, <1>8, <2>1 DEF SameButErr, SameScalars
<1> QED BY <1>3, <1>6, <1>7, <1>8

\* The places in the list of descriptors of strings still to be collected.
Left(h, g) == {i \in 1..Len(Roots(h)) : Pending(g, Roots(h)[i])}

\* The descriptors a collection has yet to move are finitely many.
LEMMA LeftFacts ==
  ASSUME NEW h \in Heaps, NEW g
  PROVE  IsFiniteSet(Left(h, g)) /\ Cardinality(Left(h, g)) \in 0..Len(Roots(h))
<1> DEFINE n == Len(Roots(h))
<1>1. n \in Nat
  BY HeapFacts, RootFacts
<1> HIDE DEF n
<1>2. IsFiniteSet(1..n) /\ Cardinality(1..n) = n
  <2>1. 1 \in Int /\ n \in Int /\ n - 1 + 1 = n /\ (1 > n => n = 0)
    BY <1>1
  <2> QED BY <2>1, FS_Interval
<1>3. Left(h, g) \subseteq 1..n
  BY DEF Left, n
<1>4. IsFiniteSet(Left(h, g)) /\ Cardinality(Left(h, g)) <= n
  BY <1>2, <1>3, FS_Subset
<1>5. Cardinality(Left(h, g)) \in Nat
  BY <1>4, FS_CardinalityType
<1> QED BY <1>1, <1>4, <1>5 DEF n

\* Of two heaps with the same descriptors, the one with less string space left to collect.
LEMMA PendingFewer ==
  ASSUME NEW k \in Heaps, NEW g \in Heaps, g.sstorl <= k.sstorl, g.earryl = k.earryl, NEW r \in Refs(k),
         Get(g, r).ptr = Get(k, r).ptr, Get(g, r).len = Get(k, r).len, g.depth = k.depth, Pending(g, r)
  PROVE  Pending(k, r)
<1>1. r \in Refs(g) /\ Get(g, r).ptr \in Int /\ g.sstorl \in Int /\ k.sstorl \in Int
  BY SameRefs, RefFacts, HeapFacts
<1> QED BY <1>1 DEF Pending

\* A pass and a move: one string less is left, or none was.
LEMMA CollectOnceIs ==
  ASSUME NEW h, NEW k, Collecting(h, k), NEW g, g = CollectOnce(k)
  PROVE  \/ g.err = "wild"
         \/ /\ Collecting(h, g)
            /\ \/ Left(h, g) = {}
               \/ Left(h, g) \subseteq Left(h, k) /\ Left(h, g) # Left(h, k)
<1> DEFINE s == Pass(k)
           b == s.h
<1>1. k \in Heaps /\ h \in Heaps /\ Refs(k) = Refs(h) /\ Roots(k) = Roots(h) /\ h.depth \in Nat /\ k.depth \in Nat
      /\ h.err = k.err
  BY SameRefs, HeapFacts DEF Collecting, SameScalars, Roots
<1>2. Scanned(h, k, s, Len(Roots(k)))
  BY PassCollecting
<1>3. /\ b \in Heaps /\ Refs(b) = Refs(k) /\ (\A q : Get(b, q) = Get(k, q)) /\ b.depth = k.depth
      /\ b.earryl = k.earryl
  BY <1>2, PassedSame DEF Scanned
<1>4. Collecting(h, b) /\ b.sstorl <= k.sstorl
  BY <1>2 DEF Scanned
<1>5. g = IF k.err = "wild" THEN k ELSE IF s.found = <<>> THEN b ELSE MoveUp(b, s.found[1])
  BY DEF CollectOnce, AfterPass
<1>6. \A i \in 1..Len(Roots(k)) : Get(k, Roots(k)[i]).ptr < b.sstorl => Get(k, Roots(k)[i]).ptr <= s.high
  BY <1>2 DEF Scanned
<1>7. \A r \in Refs(k) : Get(k, r).ptr < b.sstorl => Get(k, r).ptr <= s.high
  BY <1>1, <1>6, RootFacts
<1>8. \/ s.found = <<>> /\ s.high = k.earryl
      \/ \E r \in Refs(k) : /\ s.found = <<r>> /\ s.high = Get(k, r).ptr
                            /\ k.earryl < s.high /\ s.high < b.sstorl
  BY <1>2 DEF Scanned
<1>9. b.sstorl \in Int /\ k.sstorl \in Int /\ k.earryl \in Int /\ \A r \in Refs(k) : Get(k, r).ptr \in Int /\ Get(k, r).len \in Nat
  BY <1>1, <1>3, HeapFacts, RefFacts
<1>10. \A i \in 1..Len(Roots(h)) : Roots(h)[i] \in Refs(k)
  BY <1>1, RootFacts
<1>11. \A r \in Refs(k) : Pending(b, r) => Pending(k, r)
  BY <1>1, <1>3, <1>4, PendingFewer
<1> HIDE DEF s, b
<1>12. CASE k.err = "wild"
  BY <1>5, <1>12
<1>13. CASE k.err # "wild" /\ s.found = <<>> /\ s.high = k.earryl
  <2>1. \A r \in Refs(k) : ~Pending(b, r)
    BY <1>3, <1>7, <1>9, <1>13 DEF Pending
  <2>2. g = b
    BY <1>5, <1>13
  <2> QED BY <1>4, <1>10, <2>1, <2>2 DEF Left
<1>14. ASSUME k.err # "wild", NEW r \in Refs(k), s.found = <<r>>, s.high = Get(k, r).ptr,
              k.earryl < s.high, s.high < b.sstorl
       PROVE  \/ g.err = "wild"
              \/ /\ Collecting(h, g) /\ g \in Heaps /\ g.sstorl <= b.sstorl /\ g.earryl = b.earryl /\ g.depth = b.depth
                 /\ \A q \in Refs(k) : q # r => Get(g, q) = Get(b, q)
                 /\ Pending(b, r) /\ ~Pending(g, r)
  <2> DEFINE d == Get(b, r)
  <2>0. s.found # <<>> /\ s.found[1] = r
    BY <1>14
  <2>1. g = MoveUp(b, r)
    BY <1>5, <1>14, <2>0
  <2>2. d = Get(k, r) /\ d.ptr \in Int /\ d.len \in Nat /\ b.earryl < d.ptr /\ d.ptr < b.sstorl
        /\ Even(d.len) \in Nat /\ (d.len > 0 => Even(d.len) > 0)
    BY <1>3, <1>9, <1>14, EvenFacts
  <2>3. IF d.ptr + Even(d.len) = b.sstorl THEN MoveUp(b, r) = [b EXCEPT !.sstorl = d.ptr]
        ELSE IF d.len = 0 THEN MoveUp(b, r) = [b EXCEPT !.err = "wild"]
        ELSE Lifted(b, r, MoveUp(b, r))
    BY <1>3, MoveUpIs
  <2> HIDE DEF d
  <2>4. ASSUME d.ptr + Even(d.len) = b.sstorl
        PROVE  /\ Collecting(h, g) /\ g \in Heaps /\ g.sstorl <= b.sstorl /\ g.earryl = b.earryl /\ g.depth = b.depth
               /\ \A q \in Refs(k) : q # r => Get(g, q) = Get(b, q)
               /\ Pending(b, r) /\ ~Pending(g, r)
    <3>1. g = [b EXCEPT !.sstorl = d.ptr]
      BY <2>1, <2>3, <2>4
    <3>2. g \in Heaps /\ g.sstorl = d.ptr /\ SameScalars(b, g) /\ \A q : Get(g, q) = Get(b, q)
      BY <1>3, <2>2, <3>1, TouchHeap
    <3>3. d.len > 0
      BY <1>9, <2>2, <2>4 DEF Even
    <3>4. Collecting(h, g)
      BY <1>1, <1>4, <2>2, <2>4, <3>1, <3>3, TouchCollecting DEF d
    <3>5. g.sstorl <= b.sstorl /\ Pending(b, r) /\ ~Pending(g, r)
      BY <1>9, <2>2, <3>2, <3>3 DEF Pending, d
    <3> QED BY <3>2, <3>4, <3>5 DEF SameScalars
  <2>5. ASSUME d.ptr + Even(d.len) # b.sstorl, d.len = 0 PROVE g.err = "wild"
    <3>1. g = [b EXCEPT !.err = "wild"]
      BY <2>1, <2>3, <2>5
    <3> QED BY <1>3, <3>1 DEF Heaps
  <2>6. ASSUME d.ptr + Even(d.len) # b.sstorl, d.len # 0
        PROVE  /\ Collecting(h, g) /\ g \in Heaps /\ g.sstorl <= b.sstorl /\ g.earryl = b.earryl /\ g.depth = b.depth
               /\ \A q \in Refs(k) : q # r => Get(g, q) = Get(b, q)
               /\ Pending(b, r) /\ ~Pending(g, r)
    <3>1. Lifted(b, r, g)
      BY <2>1, <2>3, <2>6
    <3>2. /\ g \in Heaps /\ SameScalars(b, g) /\ g.sstorl = b.sstorl - Even(d.len)
          /\ Get(g, r).ptr = b.sstorl - Even(d.len)
          /\ \A q \in Refs(b) : q # r => Get(g, q) = Get(b, q)
      BY <3>1 DEF Lifted, d
    <3>3. d.len > 0
      BY <2>2, <2>6
    <3>4. Pending(b, r)
      BY <2>2, <3>3 DEF Pending, d
    <3>5. Highest(b, r)
      BY <1>3, <1>7, <1>14, <3>4 DEF Highest
    <3>6. Collecting(h, g)
      BY <1>1, <1>4, <3>1, <3>5, LiftCollecting
    <3>7. ~Pending(g, r)
      BY <1>9, <2>2, <3>2 DEF Pending
    <3>8. g.sstorl <= b.sstorl
      BY <1>9, <2>2, <3>2
    <3> QED BY <1>3, <3>2, <3>4, <3>6, <3>7, <3>8 DEF SameScalars
  <2> QED BY <2>4, <2>5, <2>6
<1>15. ASSUME k.err # "wild", NEW r \in Refs(k), s.found = <<r>>, s.high = Get(k, r).ptr,
              k.earryl < s.high, s.high < b.sstorl, g.err # "wild"
       PROVE  Collecting(h, g) /\ Left(h, g) \subseteq Left(h, k) /\ Left(h, g) # Left(h, k)
  <2>1. /\ Collecting(h, g) /\ g \in Heaps /\ g.sstorl <= b.sstorl /\ g.earryl = b.earryl /\ g.depth = b.depth
        /\ \A q \in Refs(k) : q # r => Get(g, q) = Get(b, q)
        /\ Pending(b, r) /\ ~Pending(g, r)
    BY <1>14, <1>15
  <2>2. ASSUME NEW q \in Refs(k), Pending(g, q) PROVE Pending(k, q)
    <3>1. q # r /\ Get(g, q) = Get(b, q)
      BY <2>1, <2>2
    <3>2. Pending(b, q)
      BY <1>3, <2>1, <2>2, <3>1, PendingFewer
    <3> QED BY <1>11, <3>2
  <2>3. PICK i \in 1..Len(Roots(h)) : Roots(h)[i] = r
    BY <1>1, RootFacts
  <2>4. i \in Left(h, k) /\ i \notin Left(h, g)
    BY <1>11, <2>1, <2>3 DEF Left
  <2>5. Left(h, g) \subseteq Left(h, k)
    BY <1>10, <2>2 DEF Left
  <2> QED BY <2>1, <2>4, <2>5
<1>16. \/ k.err = "wild"
       \/ k.err # "wild" /\ s.found = <<>> /\ s.high = k.earryl
       \/ k.err # "wild" /\ \E r \in Refs(k) : /\ s.found = <<r>> /\ s.high = Get(k, r).ptr
                              /\ k.earryl < s.high /\ s.high < b.sstorl
  BY <1>8
<1> QED BY <1>12, <1>13, <1>15, <1>16

SolvesPasses(f, u, n) ==
  f = [i \in 0..n |-> IF i = 0 THEN u ELSE CollectOnce(f[i - 1])]

\* The recursive function in Collect exists: the heap after each pass.
LEMMA PassesExist ==
  ASSUME NEW u, NEW n \in Nat
  PROVE  \E f : SolvesPasses(f, u, n)
<1> DEFINE T == {m \in Nat : \E f : SolvesPasses(f, u, m)}
<1> USE DEF SolvesPasses
<1>1. 0 \in T
  <2> DEFINE f == [i \in 0..0 |-> u]
  <2>1. \A i \in 0..0 : i = 0
    OBVIOUS
  <2>2. SolvesPasses(f, u, 0)
    BY <2>1
  <2> QED BY <2>2
<1>2. ASSUME NEW m \in Nat, m \in T PROVE m + 1 \in T
  <2>1. PICK f : SolvesPasses(f, u, m)
    BY <1>2
  <2> DEFINE g == [i \in 0..(m + 1) |-> IF i = m + 1 THEN CollectOnce(f[m]) ELSE f[i]]
  <2>2. \A i \in 0..m : f[i] = IF i = 0 THEN u ELSE CollectOnce(f[i - 1])
    BY <2>1
  <2>3. ASSUME NEW i \in 0..(m + 1)
        PROVE  g[i] = IF i = 0 THEN u ELSE CollectOnce(g[i - 1])
    <3>1. CASE i = m + 1
      <4>1. g[i] = CollectOnce(f[m]) /\ i # 0 /\ i - 1 = m /\ i - 1 \in 0..(m + 1) /\ i - 1 # m + 1
        BY <3>1
      <4>2. g[i - 1] = f[m]
        BY <4>1
      <4> QED BY <4>1, <4>2
    <3>2. CASE i # m + 1
      <4>1. i \in 0..m /\ g[i] = f[i]
        BY <3>2
      <4>2. CASE i = 0
        BY <2>2, <4>1, <4>2
      <4>3. CASE i # 0
        <5>1. i - 1 \in 0..(m + 1) /\ i - 1 # m + 1
          BY <4>1, <4>3
        <5>2. g[i - 1] = f[i - 1]
          BY <5>1
        <5> QED BY <2>2, <4>1, <4>3, <5>2
      <4> QED BY <4>2, <4>3
    <3> QED BY <3>1, <3>2
  <2>4. g = [i \in 0..(m + 1) |-> IF i = 0 THEN u ELSE CollectOnce(g[i - 1])]
    <3>1. g = [i \in 0..(m + 1) |-> g[i]]
      OBVIOUS
    <3> HIDE DEF g
    <3> QED BY <2>3, <3>1
  <2> HIDE DEF g
  <2>5. SolvesPasses(g, u, m + 1) /\ m + 1 \in Nat
    BY <2>4
  <2> QED BY <2>5
<1> HIDE DEF T
<1>3. n \in T
  BY <1>1, <1>2, NatSetInduction
<1> QED BY <1>3 DEF T

\* Where a collection starts.
Emptied(h) == [h EXCEPT !.sstorl = Ememl, !.exposed = @ \/ AtFloor(h) \/ Shared(h)]

\* A collection is a row of passes.
LEMMA CollectPasses ==
  ASSUME NEW h \in Heaps
  PROVE  \E f : LET n == Len(Roots(h)) + 1
                IN  f[0] = Emptied(h) /\ (\A i \in 1..n : f[i] = CollectOnce(f[i - 1])) /\ Collect(h) = f[n]
<1> DEFINE n == Len(Roots(h)) + 1
           u == Emptied(h)
           after == CHOOSE f : f = [i \in 0..n |-> IF i = 0 THEN u ELSE CollectOnce(f[i - 1])]
<1>1. n \in Nat
  BY HeapFacts, RootFacts
<1>2. Collect(h) = after[n]
  BY DEF Collect, Emptied
<1> HIDE DEF n, u
<1>3. \E f : f = [i \in 0..n |-> IF i = 0 THEN u ELSE CollectOnce(f[i - 1])]
  <2>1. \E f : SolvesPasses(f, u, n)
    BY <1>1, PassesExist
  <2> QED BY <2>1 DEF SolvesPasses
<1>4. after = [i \in 0..n |-> IF i = 0 THEN u ELSE CollectOnce(after[i - 1])]
  BY <1>3
<1> HIDE DEF after
<1>5. \A i \in 0..n : after[i] = IF i = 0 THEN u ELSE CollectOnce(after[i - 1])
  BY <1>4
<1>6. after[0] = u /\ \A i \in 1..n : after[i] = CollectOnce(after[i - 1])
  BY <1>1, <1>5
<1> QED BY <1>2, <1>6 DEF n, u

\* Where a collection begins.
LEMMA EmptiedIs ==
  ASSUME NEW h \in Heaps
  PROVE  LET g == Emptied(h)
         IN  /\ g \in Heaps /\ g.sstorl = Ememl /\ g.exposed = (h.exposed \/ AtFloor(h) \/ Shared(h))
             /\ g.earryl = h.earryl /\ g.depth = h.depth /\ g.utl = h.utl /\ g.need = h.need /\ g.err = h.err
             /\ g.mem = h.mem /\ g.vars = h.vars /\ g.slots = h.slots
             /\ (\A r : Get(g, r) = Get(h, r)) /\ (\A d : Read(g, d) = Read(h, d)) /\ Refs(g) = Refs(h)
             /\ Roots(g) = Roots(h)
<1> DEFINE x == h.exposed \/ AtFloor(h) \/ Shared(h)
           g == Emptied(h)
<1>1. x \in BOOLEAN
  OBVIOUS
<1>2. g = [h EXCEPT !.sstorl = Ememl, !.exposed = x]
  BY DEF Emptied
<1> HIDE DEF x
<1>3. /\ g \in Heaps /\ g.sstorl = Ememl /\ g.exposed = x
      /\ g.earryl = h.earryl /\ g.depth = h.depth /\ g.utl = h.utl /\ g.need = h.need /\ g.err = h.err
      /\ g.mem = h.mem /\ g.vars = h.vars /\ g.slots = h.slots
  <2>1. Ememl \in Int
    BY Constant
  <2> QED BY <1>1, <1>2, <2>1 DEF Heaps
<1> HIDE DEF g
<1>4. (\A r : Get(g, r) = Get(h, r)) /\ (\A d : Read(g, d) = Read(h, d)) /\ Refs(g) = Refs(h)
  BY <1>3 DEF Get, Read, Refs
<1>5. Roots(g) = Roots(h)
  BY <1>3 DEF Roots
<1> QED BY <1>3, <1>4, <1>5 DEF g, x

\* A collection leaves a heap of the same shape.
LEMMA CollectTyped ==
  ASSUME NEW h \in Heaps
  PROVE  /\ Collect(h) \in Heaps /\ SameButErr(Emptied(h), Collect(h))
<1> DEFINE n == Len(Roots(h)) + 1
           u == Emptied(h)
<1>1. n \in Nat
  BY HeapFacts, RootFacts
<1>2. PICK f : f[0] = u /\ (\A i \in 1..n : f[i] = CollectOnce(f[i - 1])) /\ Collect(h) = f[n]
  BY CollectPasses
<1>3. u \in Heaps
  BY EmptiedIs
<1> HIDE DEF n, u
<1> DEFINE T == {i \in Nat : i <= n => f[i] \in Heaps /\ SameButErr(u, f[i])}
<1>4. 0 \in T
  BY <1>2, <1>3 DEF SameButErr
<1>5. ASSUME NEW i \in Nat, i \in T PROVE i + 1 \in T
  <2>1. ASSUME i + 1 <= n PROVE f[i + 1] \in Heaps /\ SameButErr(u, f[i + 1])
    <3>1. f[i] \in Heaps /\ SameButErr(u, f[i]) /\ i + 1 \in 1..n /\ (i + 1) - 1 = i
      BY <1>1, <1>5, <2>1
    <3>2. f[i + 1] = CollectOnce(f[i])
      BY <1>2, <3>1
    <3>3. f[i + 1] \in Heaps /\ SameButErr(f[i], f[i + 1])
      BY <3>1, <3>2, CollectOnceTyped
    <3> QED BY <3>1, <3>3 DEF SameButErr
  <2> QED BY <2>1
<1> HIDE DEF T
<1>6. n \in T
  BY <1>1, <1>4, <1>5, NatSetInduction
<1>7. n <= n
  BY <1>1
<1>8. f[n] \in Heaps /\ SameButErr(u, f[n])
  BY <1>6, <1>7 DEF T
<1> QED BY <1>2, <1>8 DEF u

\* n passes move every string.
LEMMA CollectAll ==
  ASSUME NEW h \in Heaps, Collecting(Emptied(h), Emptied(h)), Collect(h).err # "wild"
  PROVE  Collecting(Emptied(h), Collect(h)) /\ \A r \in Refs(h) : ~Pending(Collect(h), r)
<1> DEFINE m == Len(Roots(h))
           n == m + 1
           u == Emptied(h)
           C(g) == Cardinality(Left(u, g))
<1>0. h.depth \in Nat /\ m \in Nat
  BY HeapFacts, RootFacts
<1>1. n \in Nat /\ m \in Nat /\ n = m + 1
  BY <1>0
<1>2. PICK f : f[0] = u /\ (\A i \in 1..n : f[i] = CollectOnce(f[i - 1])) /\ Collect(h) = f[n]
  BY CollectPasses
<1>3. u \in Heaps /\ Refs(u) = Refs(h) /\ Roots(u) = Roots(h)
  BY EmptiedIs
<1>4. \A g : IsFiniteSet(Left(u, g)) /\ C(g) \in Nat /\ C(g) <= m
  <2> SUFFICES ASSUME NEW g PROVE IsFiniteSet(Left(u, g)) /\ C(g) \in Nat /\ C(g) <= m
    OBVIOUS
  <2>1. IsFiniteSet(Left(u, g)) /\ C(g) \in 0..m
    BY <1>3, LeftFacts
  <2> HIDE DEF C
  <2> QED BY <1>1, <2>1
<1> HIDE DEF n, u, m
<1> DEFINE Good(g, i) == \/ g.err = "wild"
                         \/ Collecting(u, g) /\ (Left(u, g) = {} \/ C(g) + i <= m)
           T == {i \in Nat : i <= n => Good(f[i], i)}
<1>5. 0 \in T
  <2>1. C(u) + 0 <= m
    BY <1>1, <1>4
  <2>2. Good(f[0], 0)
    BY <1>2, <2>1 DEF u
  <2> QED BY <2>2
<1>6. ASSUME NEW i \in Nat, i \in T PROVE i + 1 \in T
  <2>1. ASSUME i + 1 <= n PROVE Good(f[i + 1], i + 1)
    <3> DEFINE k == f[i]
               g == f[i + 1]
    <3>1. Good(k, i) /\ i + 1 \in 1..n /\ (i + 1) - 1 = i
      BY <1>1, <1>6, <2>1
    <3>2. g = CollectOnce(k)
      BY <1>2, <3>1
    <3> HIDE DEF k, g
    <3>3. ASSUME k.err = "wild" PROVE Good(g, i + 1)
      <4>1. g = k
        BY <3>2, <3>3 DEF CollectOnce
      <4> QED BY <3>3, <4>1
    <3>4. ASSUME Collecting(u, k), Left(u, k) = {} \/ C(k) + i <= m PROVE Good(g, i + 1)
      <4>1. \/ g.err = "wild"
            \/ /\ Collecting(u, g)
               /\ \/ Left(u, g) = {}
                  \/ Left(u, g) \subseteq Left(u, k) /\ Left(u, g) # Left(u, k)
        BY <3>2, <3>4, CollectOnceIs
      <4>2. ASSUME Left(u, g) \subseteq Left(u, k), Left(u, g) # Left(u, k), Left(u, g) # {} PROVE C(g) + (i + 1) <= m
        <5>1. Left(u, k) # {}
          BY <4>2
        <5>2. C(g) < C(k)
          <6>1. IsFiniteSet(Left(u, k)) /\ C(g) \in Nat /\ C(k) \in Nat
            BY <1>4
          <6>2. C(g) <= C(k) /\ (C(g) = C(k) => Left(u, g) = Left(u, k))
            BY <4>2, <6>1, FS_Subset
          <6> HIDE DEF C
          <6> QED BY <4>2, <6>1, <6>2
        <5>3. C(g) \in Nat /\ C(k) \in Nat /\ C(k) + i <= m
          BY <1>4, <3>4, <5>1
        <5> HIDE DEF C
        <5> QED BY <1>1, <5>2, <5>3
      <4> QED BY <4>1, <4>2
    <3>5. Good(g, i + 1)
      BY <3>1, <3>3, <3>4
    <3> QED BY <3>5 DEF g
  <2> QED BY <2>1
<1> HIDE DEF T
<1>7. n \in T
  BY <1>1, <1>5, <1>6, NatSetInduction
<1>8. Good(f[n], n)
  <2>1. n <= n
    BY <1>1
  <2> QED BY <1>7, <2>1 DEF T
<1>9. Collecting(u, f[n]) /\ (Left(u, f[n]) = {} \/ C(f[n]) + n <= m)
  BY <1>2, <1>8
<1>10. Left(u, f[n]) = {}
  <2>1. C(f[n]) \in Nat
    BY <1>4
  <2> HIDE DEF C
  <2>2. ~(C(f[n]) + n <= m)
    BY <1>1, <2>1
  <2> QED BY <1>9, <2>2
<1>11. \A r \in Refs(h) : ~Pending(f[n], r)
  <2>1. u.depth \in Nat
    BY <1>3, HeapFacts
  <2>2. \A r \in Refs(u) : \E i \in 1..Len(Roots(u)) : Roots(u)[i] = r
    BY <2>1, RootFacts
  <2> QED BY <1>3, <1>10, <2>2 DEF Left
<1> QED BY <1>2, <1>9, <1>11 DEF u

-----------------------------------------------------------------------------
(* Heaps in order.                                                         *)

Ordered(h) == Len(Text) + 2 <= h.earryl /\ h.earryl <= h.sstorl /\ h.sstorl <= Ememl

\* A string lies in the text or in string space.
Placed(h, d) == d.len > 0 => InText(d) \/ (h.sstorl <= d.ptr /\ d.ptr + Even(d.len) <= Ememl)

RefsAt(k) == OfVars \cup {StackRef(i) : i \in 1..k}

TextKept(h) == \A a \in 1..Len(Text) : h.mem[a] = Text[a]

Neat(h) ==
  /\ h \in Heaps /\ Ordered(h) /\ TextKept(h)
  /\ \A r \in Refs(h) : Placed(h, Get(h, r))
  /\ \A r, q \in Refs(h) : r # q => Apart(Get(h, r), Get(h, q)) \/ Get(h, r).ptr = Get(h, q).ptr

\* The descriptors up to depth k have the same strings in h and in g.
Kept(h, g, k) ==
  /\ \A r \in RefsAt(k) : Get(g, r).len = Get(h, r).len /\ Read(g, Get(g, r)) = Read(h, Get(h, r))
  /\ \A r, q \in RefsAt(k) : r # q =>
       /\ Apart(Get(h, r), Get(h, q)) => Apart(Get(g, r), Get(g, q))
       /\ Get(h, r).ptr = Get(h, q).ptr => Apart(Get(g, r), Get(g, q)) \/ Get(g, r).ptr = Get(g, q).ptr

\* The descriptors up to a depth.
LEMMA RefsAtFacts ==
  /\ \A h : Refs(h) = RefsAt(h.depth)
  /\ \A j, k \in Nat : j <= k => RefsAt(j) \subseteq RefsAt(k)
  /\ \A k : OfVars \subseteq RefsAt(k)
  /\ \A k, i : StackRef(i) \in RefsAt(k) <=> i \in 1..k
  /\ \A k \in Nat : StackRef(k + 1) \notin RefsAt(k) /\ RefsAt(k + 1) = RefsAt(k) \cup {StackRef(k + 1)}
<1>1. \A h : Refs(h) = RefsAt(h.depth)
  BY DEF Refs, RefsAt
<1>2. \A j, k \in Nat : j <= k => RefsAt(j) \subseteq RefsAt(k)
  <2>1. \A j, k \in Nat : j <= k => \A i \in 1..j : i \in 1..k
    OBVIOUS
  <2> QED BY <2>1 DEF RefsAt
<1>3. \A k : OfVars \subseteq RefsAt(k)
  BY DEF RefsAt
<1>4. \A k, i : StackRef(i) \in RefsAt(k) <=> i \in 1..k
  BY RefsApart DEF RefsAt, OfVars
<1>5. ASSUME NEW k \in Nat PROVE StackRef(k + 1) \notin RefsAt(k) /\ RefsAt(k + 1) = RefsAt(k) \cup {StackRef(k + 1)}
  <2>1. k + 1 \notin 1..k /\ 1..(k + 1) = (1..k) \cup {k + 1}
    OBVIOUS
  <2>2. StackRef(k + 1) \notin RefsAt(k)
    BY <1>4, <2>1
  <2>3. {StackRef(i) : i \in 1..(k + 1)} = {StackRef(i) : i \in 1..k} \cup {StackRef(k + 1)}
    BY <2>1
  <2> QED BY <2>2, <2>3 DEF RefsAt
<1> QED BY <1>1, <1>2, <1>3, <1>4, <1>5

\* A heap keeps its own strings.
LEMMA KeptSelf ==
  ASSUME NEW h, NEW k
  PROVE  Kept(h, h, k)
BY DEF Kept

\* What is kept twice is kept.
LEMMA KeptTrans ==
  ASSUME NEW h, NEW g, NEW f, NEW j \in Nat, NEW k \in Nat, j <= k, Kept(h, g, k), Kept(g, f, j)
  PROVE  Kept(h, f, j)
<1>1. RefsAt(j) \subseteq RefsAt(k)
  BY RefsAtFacts
<1> HIDE DEF RefsAt
<1> QED BY <1>1 DEF Kept

\* The same descriptors, whose bytes are the same.
LEMMA KeptSame ==
  ASSUME NEW h, NEW g, NEW k, \A r \in RefsAt(k) : Get(g, r) = Get(h, r),
         \A r \in RefsAt(k) : Read(g, Get(h, r)) = Read(h, Get(h, r))
  PROVE  Kept(h, g, k)
BY DEF Kept

(***************************************************************************)
(* The collector, LAB_GARB: a collection that no exposed string and no     *)
(* empty one disturbs keeps every string, keeps apart those that were,     *)
(* and leaves no byte between them: string space is packed.                *)
(***************************************************************************)
THEOREM CollectIs ==
  ASSUME NEW h, Neat(h), NEW c, c = Collect(h), ~c.exposed, c.err # "wild"
  PROVE  /\ Neat(c) /\ Kept(h, c, h.depth) /\ Packed(c)
         /\ c.depth = h.depth /\ c.earryl = h.earryl /\ c.utl = h.utl /\ c.need = h.need
         /\ c.err = h.err /\ c.exposed = h.exposed
<1> DEFINE u == Emptied(h)
<1>1. h \in Heaps /\ Ordered(h) /\ h.exposed \in BOOLEAN
  BY HeapFacts DEF Neat
<1>2. /\ u \in Heaps /\ u.sstorl = Ememl /\ u.exposed = (h.exposed \/ AtFloor(h) \/ Shared(h))
      /\ u.earryl = h.earryl /\ u.depth = h.depth /\ u.utl = h.utl /\ u.need = h.need /\ u.err = h.err
      /\ u.mem = h.mem
      /\ (\A r : Get(u, r) = Get(h, r)) /\ (\A d : Read(u, d) = Read(h, d)) /\ Refs(u) = Refs(h)
  BY <1>1, EmptiedIs
<1>3. c \in Heaps /\ SameButErr(u, c)
  BY <1>1, CollectTyped
<1>4. ~h.exposed /\ ~AtFloor(h) /\ ~Shared(h)
  BY <1>1, <1>2, <1>3 DEF SameButErr
<1>5. h.sstorl \in Int /\ h.earryl \in Int /\ Ememl \in Int /\ Len(Text) \in Int
  BY <1>1, HeapFacts, Constant
<1>6. ASSUME NEW r \in Refs(h) PROVE Get(h, r).len > 0 => Get(h, r).ptr # h.earryl
  <2>1. h.depth \in Nat
    BY <1>1, HeapFacts
  <2>2. PICK i \in 1..Len(Roots(h)) : Roots(h)[i] = r
    BY <2>1, RootFacts
  <2>3. i \in DOMAIN Roots(h)
    BY <2>1, RootFacts
  <2> QED BY <1>4, <2>2, <2>3 DEF AtFloor
<1>7. ASSUME NEW r \in Refs(h), NEW q \in Refs(h), r # q
      PROVE  Get(h, r).len > 0 /\ Get(h, q).len > 0 /\ Get(h, r).ptr = Get(h, q).ptr => ~(Get(h, r).ptr >= h.earryl)
  <2>1. h.depth \in Nat
    BY <1>1, HeapFacts
  <2>2. PICK i \in 1..Len(Roots(h)) : Roots(h)[i] = r
    BY <2>1, RootFacts
  <2>3. PICK j \in 1..Len(Roots(h)) : Roots(h)[j] = q
    BY <2>1, RootFacts
  <2>4. i \in DOMAIN Roots(h) /\ j \in DOMAIN Roots(h) /\ i # j
    BY <1>7, <2>1, <2>2, <2>3, RootFacts
  <2> QED BY <1>4, <2>2, <2>3, <2>4 DEF Shared
<1>8. \A r \in Refs(h) : /\ Get(h, r).ptr \in Int /\ Get(h, r).len \in Nat /\ Even(Get(h, r).len) \in Nat
                         /\ Placed(h, Get(h, r))
  BY <1>1, RefFacts, EvenFacts DEF Neat
<1>9. ASSUME NEW r \in Refs(h), NEW q \in Refs(h), r # q PROVE Apart(Get(h, r), Get(h, q))
  <2> DEFINE d == Get(h, r)
             e == Get(h, q)
  <2>1. Apart(d, e) \/ d.ptr = e.ptr
    BY <1>9 DEF Neat
  <2>2. d.len > 0 /\ e.len > 0 /\ d.ptr = e.ptr => ~(d.ptr >= h.earryl)
    BY <1>7, <1>9
  <2>3. d.ptr \in Int /\ d.len \in Nat /\ e.len \in Nat /\ Placed(h, d)
    BY <1>8
  <2> HIDE DEF d, e
  <2>4. ASSUME d.len > 0, ~InText(d) PROVE d.ptr >= h.earryl
    BY <1>1, <1>5, <2>3, <2>4 DEF Placed, Ordered
  <2>5. Apart(d, e)
    BY <2>1, <2>2, <2>3, <2>4 DEF Apart
  <2> QED BY <2>5 DEF d, e
<1>10. Collecting(u, u)
  <2>1. ASSUME NEW r \in Refs(h) PROVE Spot(u, Get(u, r))
    <3> DEFINE d == Get(h, r)
    <3>1. d.ptr \in Int /\ d.len \in Nat /\ Even(d.len) \in Nat /\ Placed(h, d) /\ (d.len > 0 => d.ptr # h.earryl)
      BY <1>6, <1>8
    <3> HIDE DEF d
    <3>2. Spot(u, d)
      BY <1>1, <1>2, <1>5, <3>1 DEF Spot, Placed, Ordered
    <3> QED BY <1>2, <3>2 DEF d
  <2>2. Packed(u)
    <3>1. u.sstorl..(Ememl - 1) = {}
      BY <1>2, <1>5
    <3> QED BY <3>1 DEF Packed
  <2>3. Len(Text) + 2 <= u.earryl /\ u.earryl <= u.sstorl /\ u.sstorl <= Ememl
    BY <1>1, <1>2, <1>5 DEF Ordered
  <2> QED BY <1>2, <1>9, <2>1, <2>2, <2>3 DEF Collecting, SameScalars
<1>11. Collecting(u, c) /\ \A r \in Refs(h) : ~Pending(c, r)
  BY <1>1, <1>10, CollectAll
<1>12. c.earryl <= c.sstorl /\ c.sstorl <= Ememl /\ Len(Text) + 2 <= c.earryl /\ c.sstorl \in Int /\ c.earryl \in Int
  BY <1>3, <1>11, HeapFacts DEF Collecting
<1>13. Refs(c) = Refs(h) /\ c.depth = h.depth /\ SameScalars(u, c)
  BY <1>2, <1>11, SameRefs DEF Collecting, SameScalars
<1>14. ASSUME NEW r \in Refs(h) PROVE Placed(c, Get(c, r))
  <2> DEFINE d == Get(c, r)
  <2>1. d.ptr \in Int /\ d.len \in Nat /\ Even(d.len) \in Nat /\ (d.len > 0 => Even(d.len) > 0)
    BY <1>3, <1>13, RefFacts, EvenFacts
  <2>2. Spot(c, d) /\ ~Pending(c, r)
    BY <1>2, <1>11 DEF Collecting
  <2>3. ~(d.len > 0 /\ c.earryl < d.ptr /\ d.ptr < c.sstorl)
    BY <2>2 DEF Pending
  <2> HIDE DEF d
  <2>4. Placed(c, d)
    BY <1>12, <2>1, <2>2, <2>3 DEF Spot, Placed
  <2> QED BY <2>4 DEF d
<1>15. TextKept(c)
  BY <1>2, <1>11 DEF Collecting, TextKept, Neat
<1>16. \A r, q \in Refs(h) : r # q => Apart(Get(c, r), Get(c, q))
  BY <1>2, <1>11 DEF Collecting
<1>17. Neat(c)
  BY <1>3, <1>12, <1>13, <1>14, <1>15, <1>16 DEF Neat, Ordered
<1>18. Kept(h, c, h.depth)
  <2>1. RefsAt(h.depth) = Refs(h)
    BY RefsAtFacts
  <2>2. \A r \in Refs(h) : Get(c, r).len = Get(h, r).len /\ Read(c, Get(c, r)) = Read(h, Get(h, r))
    BY <1>2, <1>11 DEF Collecting
  <2> QED BY <1>16, <2>1, <2>2 DEF Kept
<1>19. Packed(c)
  BY <1>11 DEF Collecting
<1>20. c.exposed = h.exposed
  <2>1. c.exposed \in BOOLEAN
    BY <1>3, HeapFacts
  <2> QED BY <1>1, <1>4, <2>1
<1>21. /\ c.depth = h.depth /\ c.earryl = h.earryl /\ c.utl = h.utl /\ c.need = h.need
       /\ c.err = h.err
  BY <1>2, <1>13 DEF SameScalars
<1> QED BY <1>17, <1>18, <1>19, <1>20, <1>21

-----------------------------------------------------------------------------
(* Space for a string.                                                     *)

SameData(h, g) ==
  /\ g.earryl = h.earryl /\ g.sstorl = h.sstorl /\ g.mem = h.mem
  /\ g.vars = h.vars /\ g.slots = h.slots /\ g.depth = h.depth

\* Heaps of the same data have the same strings.
LEMMA SameDataFacts ==
  ASSUME NEW h, NEW g, SameData(h, g)
  PROVE  /\ \A r : Get(g, r) = Get(h, r)
         /\ \A d : Read(g, d) = Read(h, d)
         /\ Refs(g) = Refs(h)
         /\ \A k : Kept(h, g, k)
         /\ Neat(h) /\ g \in Heaps => Neat(g)
         /\ Packed(h) => Packed(g)
<1>1. (\A r : Get(g, r) = Get(h, r)) /\ (\A d : Read(g, d) = Read(h, d)) /\ Refs(g) = Refs(h)
  BY DEF SameData, Get, Read, Refs
<1>2. \A k : Kept(h, g, k)
  BY <1>1, KeptSame
<1>3. Neat(h) /\ g \in Heaps => Neat(g)
  BY <1>1 DEF SameData, Neat, Ordered, TextKept, Placed
<1>4. Packed(h) => Packed(g)
  BY <1>1 DEF SameData, Packed
<1> QED BY <1>1, <1>2, <1>3, <1>4

\* Live and Unused of any heap.
LiveIn(h) == {r \in Refs(h) : Get(h, r).len > 0 /\ Get(h, r).ptr >= h.earryl}

UnusedIn(h) == {a \in h.earryl..(Ememl - 1) :
                  \A r \in LiveIn(h) : LET d == Get(h, r) IN a \notin d.ptr..(d.ptr + Even(d.len) - 1)}

\* What a memory error must report.
Short(h) == Cardinality(UnusedIn(h)) < Even(h.need)

\* After a collection every byte from the bottom of string space on is in use.
LEMMA PackedShort ==
  ASSUME NEW h \in Heaps, Packed(h), h.earryl <= h.sstorl, h.sstorl - h.earryl < Even(h.need)
  PROVE  Short(h)
<1>1. h.earryl \in Int /\ h.sstorl \in Int /\ Ememl \in Int /\ h.need \in Nat
  BY HeapFacts, Constant
<1>2. Even(h.need) \in Nat
  BY <1>1, EvenFacts
<1> DEFINE S == h.earryl..(h.sstorl - 1)
           n == h.sstorl - h.earryl
<1>3. UnusedIn(h) \subseteq S
  <2> SUFFICES ASSUME NEW a \in UnusedIn(h) PROVE a \in S
    OBVIOUS
  <2>1. a \in h.earryl..(Ememl - 1) /\ \A r \in LiveIn(h) : LET d == Get(h, r) IN a \notin d.ptr..(d.ptr + Even(d.len) - 1)
    BY DEF UnusedIn
  <2>2. ASSUME a >= h.sstorl PROVE FALSE
    <3>1. a \in h.sstorl..(Ememl - 1)
      BY <1>1, <2>1, <2>2
    <3>2. PICK r \in Refs(h) : LET d == Get(h, r)
                               IN  d.len > 0 /\ h.sstorl <= d.ptr /\ a \in d.ptr..(d.ptr + Even(d.len) - 1)
      BY <3>1 DEF Packed
    <3>3. Get(h, r).ptr \in Int
      BY RefFacts
    <3>4. Get(h, r).ptr >= h.earryl
      BY <1>1, <3>2, <3>3
    <3>5. r \in LiveIn(h)
      BY <3>2, <3>4 DEF LiveIn
    <3> QED BY <2>1, <3>2, <3>5
  <2> QED BY <1>1, <2>1, <2>2
<1>4. IsFiniteSet(S) /\ Cardinality(S) = n
  <2>1. h.sstorl - 1 \in Int /\ (h.earryl > h.sstorl - 1 => n = 0) /\ (h.sstorl - 1) - h.earryl + 1 = n
    BY <1>1
  <2> HIDE DEF n
  <2> QED BY <1>1, <2>1, FS_Interval
<1> HIDE DEF S
<1>5. Cardinality(UnusedIn(h)) <= n /\ IsFiniteSet(UnusedIn(h))
  BY <1>3, <1>4, FS_Subset
<1>6. Cardinality(UnusedIn(h)) \in Nat
  BY <1>5, FS_CardinalityType
<1>7. n < Even(h.need) /\ n \in Int
  BY <1>1
<1> HIDE DEF n
<1> QED BY <1>2, <1>5, <1>6, <1>7 DEF Short

\* Room for n bytes at utl, below every string.
Room(g, n) ==
  n # 0 => /\ g.utl = g.sstorl
           /\ g.earryl <= g.utl /\ g.utl + Even(n) <= Ememl
           /\ \A r \in Refs(g) : LET d == Get(g, r)
                                 IN  d.len > 0 => InText(d) \/ g.utl + Even(n) <= d.ptr

\* Taking space from string space changes two pointers.
LEMMA TakeTyped ==
  ASSUME NEW h \in Heaps, NEW n \in Nat
  PROVE  LET g == Take(h, n)
         IN  /\ g \in Heaps /\ g.sstorl = h.sstorl - Even(n) /\ g.utl = h.sstorl - Even(n)
             /\ g.earryl = h.earryl /\ g.depth = h.depth /\ g.mem = h.mem /\ g.vars = h.vars /\ g.slots = h.slots
             /\ g.err = h.err /\ g.need = h.need /\ g.exposed = h.exposed
<1>1. h.sstorl - Even(n) \in Int
  BY HeapFacts, EvenFacts
<1> QED BY <1>1 DEF Take, Heaps

\* Space that fits is taken below every string.
LEMMA TakeIs ==
  ASSUME NEW h, Neat(h), NEW n \in Nat, Fits(h, n), NEW g, g = Take(h, n)
  PROVE  Neat(g) /\ Room(g, n) /\ (\A r : Get(g, r) = Get(h, r)) /\ \A k : Kept(h, g, k)
<1>1. h \in Heaps /\ Ordered(h) /\ TextKept(h)
  BY DEF Neat
<1>2. /\ g \in Heaps /\ g.sstorl = h.sstorl - Even(n) /\ g.utl = h.sstorl - Even(n)
      /\ g.earryl = h.earryl /\ g.depth = h.depth /\ g.mem = h.mem /\ g.vars = h.vars /\ g.slots = h.slots
  BY <1>1, TakeTyped
<1>3. h.sstorl \in Int /\ h.earryl \in Int /\ Ememl \in Int /\ Even(n) \in Nat /\ h.sstorl - Even(n) >= h.earryl
  <2>1. h.sstorl \in Int /\ h.earryl \in Int /\ Ememl \in Int
    BY <1>1, HeapFacts, Constant
  <2>2. Even(n) \in Nat
    BY EvenFacts
  <2> QED BY <2>1, <2>2 DEF Fits
<1>4. (\A r : Get(g, r) = Get(h, r)) /\ (\A d : Read(g, d) = Read(h, d)) /\ Refs(g) = Refs(h)
  BY <1>2 DEF Get, Read, Refs
<1>5. \A k : Kept(h, g, k)
  BY <1>4, KeptSame
<1>6. Ordered(g)
  BY <1>1, <1>2, <1>3 DEF Ordered
<1>7. ASSUME NEW r \in Refs(h)
      PROVE  Placed(g, Get(h, r)) /\ (Get(h, r).len > 0 => InText(Get(h, r)) \/ g.utl + Even(n) <= Get(h, r).ptr)
  <2>1. Get(h, r).ptr \in Int /\ Get(h, r).len \in Nat /\ Even(Get(h, r).len) \in Nat /\ Placed(h, Get(h, r))
    BY <1>1, RefFacts, EvenFacts DEF Neat
  <2> QED BY <1>2, <1>3, <2>1 DEF Placed
<1>8. Neat(g)
  BY <1>1, <1>2, <1>4, <1>6, <1>7 DEF Neat, TextKept
<1>9. Room(g, n)
  BY <1>1, <1>2, <1>3, <1>4, <1>7 DEF Room, Ordered
<1> QED BY <1>4, <1>5, <1>8, <1>9

\* LAB_2115 in any heap.
LEMMA RetryTyped ==
  ASSUME NEW h \in Heaps, NEW n \in Nat
  PROVE  LET g == Retry(h, n)
         IN  /\ g \in Heaps /\ g.depth = h.depth /\ g.exposed = h.exposed /\ g.earryl = h.earryl
             /\ g.err \in {h.err, "memory"} /\ (h.err # "none" => g = h)
<1>1. /\ Take(h, n) \in Heaps /\ Take(h, n).depth = h.depth /\ Take(h, n).exposed = h.exposed
      /\ Take(h, n).err = h.err /\ Take(h, n).earryl = h.earryl
  BY TakeTyped
<1> DEFINE m == [h EXCEPT !.err = "memory", !.need = n]
<1>2. m \in Heaps /\ m.depth = h.depth /\ m.exposed = h.exposed /\ m.err = "memory" /\ m.earryl = h.earryl
  BY DEF Heaps, Errors
<1>3. Retry(h, n) = IF h.err # "none" THEN h ELSE IF Fits(h, n) THEN Take(h, n) ELSE m
  BY DEF Retry
<1> HIDE DEF m
<1> QED BY <1>1, <1>2, <1>3

\* LAB_2115 returns a heap, and an error if it was given one.
LEMMA MakeTyped ==
  ASSUME NEW h \in Heaps, NEW n \in Nat, NEW held \in Int
  PROVE  LET g == Make(h, n, held)
         IN  /\ g \in Heaps /\ g.depth = h.depth /\ g.earryl = h.earryl /\ (h.exposed => g.exposed)
             /\ g.err \in {h.err, "memory", "wild"} /\ (h.err # "none" => g = h)
<1> DEFINE z == [h EXCEPT !.utl = 0]
           c == Collect(h)
           x == c.exposed \/ held >= h.earryl
           c2 == [c EXCEPT !.exposed = x]
<1>1. z \in Heaps /\ z.depth = h.depth /\ z.earryl = h.earryl /\ z.exposed = h.exposed /\ z.err = h.err
  BY DEF Heaps
<1>2. /\ Take(h, n) \in Heaps /\ Take(h, n).depth = h.depth /\ Take(h, n).exposed = h.exposed
      /\ Take(h, n).err = h.err /\ Take(h, n).earryl = h.earryl
  BY TakeTyped
<1>3. c \in Heaps /\ SameButErr(Emptied(h), c)
  BY CollectTyped
<1>4. c.depth = h.depth /\ c.earryl = h.earryl /\ c.err \in {h.err, "wild"} /\ (h.exposed => c.exposed)
  BY <1>3, EmptiedIs DEF SameButErr
<1>5. x \in BOOLEAN /\ (c.exposed => x)
  OBVIOUS
<1>6. Make(h, n, held) = IF h.err # "none" THEN h
                         ELSE IF n = 0 THEN z
                         ELSE IF Fits(h, n) THEN Take(h, n)
                         ELSE Retry(c2, n)
  BY DEF Make
<1> HIDE DEF c, x
<1>7. c2 \in Heaps /\ c2.depth = c.depth /\ c2.earryl = c.earryl /\ c2.err = c.err /\ c2.exposed = x
  BY <1>3, <1>5 DEF Heaps
<1> HIDE DEF z, c2
<1>8. /\ Retry(c2, n) \in Heaps /\ Retry(c2, n).depth = c2.depth /\ Retry(c2, n).exposed = c2.exposed
      /\ Retry(c2, n).err \in {c2.err, "memory"} /\ Retry(c2, n).earryl = c2.earryl
  BY <1>7, RetryTyped
<1> QED BY <1>1, <1>2, <1>4, <1>5, <1>6, <1>7, <1>8

\* What LAB_2115 returns: room, or an error that is real.
LEMMA MakeIs ==
  ASSUME NEW h, Neat(h), h.err = "none", NEW n \in Nat, NEW held \in Int,
         NEW g, g = Make(h, n, held), ~g.exposed, g.err # "wild"
  PROVE  /\ Neat(g) /\ Kept(h, g, h.depth)
         /\ \/ g.err = "none" /\ Room(g, n) /\ (n = 0 => g.utl = 0)
            \/ g.err = "memory" /\ Short(g)
         /\ g.err = "none" /\ held >= h.earryl => g.mem = h.mem /\ \A r : Get(g, r) = Get(h, r)
<1>1. h \in Heaps
  BY DEF Neat
<1> DEFINE z == [h EXCEPT !.utl = 0]
           c == Collect(h)
           x == c.exposed \/ held >= h.earryl
           c2 == [c EXCEPT !.exposed = x]
<1>2. g = IF n = 0 THEN z
          ELSE IF Fits(h, n) THEN Take(h, n)
          ELSE Retry(c2, n)
  BY DEF Make
<1>3. CASE n = 0
  <2>1. g = z
    BY <1>2, <1>3
  <2>2. g \in Heaps /\ SameData(h, g) /\ g.err = "none" /\ g.utl = 0
    BY <1>1, <2>1 DEF Heaps, SameData
  <2>3. Neat(g) /\ Kept(h, g, h.depth) /\ g.mem = h.mem /\ \A r : Get(g, r) = Get(h, r)
    BY <2>2, SameDataFacts DEF SameData
  <2> QED BY <1>3, <2>2, <2>3 DEF Room
<1>4. CASE n # 0 /\ Fits(h, n)
  <2>1. g = Take(h, n)
    BY <1>2, <1>4
  <2>2. Neat(g) /\ Room(g, n) /\ (\A r : Get(g, r) = Get(h, r)) /\ Kept(h, g, h.depth)
    BY <1>4, <2>1, TakeIs
  <2>3. g.err = "none" /\ g.mem = h.mem
    BY <1>1, <2>1, TakeTyped
  <2> QED BY <1>4, <2>2, <2>3
<1>5. CASE n # 0 /\ ~Fits(h, n)
  <2>1. g = Retry(c2, n)
    BY <1>2, <1>5
  <2>2. c \in Heaps /\ x \in BOOLEAN /\ SameButErr(Emptied(h), c) /\ c.exposed \in BOOLEAN
    BY <1>1, CollectTyped, HeapFacts
  <2>3. c2 \in Heaps /\ c2.err = c.err /\ c2.exposed = x
    BY <2>2 DEF Heaps
  <2>4. g.exposed = x /\ g.err \in {c2.err, "memory"} /\ (c2.err # "none" => g = c2)
    <3> HIDE DEF c2, x
    <3> QED BY <2>1, <2>3, RetryTyped
  <2>5. ~x /\ ~c.exposed /\ ~(held >= h.earryl)
    BY <2>4
  <2>6. c.err # "wild"
    BY <2>3, <2>4
  <2>7. /\ Neat(c) /\ Kept(h, c, h.depth) /\ Packed(c)
        /\ c.depth = h.depth /\ c.earryl = h.earryl /\ c.err = "none"
    BY <2>5, <2>6, CollectIs
  <2>8. SameData(c, c2)
    BY <2>2 DEF SameData, Heaps
  <2> HIDE DEF c, c2, x
  <2>9. Neat(c2) /\ Packed(c2) /\ c2.err = "none" /\ c2.depth = h.depth
    BY <2>3, <2>7, <2>8, SameDataFacts DEF SameData
  <2>10. h.depth \in Nat /\ h.depth <= h.depth
    BY <1>1, HeapFacts
  <2>11. Kept(h, c2, h.depth)
    BY <2>7, <2>8, <2>10, SameDataFacts, KeptTrans
  <2>12. CASE Fits(c2, n)
    <3>1. g = Take(c2, n)
      BY <2>1, <2>9, <2>12 DEF Retry
    <3>2. Neat(g) /\ Room(g, n) /\ Kept(c2, g, h.depth)
      BY <2>9, <2>12, <3>1, TakeIs
    <3>3. g.err = "none"
      BY <2>3, <2>9, <3>1, TakeTyped
    <3>4. Kept(h, g, h.depth)
      BY <2>10, <2>11, <3>2, KeptTrans
    <3> QED BY <1>5, <2>5, <3>2, <3>3, <3>4
  <2>13. CASE ~Fits(c2, n)
    <3>1. g = [c2 EXCEPT !.err = "memory", !.need = n]
      BY <2>1, <2>9, <2>13 DEF Retry
    <3>2. g \in Heaps /\ SameData(c2, g) /\ g.err = "memory" /\ g.need = n
      BY <2>3, <3>1 DEF Heaps, Errors, SameData
    <3>3. Neat(g) /\ Packed(g) /\ Kept(c2, g, h.depth)
      BY <2>9, <3>2, SameDataFacts
    <3>4. Kept(h, g, h.depth)
      BY <2>10, <2>11, <3>3, KeptTrans
    <3>5. g.sstorl \in Int /\ g.earryl \in Int /\ Even(n) \in Nat /\ ~(g.sstorl - Even(n) >= g.earryl)
      <4>1. g.sstorl \in Int /\ g.earryl \in Int
        BY <3>2, HeapFacts
      <4>2. Even(n) \in Nat
        BY EvenFacts
      <4> QED BY <2>13, <3>2, <4>1, <4>2 DEF Fits, SameData
    <3>6. g.earryl <= g.sstorl
      BY <3>3 DEF Neat, Ordered
    <3>7. Short(g)
      BY <3>2, <3>3, <3>5, <3>6, PackedShort
    <3> QED BY <3>2, <3>3, <3>4, <3>7
  <2> QED BY <2>12, <2>13
<1> QED BY <1>3, <1>4, <1>5

-----------------------------------------------------------------------------
(* The descriptor stack.                                                   *)

\* Being apart goes both ways.
LEMMA ApartSym ==
  ASSUME NEW d, NEW e
  PROVE  Apart(d, e) <=> Apart(e, d)
BY DEF Apart

\* There is a descriptor stack.
LEMMA StackMaxIs == StackMax \in Nat /\ StackMax > 0
BY DEF StackMax

\* The descriptor of r may be pushed on h, or moved to another variable.
Fresh(h, d, k) == d.len \in Nat /\ Placed(h, d) /\ \A r \in RefsAt(k) : Apart(d, Get(h, r)) \/ d.ptr = Get(h, r).ptr

\* LAB_RTST
LEMMA PushTyped ==
  ASSUME NEW h \in Heaps, NEW d \in Descs, NEW g, g = Push(h, d)
  PROVE  /\ g \in Heaps /\ g.earryl = h.earryl /\ g.sstorl = h.sstorl /\ g.mem = h.mem /\ g.vars = h.vars
         /\ g.exposed = h.exposed /\ g.utl = h.utl /\ g.need = h.need
         /\ g.err \in {h.err, "complex"}
         /\ h.err # "none" => g = h
         /\ g.err # "none" => SameData(h, g)
         /\ g.err = "none" => /\ g.depth = h.depth + 1
                              /\ Get(g, StackRef(h.depth + 1)) = d
                              /\ \A r \in Refs(h) : Get(g, r) = Get(h, r)
<1> DEFINE m == [h EXCEPT !.err = "complex"]
           w == [h.slots EXCEPT ![h.depth + 1] = d]
           b == [h EXCEPT !.depth = @ + 1, !.slots[h.depth + 1] = d]
<1>1. m \in Heaps /\ SameData(h, m) /\ m.err = "complex"
      /\ m.exposed = h.exposed /\ m.utl = h.utl /\ m.need = h.need
  BY DEF Heaps, Errors, SameData
<1>2. Push(h, d) = IF h.err # "none" THEN h ELSE IF h.depth = StackMax THEN m ELSE b
  BY DEF Push
<1>3. h.depth \in 0..StackMax /\ h.slots \in [1..StackMax -> Descs] /\ h.depth \in Nat
  BY HeapFacts
<1>4. ASSUME h.depth # StackMax
      PROVE  /\ b \in Heaps /\ b.earryl = h.earryl /\ b.sstorl = h.sstorl /\ b.mem = h.mem /\ b.vars = h.vars
             /\ b.exposed = h.exposed /\ b.utl = h.utl /\ b.need = h.need /\ b.err = h.err
             /\ b.depth = h.depth + 1
             /\ Get(b, StackRef(h.depth + 1)) = d
             /\ \A r \in Refs(h) : Get(b, r) = Get(h, r)
  <2>1. h.depth + 1 \in 1..StackMax /\ h.depth + 1 \in 0..StackMax
    BY <1>3, <1>4, StackMaxIs
  <2>2. w \in [1..StackMax -> Descs] /\ w[h.depth + 1] = d /\ \A i \in 1..h.depth : w[i] = h.slots[i]
    <3>1. \A i \in 1..h.depth : i \in 1..StackMax /\ i # h.depth + 1
      BY <1>3, <2>1, StackMaxIs
    <3> QED BY <1>3, <2>1, <3>1
  <2>3. b = [h EXCEPT !.depth = h.depth + 1, !.slots = w]
    OBVIOUS
  <2> HIDE DEF w, b
  <2>4. /\ b \in Heaps /\ b.earryl = h.earryl /\ b.sstorl = h.sstorl /\ b.mem = h.mem /\ b.vars = h.vars
        /\ b.exposed = h.exposed /\ b.utl = h.utl /\ b.need = h.need /\ b.err = h.err
        /\ b.depth = h.depth + 1 /\ b.slots = w
    BY <2>1, <2>2, <2>3 DEF Heaps
  <2>5. Get(b, StackRef(h.depth + 1)) = d
    BY <2>2, <2>4 DEF Get, StackRef
  <2>6. \A r \in Refs(h) : Get(b, r) = Get(h, r)
    BY <2>2, <2>4 DEF Get, Refs, OfVars, StackRef, VarRef
  <2> QED BY <2>4, <2>5, <2>6
<1> HIDE DEF m, b
<1>5. CASE h.err # "none"
  BY <1>2, <1>5 DEF SameData
<1>6. CASE h.err = "none" /\ h.depth = StackMax
  BY <1>1, <1>2, <1>6 DEF SameData
<1>7. CASE h.err = "none" /\ h.depth # StackMax
  BY <1>2, <1>4, <1>7
<1> QED BY <1>5, <1>6, <1>7

\* LAB_RTST keeps every string.
LEMMA PushIs ==
  ASSUME NEW h, Neat(h), NEW d \in Descs, Fresh(h, d, h.depth), NEW g, g = Push(h, d), h.err = "none"
  PROVE  Neat(g) /\ Kept(h, g, h.depth)
<1>1. h \in Heaps /\ h.depth \in Nat
  BY HeapFacts DEF Neat
<1>2. /\ g \in Heaps /\ g.earryl = h.earryl /\ g.sstorl = h.sstorl /\ g.mem = h.mem /\ g.vars = h.vars
      /\ g.err # "none" => SameData(h, g)
      /\ g.err = "none" => /\ g.depth = h.depth + 1
                           /\ Get(g, StackRef(h.depth + 1)) = d
                           /\ \A r \in Refs(h) : Get(g, r) = Get(h, r)
  BY <1>1, PushTyped
<1>3. CASE g.err # "none"
  BY <1>2, <1>3, SameDataFacts
<1>4. CASE g.err = "none"
  <2> DEFINE t == StackRef(h.depth + 1)
  <2>1. Refs(g) = Refs(h) \cup {t} /\ t \notin Refs(h) /\ Refs(h) = RefsAt(h.depth)
    BY <1>1, <1>2, <1>4, RefsAtFacts
  <2>2. \A r \in Refs(h) : Get(g, r) = Get(h, r)
    BY <1>2, <1>4
  <2>3. Get(g, t) = d
    BY <1>2, <1>4
  <2> HIDE DEF t
  <2>4. \A e : (Placed(h, e) <=> Placed(g, e)) /\ Read(g, e) = Read(h, e)
    BY <1>2 DEF Placed, Read
  <2>5. \A r \in Refs(g) : Placed(g, Get(g, r))
    BY <2>1, <2>2, <2>3, <2>4 DEF Neat, Fresh
  <2>6. \A r, q \in Refs(g) : r # q => Apart(Get(g, r), Get(g, q)) \/ Get(g, r).ptr = Get(g, q).ptr
    <3>1. \A r, q \in Refs(h) : r # q => Apart(Get(h, r), Get(h, q)) \/ Get(h, r).ptr = Get(h, q).ptr
      BY DEF Neat
    <3>2. \A r \in Refs(h) : Apart(d, Get(h, r)) \/ d.ptr = Get(h, r).ptr
      BY <2>1 DEF Fresh
    <3>3. \A r \in Refs(h) : Apart(Get(h, r), d) \/ Get(h, r).ptr = d.ptr
      BY <3>2, ApartSym
    <3> QED BY <2>1, <2>2, <2>3, <3>1, <3>2, <3>3
  <2>7. Neat(g)
    BY <1>2, <2>5, <2>6 DEF Neat, Ordered, TextKept
  <2>8. Kept(h, g, h.depth)
    BY <2>1, <2>2, <2>4, KeptSame
  <2> QED BY <2>7, <2>8
<1> QED BY <1>3, <1>4

\* The depth once r is popped: only the top one can be.
Popped(k, r) == IF r = StackRef(k) THEN k - 1 ELSE k

\* A pop leaves a depth of the stack.
LEMMA PoppedFacts ==
  ASSUME NEW k \in 0..StackMax, NEW r \in RefsAt(k)
  PROVE  Popped(k, r) \in 0..k /\ Popped(k, r) \in 0..StackMax /\ Popped(k, r) \in Nat /\ Popped(k, r) <= k
<1>1. k \in Nat /\ (r = StackRef(k) => k >= 1)
  BY StackMaxIs, RefsAtFacts
<1> QED BY <1>1, StackMaxIs DEF Popped

\* LAB_22BA
LEMMA PopTyped ==
  ASSUME NEW h \in Heaps, NEW r \in Refs(h), NEW g, g = Pop(h, r)
  PROVE  /\ g \in Heaps /\ g.earryl = h.earryl /\ g.mem = h.mem /\ g.vars = h.vars /\ g.slots = h.slots
         /\ g.exposed = h.exposed /\ g.utl = h.utl /\ g.need = h.need /\ g.err = h.err
         /\ h.err # "none" => g = h
         /\ h.err = "none" => g.depth = Popped(h.depth, r)
         /\ \/ g.sstorl = h.sstorl
            \/ /\ r = Top(h) /\ Get(h, r).ptr = h.sstorl
               /\ g.sstorl = h.sstorl + Even(Get(h, r).len)
<1> DEFINE d == Get(h, r)
           k == IF r = Top(h) THEN [h EXCEPT !.depth = @ - 1] ELSE h
           b == [k EXCEPT !.sstorl = @ + Even(d.len)]
<1>1. h.depth \in Nat /\ h.depth \in 0..StackMax /\ r \in RefsAt(h.depth)
  BY HeapFacts, RefsAtFacts
<1>2. Popped(h.depth, r) \in 0..StackMax
  BY <1>1, PoppedFacts
<1>3. r = Top(h) => h.depth >= 1
  BY <1>1, RefsAtFacts DEF Top
<1>4. /\ k \in Heaps /\ k.earryl = h.earryl /\ k.mem = h.mem /\ k.vars = h.vars /\ k.slots = h.slots
      /\ k.exposed = h.exposed /\ k.utl = h.utl /\ k.need = h.need /\ k.err = h.err
      /\ k.depth = Popped(h.depth, r) /\ k.sstorl = h.sstorl
  BY <1>1, <1>2 DEF Heaps, Popped, Top
<1>5. d.len \in Nat /\ Even(d.len) \in Nat
  BY RefFacts, EvenFacts
<1>6. g = IF h.err # "none" THEN h ELSE IF r = StackRef(k.depth + 1) /\ d.ptr = k.sstorl THEN b ELSE k
  BY DEF Pop
<1>7. r = StackRef(k.depth + 1) => r = Top(h)
  <2>1. StackRef(h.depth + 1) \notin RefsAt(h.depth)
    BY <1>1, RefsAtFacts
  <2> QED BY <1>1, <1>4, <2>1 DEF Popped, Top
<1> HIDE DEF k, d
<1>8. h.sstorl \in Int /\ h.sstorl + Even(d.len) \in Int
  BY <1>5, HeapFacts
<1>9. /\ b \in Heaps /\ b.earryl = h.earryl /\ b.mem = h.mem /\ b.vars = h.vars /\ b.slots = h.slots
      /\ b.exposed = h.exposed /\ b.utl = h.utl /\ b.need = h.need /\ b.err = h.err
      /\ b.depth = Popped(h.depth, r) /\ b.sstorl = h.sstorl + Even(d.len)
  BY <1>4, <1>8 DEF Heaps
<1> HIDE DEF b
<1> QED BY <1>4, <1>6, <1>7, <1>9 DEF d

\* LAB_22BA keeps every string but the popped one, if that shares no bytes.
LEMMA PopIs ==
  ASSUME NEW h, Neat(h), NEW r \in Refs(h), NEW g, g = Pop(h, r), h.err = "none",
         r = Top(h) => \A q \in Refs(h) : q # r => Apart(Get(h, r), Get(h, q))
  PROVE  /\ Neat(g) /\ Kept(h, g, g.depth) /\ \A q : Get(g, q) = Get(h, q)
<1>1. h \in Heaps /\ h.depth \in Nat /\ h.depth \in 0..StackMax /\ r \in RefsAt(h.depth)
  BY HeapFacts, RefsAtFacts DEF Neat
<1>2. /\ g \in Heaps /\ g.earryl = h.earryl /\ g.mem = h.mem /\ g.vars = h.vars /\ g.slots = h.slots
      /\ g.depth = Popped(h.depth, r)
      /\ \/ g.sstorl = h.sstorl
         \/ /\ r = Top(h) /\ Get(h, r).ptr = h.sstorl
            /\ g.sstorl = h.sstorl + Even(Get(h, r).len)
  BY <1>1, PopTyped
<1>3. Refs(g) \subseteq Refs(h) /\ Refs(g) = RefsAt(g.depth)
  <2>1. g.depth \in Nat /\ g.depth <= h.depth
    BY <1>1, <1>2, PoppedFacts
  <2> QED BY <1>1, <2>1, RefsAtFacts
<1>4. r = Top(h) => r \notin Refs(g)
  <2>1. r = Top(h) => g.depth = h.depth - 1
    BY <1>2 DEF Popped, Top
  <2>2. h.depth \notin 1..(h.depth - 1)
    BY <1>1
  <2> QED BY <1>3, <2>1, <2>2, RefsAtFacts DEF Top
<1>5. (\A q : Get(g, q) = Get(h, q)) /\ (\A e : Read(g, e) = Read(h, e))
  BY <1>2 DEF Get, Read
<1> DEFINE d == Get(h, r)
<1>6. d.ptr \in Int /\ d.len \in Nat /\ Even(d.len) \in Nat /\ (d.len = 0 => Even(d.len) = 0) /\ Even(d.len) >= d.len
      /\ Placed(h, d)
  BY <1>1, RefFacts, EvenFacts DEF Neat
<1>7. h.sstorl \in Int /\ h.earryl \in Int /\ Ememl \in Int /\ Len(Text) \in Int
      /\ Len(Text) + 2 <= h.earryl /\ h.earryl <= h.sstorl /\ h.sstorl <= Ememl
  BY <1>1, HeapFacts, Constant DEF Neat, Ordered
<1>8. d.ptr = h.sstorl => ~InText(d)
  BY <1>6, <1>7 DEF InText
<1>9. d.ptr = h.sstorl => h.sstorl + Even(d.len) <= Ememl
  BY <1>6, <1>7, <1>8 DEF Placed
<1>10. Ordered(g)
  BY <1>2, <1>6, <1>7, <1>9 DEF Ordered
<1>11. ASSUME NEW q \in Refs(g) PROVE Placed(g, Get(h, q))
  <2> DEFINE e == Get(h, q)
  <2>1. e.ptr \in Int /\ e.len \in Nat /\ Even(e.len) \in Nat /\ Even(e.len) >= e.len /\ Placed(h, e)
    BY <1>1, <1>3, RefFacts, EvenFacts DEF Neat
  <2>2. r = Top(h) => Apart(d, e)
    BY <1>3, <1>4
  <2> SUFFICES Placed(g, e)
    OBVIOUS
  <2> HIDE DEF d, e
  <2>3. CASE g.sstorl = h.sstorl
    BY <2>1, <2>3 DEF Placed
  <2>4. CASE r = Top(h) /\ d.ptr = h.sstorl /\ g.sstorl = h.sstorl + Even(d.len)
    <3>1. CASE d.len = 0
      BY <1>6, <1>7, <2>1, <2>4, <3>1 DEF Placed
    <3>2. CASE d.len # 0 /\ e.len > 0 /\ ~InText(e)
      <4>1. ~Below(e, d)
        BY <1>6, <1>7, <2>1, <2>4, <3>2 DEF Below, Placed
      <4>2. Below(d, e)
        BY <1>8, <2>2, <2>4, <3>2, <4>1 DEF Apart
      <4> QED BY <2>1, <2>4, <3>2, <4>2 DEF Below, Placed
    <3>3. CASE e.len = 0 \/ InText(e)
      BY <3>3 DEF Placed
    <3> QED BY <2>1, <3>1, <3>2, <3>3
  <2> QED BY <1>2, <2>3, <2>4 DEF d
<1>12. Neat(g)
  BY <1>2, <1>3, <1>5, <1>10, <1>11 DEF Neat, TextKept
<1>13. Kept(h, g, g.depth)
  BY <1>5, KeptSame
<1> QED BY <1>5, <1>12, <1>13

-----------------------------------------------------------------------------
(* A new string.                                                           *)

\* The routine from h to g has pushed a string of its own, that reads t, above k descriptors.
Yielded(h, g, k, t) ==
  /\ g.depth = k + 1 /\ Neat(g) /\ Kept(h, g, k)
  /\ LET d == Get(g, StackRef(k + 1))
     IN  Read(g, d) = t /\ \A r \in RefsAt(k) : Apart(d, Get(g, r))

\* It has given up: the variables are as they were.
Failed(h, g) == Neat(g) /\ Kept(h, g, 0) /\ (g.err = "memory" => Short(g))

Result(h, g, k, t) == IF g.err = "none" THEN Yielded(h, g, k, t) ELSE Failed(h, g)

\* A descriptor of bytes of its own, pushed, is a result.
LEMMA YieldPush ==
  ASSUME NEW h, NEW g, Neat(g), g.err = "none", Kept(h, g, g.depth), NEW d \in Descs, Placed(g, d),
         \A r \in RefsAt(g.depth) : Apart(d, Get(g, r)),
         NEW p, p = Push(g, d)
  PROVE  Result(h, p, g.depth, Read(g, d)) /\ p.err \in {"none", "complex"}
<1>1. g \in Heaps /\ g.depth \in Nat /\ 0 <= g.depth /\ g.depth <= g.depth /\ Refs(g) = RefsAt(g.depth)
  BY HeapFacts, RefsAtFacts DEF Neat
<1>2. Fresh(g, d, g.depth)
  BY DEF Fresh, Descs
<1>3. Neat(p) /\ Kept(g, p, g.depth)
  BY <1>2, PushIs
<1>4. /\ p.err \in {g.err, "complex"} /\ p.mem = g.mem
      /\ p.err = "none" => /\ p.depth = g.depth + 1
                           /\ Get(p, StackRef(g.depth + 1)) = d
                           /\ \A r \in Refs(g) : Get(p, r) = Get(g, r)
  BY <1>1, PushTyped
<1>5. Kept(h, p, g.depth)
  BY <1>1, <1>3, KeptTrans
<1>6. CASE p.err = "none"
  <2>1. Read(p, d) = Read(g, d)
    BY <1>4 DEF Read
  <2>2. \A r \in RefsAt(g.depth) : Apart(d, Get(p, r))
    BY <1>1, <1>4, <1>6
  <2>3. Yielded(h, p, g.depth, Read(g, d))
    BY <1>3, <1>4, <1>5, <1>6, <2>1, <2>2 DEF Yielded
  <2> QED BY <1>6, <2>3 DEF Result
<1>7. CASE p.err # "none"
  <2>1. Kept(p, p, 0)
    BY KeptSelf
  <2>2. Kept(h, p, 0)
    BY <1>1, <1>5, <2>1, KeptTrans
  <2>3. p.err = "complex"
    BY <1>4, <1>7
  <2> QED BY <1>3, <2>2, <2>3 DEF Result, Failed
<1> QED BY <1>6, <1>7

\* LAB_229E in any heap.
LEMMA AppendTyped ==
  ASSUME NEW h \in Heaps, NEW ptr, NEW n \in Nat, NEW g, g = AppendBytes(h, ptr, n)
  PROVE  /\ g \in Heaps /\ g.earryl = h.earryl /\ g.sstorl = h.sstorl /\ g.vars = h.vars /\ g.slots = h.slots
         /\ g.depth = h.depth /\ g.exposed = h.exposed /\ g.need = h.need /\ g.err = h.err
         /\ h.err # "none" => g = h
         /\ h.err = "none" /\ n # 0 => g.utl = h.utl + n /\ g.mem = Copy(h.mem, ptr, h.utl, n)
         /\ n = 0 => g = h
<1>1. Copy(h.mem, ptr, h.utl, n) \in Mems /\ h.utl + n \in Int
  BY HeapFacts, CopyType
<1> DEFINE c == Copy(h.mem, ptr, h.utl, n)
           u == h.utl + n
<1>2. g = IF h.err # "none" \/ n = 0 THEN h ELSE [h EXCEPT !.mem = c, !.utl = u]
  BY DEF AppendBytes
<1> HIDE DEF c, u
<1> QED BY <1>1, <1>2 DEF Heaps, c, u

\* The text t has been written at utl of m, and some of m's operands were popped.
Holding(m, g, t) ==
  /\ g \in Heaps /\ g.earryl = m.earryl /\ g.sstorl = m.sstorl /\ g.vars = m.vars /\ g.slots = m.slots
  /\ g.err = m.err /\ g.exposed = m.exposed /\ g.need = m.need
  /\ g.depth \in 0..m.depth
  /\ t \in Seq(Chars)
  /\ \A a \in Int : a \notin m.utl..(m.utl + Len(t) - 1) => Byte(g.mem, a) = Byte(m.mem, a)
  /\ \A i \in 1..Len(t) : Byte(g.mem, m.utl + i - 1) = t[i]

\* The next byte goes behind it.
Building(m, g, t) == Holding(m, g, t) /\ g.utl = m.utl + Len(t)

\* Nothing has been built yet.
LEMMA BuildStart ==
  ASSUME NEW m \in Heaps
  PROVE  Building(m, m, <<>>)
<1>1. m.depth \in Nat /\ m.utl \in Int
  BY HeapFacts
<1>2. <<>> \in Seq(Chars) /\ Len(<<>>) = 0
  OBVIOUS
<1> QED BY <1>1, <1>2 DEF Building, Holding

\* Some bytes of the heap, as a string.
Bytes(h, ptr, n) == [i \in 1..n |-> Byte(h.mem, ptr + i - 1)]

\* The bytes at an address are characters, as many as asked for.
LEMMA BytesSeq ==
  ASSUME NEW h \in Heaps, NEW ptr, NEW n \in Nat
  PROVE  Bytes(h, ptr, n) \in Seq(Chars) /\ Len(Bytes(h, ptr, n)) = n
         /\ \A i \in 1..n : Bytes(h, ptr, n)[i] = Byte(h.mem, ptr + i - 1)
<1>1. \A i \in 1..n : Byte(h.mem, ptr + i - 1) \in Chars
  BY HeapFacts, ByteType
<1>2. Bytes(h, ptr, n) \in [1..n -> Chars]
  BY <1>1 DEF Bytes
<1>3. \A i \in 1..n : Bytes(h, ptr, n)[i] = Byte(h.mem, ptr + i - 1)
  BY DEF Bytes
<1> DEFINE S == Chars
           b == Bytes(h, ptr, n)
<1> HIDE DEF S, b
<1>4. b \in [1..n -> S] => b \in Seq(S) /\ Len(b) = n
  OBVIOUS
<1> QED BY <1>2, <1>3, <1>4 DEF S, b

\* Two texts, one after the other.
LEMMA ConcatSeq ==
  ASSUME NEW t \in Seq(Chars), NEW s \in Seq(Chars)
  PROVE  /\ t \o s \in Seq(Chars) /\ Len(t \o s) = Len(t) + Len(s) /\ Len(t) \in Nat /\ Len(s) \in Nat
         /\ \A i \in 1..(Len(t) + Len(s)) : (t \o s)[i] = IF i <= Len(t) THEN t[i] ELSE s[i - Len(t)]
         /\ Len(s) = 0 => t \o s = t
<1> DEFINE S == Chars
<1>1. t \in Seq(S) /\ s \in Seq(S)
  OBVIOUS
<1> HIDE DEF S
<1>2. /\ t \o s \in Seq(S) /\ Len(t \o s) = Len(t) + Len(s) /\ Len(t) \in Nat /\ Len(s) \in Nat
      /\ \A i \in 1..(Len(t) + Len(s)) : (t \o s)[i] = IF i <= Len(t) THEN t[i] ELSE s[i - Len(t)]
  BY <1>1
<1>3. Len(s) = 0 => s = <<>>
  BY <1>1
<1>4. t \o <<>> = t
  BY <1>1
<1> QED BY <1>2, <1>3, <1>4 DEF S

\* n bytes from ptr lie outside the room for size bytes.
Outside(m, ptr, n, size) == \A i \in 1..n : ptr + i - 1 \notin m.utl..(m.utl + size - 1)

\* Bytes from outside the space made are appended to what is built.
LEMMA BuildAppend ==
  ASSUME NEW m, Neat(m), m.err = "none", NEW size \in Nat, Room(m, size), NEW g, NEW t, Building(m, g, t),
         NEW ptr \in Int, NEW n \in Nat, Len(t) + n <= size, Outside(m, ptr, n, size),
         NEW b, b = AppendBytes(g, ptr, n)
  PROVE  Building(m, b, t \o Bytes(m, ptr, n))
<1>1. m \in Heaps /\ g \in Heaps /\ t \in Seq(Chars) /\ g.err = "none"
  BY DEF Neat, Building, Holding
<1>2. Bytes(m, ptr, n) \in Seq(Chars) /\ Len(Bytes(m, ptr, n)) = n
      /\ \A i \in 1..n : Bytes(m, ptr, n)[i] = Byte(m.mem, ptr + i - 1)
  BY <1>1, BytesSeq
<1> DEFINE s == Bytes(m, ptr, n)
           l == Len(t)
           w == t \o s
<1> HIDE DEF s
<1>3. /\ w \in Seq(Chars) /\ Len(w) = l + n /\ l \in Nat
      /\ \A i \in 1..(l + n) : w[i] = IF i <= l THEN t[i] ELSE s[i - l]
      /\ n = 0 => w = t
  BY <1>1, <1>2, ConcatSeq DEF s
<1> HIDE DEF w, l
<1>4. CASE n = 0
  <2>1. b = g
    BY <1>1, <1>4, AppendTyped
  <2> QED BY <1>3, <1>4, <2>1 DEF w, s
<1>5. CASE n # 0
  <2>1. /\ b \in Heaps /\ b.earryl = g.earryl /\ b.sstorl = g.sstorl /\ b.vars = g.vars /\ b.slots = g.slots
        /\ b.depth = g.depth /\ b.exposed = g.exposed /\ b.need = g.need /\ b.err = g.err
        /\ b.utl = g.utl + n /\ b.mem = Copy(g.mem, ptr, g.utl, n)
    BY <1>1, <1>5, AppendTyped
  <2>2. size # 0 /\ l + n <= size
    BY <1>3, <1>5 DEF l
  <2>3. m.utl \in Int /\ Even(size) \in Nat /\ Even(size) >= size /\ Ememl \in Int
        /\ m.utl + Even(size) <= Ememl /\ m.utl >= 1
    <3>1. m.utl \in Int /\ m.earryl \in Int /\ Ememl \in Int /\ Len(Text) \in Nat
      BY <1>1, HeapFacts, Constant
    <3>2. Even(size) \in Nat /\ Even(size) >= size
      BY EvenFacts
    <3>3. m.utl + Even(size) <= Ememl /\ m.earryl <= m.utl /\ Len(Text) + 2 <= m.earryl
      BY <2>2 DEF Room, Neat, Ordered
    <3> QED BY <3>1, <3>2, <3>3
  <2>4. g.utl = m.utl + l /\ g.mem \in Mems
    BY <1>1, HeapFacts DEF Building, Holding, l
  <2> DEFINE u == m.utl
  <2>5. u \in Int /\ u >= 1 /\ u + size <= Ememl
    BY <2>3
  <2> HIDE DEF u
  <2>6. ASSUME NEW a \in Int, a \notin u..(u + (l + n) - 1) PROVE Byte(b.mem, a) = Byte(m.mem, a)
    <3>1. a \notin (u + l)..(u + l + n - 1) /\ a \notin u..(u + l - 1)
      BY <1>3, <2>5, <2>6
    <3>2. Byte(g.mem, a) = Byte(m.mem, a)
      BY <3>1 DEF Building, Holding, u, l
    <3>3. Byte(Copy(g.mem, ptr, u + l, n), a) = Byte(g.mem, a)
      <4>1. u + l \in Int
        BY <1>3, <2>5
      <4> QED BY <2>4, <3>1, <4>1, CopyByte
    <3> QED BY <2>1, <2>4, <3>2, <3>3 DEF u
  <2>7. ASSUME NEW i \in 1..(l + n) PROVE Byte(b.mem, u + i - 1) = w[i]
    <3> DEFINE a == u + i - 1
    <3>0. i \in Int /\ 1 <= i /\ i <= l + n /\ a \in Int /\ u + l \in Int
      BY <1>3, <2>5
    <3>1. CASE i <= l
      <4>1. a \notin (u + l)..(u + l + n - 1) /\ i \in 1..l
        BY <1>3, <2>5, <3>0, <3>1
      <4>2. Byte(Copy(g.mem, ptr, u + l, n), a) = Byte(g.mem, a)
        BY <2>4, <3>0, <4>1, CopyByte
      <4>3. Byte(g.mem, a) = t[i]
        BY <4>1 DEF Building, Holding, u, l
      <4>4. w[i] = t[i]
        BY <1>3, <3>1
      <4> QED BY <2>1, <2>4, <4>2, <4>3, <4>4 DEF u
    <3>2. CASE ~(i <= l)
      <4> DEFINE j == i - l
      <4>1. j \in 1..n /\ a \in (u + l)..(u + l + n - 1) /\ a \in 1..(Ememl - 1) /\ ptr + a - (u + l) = ptr + j - 1
        <5>1. Ememl \in Int
          BY <2>3
        <5>2. j \in Int /\ 1 <= j /\ j <= n /\ a = u + l + j - 1 /\ a \in Int /\ u \in Int /\ l \in Int /\ l >= 0
          BY <1>3, <2>5, <3>0, <3>2
        <5>3. u >= 1 /\ u + l + n <= Ememl
          BY <1>3, <2>2, <2>5, <5>1
        <5> HIDE DEF a, j
        <5>4. a \in (u + l)..(u + l + n - 1)
          BY <5>2
        <5>5. 1 <= a /\ a <= Ememl - 1
          BY <5>1, <5>2, <5>3
        <5>6. ptr + a - (u + l) = ptr + j - 1
          BY <5>2
        <5> QED BY <5>1, <5>2, <5>4, <5>5, <5>6
      <4>2. w[i] = s[j]
        BY <1>3, <3>2
      <4> HIDE DEF a, j
      <4>3. Byte(Copy(g.mem, ptr, u + l, n), a) = Byte(g.mem, ptr + a - (u + l))
        BY <2>4, <3>0, <4>1, CopyByte
      <4>4. ptr + j - 1 \in Int /\ ptr + j - 1 \notin u..(u + l - 1)
        <5>1. ptr + j - 1 \notin u..(u + size - 1)
          BY <4>1 DEF Outside, u
        <5>2. ptr + j - 1 \in Int
          BY <4>1
        <5>3. u + l - 1 <= u + size - 1
          BY <1>3, <2>2, <2>5
        <5> HIDE DEF Building
        <5> QED BY <1>3, <2>5, <5>1, <5>2, <5>3
      <4>5. Byte(g.mem, ptr + j - 1) = Byte(m.mem, ptr + j - 1)
        BY <4>4 DEF Building, Holding, u, l
      <4>6. s[j] = Byte(m.mem, ptr + j - 1)
        BY <1>2, <4>1 DEF s
      <4> QED BY <2>1, <2>4, <4>1, <4>2, <4>3, <4>5, <4>6 DEF u, a
    <3> QED BY <3>1, <3>2
  <2>8. b.utl = u + (l + n)
    BY <1>3, <2>1, <2>4, <2>5 DEF u
  <2>9. Building(m, b, w)
    BY <1>3, <2>1, <2>6, <2>7, <2>8 DEF Building, Holding, u
  <2> QED BY <2>9 DEF w, s
<1> QED BY <1>4, <1>5

\* An operand is popped while a string is built; its bytes stay until the next allocation.
LEMMA BuildPop ==
  ASSUME NEW m, Neat(m), m.err = "none", NEW size \in Nat, Room(m, size), NEW g, NEW t, Building(m, g, t),
         NEW r \in Refs(g), size = 0 => Get(m, r).len = 0, NEW b, b = Pop(g, r)
  PROVE  Building(m, b, t) /\ b.depth = Popped(g.depth, r)
<1>1. m \in Heaps /\ g \in Heaps /\ g.err = "none" /\ g.depth \in 0..m.depth /\ m.depth \in 0..StackMax
  BY HeapFacts DEF Neat, Building, Holding
<1>2. /\ b \in Heaps /\ b.earryl = g.earryl /\ b.mem = g.mem /\ b.vars = g.vars /\ b.slots = g.slots
      /\ b.exposed = g.exposed /\ b.utl = g.utl /\ b.need = g.need /\ b.err = g.err
      /\ b.depth = Popped(g.depth, r)
      /\ \/ b.sstorl = g.sstorl
         \/ Get(g, r).ptr = g.sstorl /\ b.sstorl = g.sstorl + Even(Get(g, r).len)
  BY <1>1, PopTyped
<1>3. r \in RefsAt(g.depth) /\ r \in Refs(m) /\ g.depth \in 0..StackMax /\ m.depth \in Nat
  <2>1. m.depth \in Nat /\ g.depth \in Nat /\ g.depth <= m.depth /\ g.depth \in 0..StackMax
    BY <1>1, StackMaxIs
  <2> QED BY <2>1, RefsAtFacts
<1>4. Get(g, r) = Get(m, r) /\ g.sstorl = m.sstorl
  BY DEF Building, Holding, Get
<1>5. b.sstorl = m.sstorl
  <2> DEFINE d == Get(m, r)
  <2>1. d.ptr \in Int /\ d.len \in Nat /\ (d.len = 0 => Even(d.len) = 0)
    BY <1>1, <1>3, RefFacts, EvenFacts
  <2>2. m.sstorl \in Int /\ m.earryl \in Int /\ Len(Text) \in Int /\ Len(Text) + 2 <= m.earryl /\ m.earryl <= m.sstorl
    BY <1>1, HeapFacts, Constant DEF Neat, Ordered
  <2>3. ASSUME d.len > 0, d.ptr = m.sstorl PROVE FALSE
    <3>1. size # 0 /\ size > 0
      BY <2>1, <2>3
    <3>2. InText(d) \/ m.utl + Even(size) <= d.ptr
      BY <1>3, <2>3, <3>1 DEF Room
    <3>3. m.utl = m.sstorl /\ Even(size) \in Nat /\ Even(size) > 0
      BY <3>1, EvenFacts DEF Room
    <3>4. ~InText(d)
      BY <2>1, <2>2, <2>3 DEF InText
    <3> HIDE DEF d
    <3> QED BY <2>1, <2>2, <2>3, <3>2, <3>3, <3>4
  <2>4. d.len = 0 \/ d.ptr # m.sstorl
    BY <2>1, <2>3
  <2> HIDE DEF d
  <2> QED BY <1>2, <1>4, <2>1, <2>2, <2>4 DEF d
<1>6. b.depth \in 0..m.depth
  <2>1. Popped(g.depth, r) \in 0..g.depth
    BY <1>3, PoppedFacts
  <2> QED BY <1>1, <1>2, <1>3, <2>1
<1> QED BY <1>2, <1>4, <1>5, <1>6 DEF Building, Holding

\* The bytes of a string in use are outside the room.
LEMMA RefOutside ==
  ASSUME NEW m, Neat(m), NEW size \in Nat, Room(m, size), size # 0, NEW r \in Refs(m)
  PROVE  Outside(m, Get(m, r).ptr, Get(m, r).len, size)
<1> DEFINE d == Get(m, r)
           u == m.utl
<1>1. m \in Heaps
  BY DEF Neat
<1>2. d.ptr \in Int /\ d.len \in Nat /\ u \in Int /\ m.earryl \in Int /\ Len(Text) \in Int
      /\ Even(size) \in Nat /\ Even(size) >= size
  <2>1. d.ptr \in Int /\ d.len \in Nat
    BY <1>1, RefFacts
  <2>2. u \in Int /\ m.earryl \in Int /\ Len(Text) \in Int
    BY <1>1, HeapFacts, Constant
  <2> QED BY <2>1, <2>2, EvenFacts
<1>3. Len(Text) + 2 <= m.earryl /\ m.earryl <= u
  BY DEF Neat, Ordered, Room
<1>4. d.len > 0 => InText(d) \/ u + Even(size) <= d.ptr
  BY DEF Room
<1> SUFFICES ASSUME NEW i \in 1..d.len PROVE d.ptr + i - 1 \notin u..(u + size - 1)
  BY DEF Outside
<1> HIDE DEF d, u
<1>5. i \in Int /\ 1 <= i /\ i <= d.len /\ d.len > 0
  BY <1>2
<1>6. ASSUME InText(d) PROVE d.ptr + i - 1 < u
  <2>1. d.ptr + d.len <= Len(Text) + 1
    BY <1>6 DEF InText
  <2> QED BY <1>2, <1>3, <1>5, <2>1
<1>7. ASSUME u + Even(size) <= d.ptr PROVE d.ptr + i - 1 > u + size - 1
  BY <1>2, <1>5, <1>7
<1> QED BY <1>2, <1>4, <1>5, <1>6, <1>7

\* Nothing else is disturbed by what is written into the room.
LEMMA HoldingIs ==
  ASSUME NEW m, Neat(m), NEW size \in Nat, Room(m, size), NEW g, NEW t, Holding(m, g, t), Len(t) = size
  PROVE  Neat(g) /\ Kept(m, g, g.depth)
<1>1. m \in Heaps /\ g \in Heaps /\ g.depth \in Nat /\ m.depth \in Nat /\ g.depth <= m.depth
  <2>1. m \in Heaps /\ g \in Heaps /\ g.depth \in 0..m.depth
    BY DEF Neat, Holding
  <2> QED BY <2>1, HeapFacts
<1>2. Refs(g) \subseteq Refs(m) /\ Refs(g) = RefsAt(g.depth)
  BY <1>1, RefsAtFacts
<1>3. \A r : Get(g, r) = Get(m, r)
  BY DEF Holding, Get
<1>4. ASSUME NEW a \in Int, size = 0 \/ a \notin m.utl..(m.utl + size - 1) PROVE Byte(g.mem, a) = Byte(m.mem, a)
  <2>1. m.utl \in Int
    BY <1>1, HeapFacts
  <2>2. a \notin m.utl..(m.utl + size - 1)
    BY <1>4, <2>1
  <2> QED BY <2>2 DEF Holding
<1>5. ASSUME NEW r \in Refs(m) PROVE Read(g, Get(m, r)) = Read(m, Get(m, r))
  <2> DEFINE d == Get(m, r)
  <2>1. d.ptr \in Int /\ d.len \in Nat
    BY <1>1, RefFacts
  <2>2. size # 0 => Outside(m, d.ptr, d.len, size)
    BY RefOutside
  <2> HIDE DEF d
  <2>3. \A i \in 1..d.len : Byte(g.mem, d.ptr + i - 1) = Byte(m.mem, d.ptr + i - 1)
    <3> SUFFICES ASSUME NEW i \in 1..d.len PROVE Byte(g.mem, d.ptr + i - 1) = Byte(m.mem, d.ptr + i - 1)
      OBVIOUS
    <3>1. d.ptr + i - 1 \in Int
      BY <2>1
    <3>2. size = 0 \/ d.ptr + i - 1 \notin m.utl..(m.utl + size - 1)
      BY <2>2 DEF Outside
    <3> QED BY <1>4, <3>1, <3>2
  <2> QED BY <2>3, ReadSame DEF d
<1>6. TextKept(g)
  <2> SUFFICES ASSUME NEW a \in 1..Len(Text) PROVE g.mem[a] = Text[a]
    BY DEF TextKept
  <2>1. Len(Text) \in Nat /\ Ememl \in Int /\ Len(Text) + 2 <= Ememl /\ m.utl \in Int /\ m.earryl \in Int
    BY <1>1, Constant, HeapFacts
  <2>2. size = 0 \/ a < m.utl
    <3>1. size # 0 => m.earryl <= m.utl /\ Len(Text) + 2 <= m.earryl
      BY DEF Room, Neat, Ordered
    <3> QED BY <2>1, <3>1
  <2>3. Byte(g.mem, a) = Byte(m.mem, a)
    BY <1>4, <2>1, <2>2
  <2>4. a \in DOMAIN g.mem /\ a \in DOMAIN m.mem
    <3>1. DOMAIN g.mem = 1..(Ememl - 1) /\ DOMAIN m.mem = 1..(Ememl - 1)
      BY <1>1, HeapFacts DEF Mems
    <3> QED BY <2>1, <3>1
  <2>5. g.mem[a] = m.mem[a]
    BY <2>3, <2>4 DEF Byte
  <2> QED BY <2>5 DEF Neat, TextKept
<1>7. g.earryl = m.earryl /\ g.sstorl = m.sstorl
  BY DEF Holding
<1>8. Neat(g)
  BY <1>1, <1>2, <1>3, <1>6, <1>7 DEF Neat, Ordered, Placed
<1>9. Kept(m, g, g.depth)
  BY <1>2, <1>3, <1>5, KeptSame
<1> QED BY <1>8, <1>9

\* The string in the room becomes an operand.
LEMMA HoldingYield ==
  ASSUME NEW h \in Heaps, NEW m, Neat(m), m.err = "none", m.depth = h.depth, Kept(h, m, h.depth),
         NEW size \in Nat, Room(m, size),
         NEW g, NEW t, Holding(m, g, t), Len(t) = size,
         NEW d \in Descs, d.len = size, size # 0 => d.ptr = m.utl, NEW p, p = Push(g, d)
  PROVE  Result(h, p, g.depth, t) /\ p.err \in {"none", "complex"}
<1>1. m \in Heaps /\ g \in Heaps /\ g.depth \in Nat /\ m.depth \in Nat /\ g.depth <= m.depth /\ g.err = "none" /\ t \in Seq(Chars)
  <2>1. m \in Heaps /\ g \in Heaps /\ g.depth \in 0..m.depth /\ g.err = "none" /\ t \in Seq(Chars)
    BY DEF Neat, Holding
  <2> QED BY <2>1, HeapFacts
<1>2. Neat(g) /\ Kept(m, g, g.depth)
  BY HoldingIs
<1>3. Kept(h, g, g.depth)
  BY <1>1, <1>2, KeptTrans
<1>4. Refs(g) \subseteq Refs(m) /\ Refs(g) = RefsAt(g.depth)
  BY <1>1, RefsAtFacts
<1>5. \A r : Get(g, r) = Get(m, r)
  BY DEF Holding, Get
<1>6. Placed(g, d)
  <2>1. d.ptr \in Int /\ g.sstorl = m.sstorl
    BY DEF Descs, Holding
  <2>2. ASSUME d.len > 0 PROVE g.sstorl <= d.ptr /\ d.ptr + Even(d.len) <= Ememl
    <3>1. size # 0
      BY <2>2
    <3>2. m.utl = m.sstorl /\ m.utl + Even(size) <= Ememl /\ d.ptr = m.utl
      BY <3>1 DEF Room
    <3> QED BY <2>1, <3>2
  <2> QED BY <2>2 DEF Placed
<1>7. ASSUME NEW r \in RefsAt(g.depth) PROVE Apart(d, Get(g, r))
  <2> DEFINE e == Get(m, r)
  <2>1. e.ptr \in Int /\ e.len \in Nat
    BY <1>1, <1>4, RefFacts
  <2>2. size # 0 /\ e.len > 0 => InText(e) \/ m.utl + Even(size) <= e.ptr
    BY <1>4 DEF Room
  <2> HIDE DEF e
  <2>3. Apart(d, e)
    BY <2>1, <2>2 DEF Apart, Below
  <2> QED BY <1>5, <2>3 DEF e
<1>8. Read(g, d) = t
  <2>1. Read(g, d) = [i \in 1..size |-> Byte(g.mem, d.ptr + i - 1)]
    BY DEF Read
  <2>2. \A i \in 1..size : Byte(g.mem, d.ptr + i - 1) = t[i]
    <3>1. \A i \in 1..size : size # 0
      OBVIOUS
    <3> QED BY <3>1 DEF Holding
  <2>3. t = [i \in 1..size |-> t[i]]
    BY <1>1
  <2> QED BY <2>1, <2>2, <2>3
<1> QED BY <1>1, <1>2, <1>3, <1>6, <1>7, <1>8, YieldPush

-----------------------------------------------------------------------------
(* The routines that return a string.                                      *)

\* A routine from h has left heap g, with its result above k descriptors.
Typed(h, g, k) ==
  /\ g \in Heaps /\ g.earryl = h.earryl /\ (h.exposed => g.exposed)
  /\ g.err = "none" => g.depth = k + 1

\* The parts of a text.
LEMMA CharSeq ==
  ASSUME NEW s \in Seq(Chars)
  PROVE  Len(s) \in Nat /\ DOMAIN s = 1..Len(s) /\ (\A i \in 1..Len(s) : s[i] \in Chars) /\ s = [i \in 1..Len(s) |-> s[i]]
<1> DEFINE S == Chars
<1>1. s \in Seq(S)
  OBVIOUS
<1> HIDE DEF S
<1>2. Len(s) \in Nat /\ DOMAIN s = 1..Len(s) /\ (\A i \in 1..Len(s) : s[i] \in S) /\ s = [i \in 1..Len(s) |-> s[i]]
  BY <1>1
<1> QED BY <1>2 DEF S

\* The bytes of s in the room, before the push.
Filling(h, s) ==
  [h EXCEPT !.mem = [a \in DOMAIN @ |->
      IF h.err = "none" /\ a \in h.utl..(h.utl + Len(s) - 1) THEN s[a - h.utl + 1] ELSE @[a]]]

\* Writing into the space made changes bytes alone.
LEMMA FillingTyped ==
  ASSUME NEW h \in Heaps, NEW s \in Seq(Chars), NEW f, f = Filling(h, s)
  PROVE  /\ f \in Heaps /\ f.earryl = h.earryl /\ f.sstorl = h.sstorl /\ f.vars = h.vars /\ f.slots = h.slots
         /\ f.depth = h.depth /\ f.utl = h.utl /\ f.need = h.need /\ f.err = h.err /\ f.exposed = h.exposed
         /\ h.err # "none" => f = h
         /\ h.err = "none" => f.mem = [a \in 1..(Ememl - 1) |->
               IF a \in h.utl..(h.utl + Len(s) - 1) THEN s[a - h.utl + 1] ELSE h.mem[a]]
<1> DEFINE m == [a \in DOMAIN h.mem |->
      IF h.err = "none" /\ a \in h.utl..(h.utl + Len(s) - 1) THEN s[a - h.utl + 1] ELSE h.mem[a]]
<1>1. h.mem \in Mems /\ DOMAIN h.mem = 1..(Ememl - 1) /\ h.utl \in Int /\ Ememl \in Int
  BY HeapFacts, Constant DEF Mems
<1>2. m \in Mems
  <2>1. ASSUME NEW a \in 1..(Ememl - 1), a \in h.utl..(h.utl + Len(s) - 1) PROVE s[a - h.utl + 1] \in Chars
    <3>1. Len(s) \in Nat
      BY CharSeq
    <3>2. a - h.utl + 1 \in 1..Len(s)
      BY <1>1, <2>1, <3>1
    <3> QED BY <3>2, CharSeq
  <2> QED BY <1>1, <2>1 DEF Mems
<1>3. f = [h EXCEPT !.mem = m]
  BY DEF Filling
<1>4. h.err # "none" => m = h.mem
  BY <1>1 DEF Mems
<1>5. h.err = "none" => m = [a \in 1..(Ememl - 1) |->
               IF a \in h.utl..(h.utl + Len(s) - 1) THEN s[a - h.utl + 1] ELSE h.mem[a]]
  BY <1>1
<1> HIDE DEF m
<1> QED BY <1>2, <1>3, <1>4, <1>5 DEF Heaps

\* The bytes of a text written into the space made for it, and pushed.
LEMMA WrittenIs ==
  ASSUME NEW h \in Heaps, NEW m \in Heaps, NEW s \in Seq(Chars), NEW g, g = Written(m, s),
         m.earryl = h.earryl, m.depth = h.depth, h.exposed => m.exposed
  PROVE  /\ Typed(h, g, h.depth) /\ (m.exposed => g.exposed) /\ g.err \in {m.err, "complex"}
         /\ m.err # "none" => g = m
         /\ m.err = "none" /\ Neat(m) /\ Kept(h, m, h.depth) /\ Room(m, Len(s)) => Result(h, g, h.depth, s)
<1> DEFINE f == Filling(m, s)
           d == [ptr |-> m.utl, len |-> Len(s)]
<1>1. d \in Descs /\ d.ptr = m.utl /\ d.len = Len(s) /\ Len(s) \in Nat
  BY CharSeq, HeapFacts DEF Descs
<1>2. g = Push(f, d)
  BY DEF Written, Filling
<1>3. /\ f \in Heaps /\ f.earryl = m.earryl /\ f.sstorl = m.sstorl /\ f.vars = m.vars /\ f.slots = m.slots
      /\ f.depth = m.depth /\ f.utl = m.utl /\ f.need = m.need /\ f.err = m.err /\ f.exposed = m.exposed
      /\ m.err # "none" => f = m
      /\ m.err = "none" => f.mem = [a \in 1..(Ememl - 1) |->
            IF a \in m.utl..(m.utl + Len(s) - 1) THEN s[a - m.utl + 1] ELSE m.mem[a]]
  BY FillingTyped
<1> HIDE DEF f, d
<1>4. /\ g \in Heaps /\ g.earryl = f.earryl /\ g.exposed = f.exposed
      /\ g.err \in {f.err, "complex"}
      /\ f.err # "none" => g = f
      /\ g.err = "none" => g.depth = f.depth + 1
  BY <1>1, <1>2, <1>3, PushTyped
<1>5. ASSUME m.err = "none", Neat(m), Kept(h, m, h.depth), Room(m, Len(s)) PROVE Result(h, g, h.depth, s)
  <2>1. Holding(m, f, s)
    <3> DEFINE n == Len(s)
               u == m.utl
    <3>1. n \in Nat /\ u \in Int /\ m.depth \in Nat /\ Ememl \in Int
      BY <1>1, HeapFacts, Constant
    <3>2. DOMAIN m.mem = 1..(Ememl - 1) /\ DOMAIN f.mem = 1..(Ememl - 1)
          /\ \A a \in 1..(Ememl - 1) : f.mem[a] = IF a \in u..(u + n - 1) THEN s[a - u + 1] ELSE m.mem[a]
      BY <1>3, <1>5, HeapFacts DEF Mems
    <3> HIDE DEF n, u
    <3>3. ASSUME NEW a \in Int, a \notin u..(u + n - 1) PROVE Byte(f.mem, a) = Byte(m.mem, a)
      BY <3>2, <3>3 DEF Byte
    <3>4. ASSUME NEW i \in 1..n PROVE Byte(f.mem, u + i - 1) = s[i]
      <4>1. n # 0
        BY <3>1
      <4>2. u + Even(n) <= Ememl /\ u >= 1
        <5>1. m.earryl \in Int /\ Len(Text) \in Nat
          BY HeapFacts, Constant
        <5>2. u + Even(n) <= Ememl /\ m.earryl <= u /\ Len(Text) + 2 <= m.earryl
          BY <1>5, <4>1 DEF Room, Neat, Ordered, n, u
        <5> QED BY <3>1, <5>1, <5>2
      <4>3. Even(n) \in Nat /\ Even(n) >= n
        BY <3>1, EvenFacts
      <4>4. u + i - 1 \in u..(u + n - 1) /\ u + i - 1 <= Ememl - 1 /\ u + i - 1 >= 1
        BY <3>1, <4>2, <4>3
      <4>5. (u + i - 1) - u + 1 = i
        BY <3>1
      <4> QED BY <3>1, <3>2, <4>4, <4>5 DEF Byte
    <3> QED BY <1>3, <3>1, <3>3, <3>4 DEF Holding, n, u
  <2>2. Result(h, g, f.depth, s)
    BY <1>1, <1>2, <1>5, <2>1, HoldingYield
  <2> QED BY <1>3, <2>2
<1>6. Typed(h, g, h.depth) /\ (m.exposed => g.exposed)
  BY <1>3, <1>4 DEF Typed
<1> QED BY <1>3, <1>4, <1>5, <1>6

\* A failed allocation.
LEMMA FailedMake ==
  ASSUME NEW h \in Heaps, NEW g, Neat(g), Kept(h, g, h.depth), g.err # "none", g.err = "memory" => Short(g), NEW k, NEW t
  PROVE  Result(h, g, k, t)
<1>1. h.depth \in Nat /\ 0 <= h.depth
  BY HeapFacts
<1>2. Kept(g, g, 0)
  BY KeptSelf
<1>3. Kept(h, g, 0)
  BY <1>1, <1>2, KeptTrans
<1> QED BY <1>3 DEF Result, Failed

\* LAB_2115 for a caller that holds no address.
LEMMA MakeFresh ==
  ASSUME NEW h \in Heaps
  PROVE  \A n \in Nat : /\ Make(h, n, 0) \in Heaps /\ Make(h, n, 0).depth = h.depth /\ Make(h, n, 0).earryl = h.earryl
                        /\ (h.exposed => Make(h, n, 0).exposed)
                        /\ Make(h, n, 0).err \in {h.err, "memory", "wild"}
<1> SUFFICES ASSUME NEW n \in Nat
             PROVE  /\ Make(h, n, 0) \in Heaps /\ Make(h, n, 0).depth = h.depth /\ Make(h, n, 0).earryl = h.earryl
                    /\ (h.exposed => Make(h, n, 0).exposed)
                    /\ Make(h, n, 0).err \in {h.err, "memory", "wild"}
  OBVIOUS
<1> QED BY MakeTyped

\* CHR$ and its like.
LEMMA NewStringIs ==
  ASSUME NEW h \in Heaps, h.err = "none", NEW s \in Seq(Chars), NEW g, g = Written(Make(h, Len(s), 0), s)
  PROVE  /\ Typed(h, g, h.depth)
         /\ Neat(h) /\ ~g.exposed /\ g.err # "wild" => Result(h, g, h.depth, s)
<1> DEFINE n == Len(s)
           m == Make(h, n, 0)
<1>1. n \in Nat
  BY CharSeq
<1>2. /\ m \in Heaps /\ m.depth = h.depth /\ m.earryl = h.earryl /\ (h.exposed => m.exposed)
      /\ m.err \in {h.err, "memory", "wild"}
  BY <1>1, MakeFresh, Zenon
<1> HIDE DEF m
<1>3. /\ Typed(h, g, h.depth) /\ (m.exposed => g.exposed) /\ g.err \in {m.err, "complex"}
      /\ m.err # "none" => g = m
      /\ m.err = "none" /\ Neat(m) /\ Kept(h, m, h.depth) /\ Room(m, n) => Result(h, g, h.depth, s)
  BY <1>2, WrittenIs DEF m
<1>4. ASSUME Neat(h), ~g.exposed, g.err # "wild" PROVE Result(h, g, h.depth, s)
  <2>1. ~m.exposed /\ m.err # "wild"
    BY <1>2, <1>3, <1>4
  <2>2. /\ Neat(m) /\ Kept(h, m, h.depth)
        /\ \/ m.err = "none" /\ Room(m, n)
           \/ m.err = "memory" /\ Short(m)
    BY <1>1, <1>4, <2>1, MakeIs DEF m
  <2>3. CASE m.err = "none" /\ Room(m, n)
    BY <1>3, <2>2, <2>3
  <2>4. CASE m.err = "memory" /\ Short(m)
    <3>1. g = m
      BY <1>3, <2>4
    <3> QED BY <2>2, <2>4, <3>1, FailedMake
  <2> QED BY <2>2, <2>3, <2>4
<1> QED BY <1>3, <1>4

\* LAB_20C9, for a string that lies in string space.
LEMMA CopyInIs ==
  ASSUME NEW h \in Heaps, h.err = "none", NEW ptr \in Int, NEW n \in Nat, NEW g, g = CopyIn(h, ptr, n)
  PROVE  /\ Typed(h, g, h.depth)
         /\ Neat(h) /\ ~g.exposed /\ g.err # "wild" /\ ptr >= h.earryl => Result(h, g, h.depth, Bytes(h, ptr, n))
<1>1. CASE n = 0
  <2>1. Null \in Descs /\ Null.len = 0
    BY DEF Null, Descs
  <2>2. g = Push(h, Null)
    BY <1>1 DEF CopyIn
  <2>3. Typed(h, g, h.depth)
    <3>1. /\ g \in Heaps /\ g.earryl = h.earryl /\ g.exposed = h.exposed
          /\ g.err = "none" => g.depth = h.depth + 1
      BY <2>1, <2>2, PushTyped
    <3> QED BY <3>1 DEF Typed
  <2>4. Bytes(h, ptr, n) = Read(h, Null)
    BY <1>1, <2>1 DEF Bytes, Read
  <2>5. ASSUME Neat(h) PROVE Result(h, g, h.depth, Read(h, Null))
    <3>1. Placed(h, Null) /\ \A r \in RefsAt(h.depth) : Apart(Null, Get(h, r))
      BY <2>1 DEF Placed, Apart
    <3>2. Kept(h, h, h.depth)
      BY KeptSelf
    <3> QED BY <2>1, <2>2, <2>5, <3>1, <3>2, YieldPush
  <2> QED BY <2>3, <2>4, <2>5
<1>2. CASE n # 0
  <2> DEFINE m == Make(h, n, ptr)
             s == Bytes(m, ptr, n)
  <2>1. g = Written(m, s)
    BY <1>2 DEF CopyIn, Filled, Bytes
  <2>2. /\ m \in Heaps /\ m.depth = h.depth /\ m.earryl = h.earryl /\ (h.exposed => m.exposed)
        /\ m.err \in {h.err, "memory", "wild"}
    BY MakeTyped
  <2>3. s \in Seq(Chars) /\ Len(s) = n
    BY <2>2, BytesSeq
  <2> HIDE DEF m, s
  <2>4. /\ Typed(h, g, h.depth) /\ (m.exposed => g.exposed) /\ g.err \in {m.err, "complex"}
        /\ m.err # "none" => g = m
        /\ m.err = "none" /\ Neat(m) /\ Kept(h, m, h.depth) /\ Room(m, Len(s)) => Result(h, g, h.depth, s)
    BY <2>1, <2>2, <2>3, WrittenIs
  <2>5. ASSUME Neat(h), ~g.exposed, g.err # "wild", ptr >= h.earryl PROVE Result(h, g, h.depth, Bytes(h, ptr, n))
    <3>1. ~m.exposed /\ m.err # "wild"
      BY <2>2, <2>4, <2>5
    <3>2. /\ Neat(m) /\ Kept(h, m, h.depth)
          /\ \/ m.err = "none" /\ Room(m, n)
             \/ m.err = "memory" /\ Short(m)
          /\ m.err = "none" => m.mem = h.mem
      BY <2>5, <3>1, MakeIs DEF m
    <3>3. CASE m.err = "none" /\ Room(m, n)
      <4>1. s = Bytes(h, ptr, n)
        BY <3>2, <3>3 DEF s, Bytes
      <4>2. Result(h, g, h.depth, s)
        BY <2>3, <2>4, <3>2, <3>3
      <4> QED BY <4>1, <4>2
    <3>4. CASE m.err = "memory" /\ Short(m)
      <4>1. g = m
        BY <2>4, <3>4
      <4> QED BY <3>2, <3>4, <4>1, FailedMake
    <3> QED BY <3>2, <3>3, <3>4
  <2> QED BY <2>4, <2>5
<1> QED BY <1>1, <1>2

\* No other string shares its bytes with that of a stacked operand r.
Solid(h, r) == r \in OnStack => \A q \in Refs(h) : q # r => Apart(Get(h, r), Get(h, q))

\* The top operand shares no bytes.
LEMMA SolidTop ==
  ASSUME NEW h \in Heaps, NEW r \in Refs(h), Solid(h, r), r = Top(h)
  PROVE  \A q \in Refs(h) : q # r => Apart(Get(h, r), Get(h, q))
<1>1. h.depth \in 0..StackMax /\ r \in RefsAt(h.depth) /\ r = StackRef(h.depth)
  BY HeapFacts, RefsAtFacts DEF Top
<1>2. h.depth \in 1..h.depth
  BY <1>1, RefsAtFacts
<1>3. h.depth \in 1..StackMax
  BY <1>1, <1>2, StackMaxIs
<1> QED BY <1>1, <1>3 DEF Solid, OnStack

\* An operand whose bytes are its own stays so.
LEMMA KeptSolid ==
  ASSUME NEW h, NEW m, Kept(h, m, h.depth), m.depth = h.depth, NEW r \in Refs(h), Solid(h, r)
  PROVE  Solid(m, r)
<1>1. Refs(m) = RefsAt(h.depth) /\ Refs(h) = RefsAt(h.depth)
  BY RefsAtFacts
<1> HIDE DEF RefsAt
<1> QED BY <1>1 DEF Solid, Kept

\* A result of the heap a routine left is one of the heap it was given.
LEMMA ResultTrans ==
  ASSUME NEW h, NEW p, NEW k \in Nat, Kept(h, p, k), NEW g, NEW t, Result(p, g, k, t)
  PROVE  Result(h, g, k, t)
<1>1. 0 \in Nat /\ 0 <= k /\ k <= k
  OBVIOUS
<1>2. Kept(p, g, k) => Kept(h, g, k)
  BY <1>1, KeptTrans
<1>3. Kept(p, g, 0) => Kept(h, g, 0)
  BY <1>1, KeptTrans
<1> QED BY <1>2, <1>3 DEF Result, Yielded, Failed

\* LAB_LCASE
LEMMA LowerCaseIs ==
  ASSUME NEW h \in Heaps, h.err = "none", NEW r \in Refs(h), NEW g, g = LowerCase(h, r)
  PROVE  /\ Typed(h, g, Popped(h.depth, r))
         /\ Neat(h) /\ Solid(h, r) /\ ~g.exposed /\ g.err # "wild" =>
              Result(h, g, Popped(h.depth, r),
                     [i \in 1..Get(h, r).len |-> Lower(Read(h, Get(h, r))[i])])
<1> DEFINE d == Get(h, r)
           p == Pop(h, r)
           k == Popped(h.depth, r)
           t == [i \in 1..d.len |-> Lower(Read(h, d)[i])]
<1>1. d \in Descs /\ d.ptr \in Int /\ d.len \in Nat
  BY RefFacts
<1>2. /\ p \in Heaps /\ p.earryl = h.earryl /\ p.mem = h.mem /\ p.exposed = h.exposed /\ p.err = "none"
      /\ p.depth = k
  BY PopTyped
<1>3. Neat(h) /\ Solid(h, r) => Neat(p) /\ Kept(h, p, k) /\ \A q : Get(p, q) = Get(h, q)
  BY <1>2, SolidTop, PopIs
<1>4. k \in Nat /\ p.depth \in Nat
  BY <1>2, HeapFacts
<1>5. g = IF d.len = 0 THEN Push(p, d)
          ELSE Written(Make(p, d.len, d.ptr), [i \in 1..d.len |-> Lower(Byte(Make(p, d.len, d.ptr).mem, d.ptr + i - 1))])
  BY DEF LowerCase
<1>6. Read(h, d) = [i \in 1..d.len |-> Byte(h.mem, d.ptr + i - 1)]
  BY DEF Read
<1>7. t = [i \in 1..d.len |-> Lower(Byte(h.mem, d.ptr + i - 1))]
  BY <1>6
<1>8. Neat(h) => Placed(h, d)
  BY DEF Neat
<1> SUFFICES /\ Typed(h, g, k)
             /\ Neat(h) /\ Solid(h, r) /\ ~g.exposed /\ g.err # "wild" => Result(h, g, k, t)
  OBVIOUS
<1> HIDE DEF d, p, k, t
<1>9. CASE d.len = 0
  <2>1. g = Push(p, d)
    BY <1>5, <1>9
  <2>2. Typed(h, g, k)
    <3>1. /\ g \in Heaps /\ g.earryl = p.earryl /\ g.exposed = p.exposed
          /\ g.err = "none" => g.depth = p.depth + 1
      BY <1>1, <1>2, <2>1, PushTyped
    <3> QED BY <1>2, <3>1 DEF Typed
  <2>3. ASSUME Neat(h), Solid(h, r) PROVE Result(h, g, k, t)
    <3>1. Placed(p, d) /\ \A q \in RefsAt(p.depth) : Apart(d, Get(p, q))
      BY <1>1, <1>9 DEF Placed, Apart
    <3>2. Result(h, g, p.depth, Read(p, d))
      BY <1>1, <1>2, <1>3, <2>1, <2>3, <3>1, YieldPush
    <3>3. Read(p, d) = t
      BY <1>7, <1>9 DEF Read
    <3> QED BY <1>2, <3>2, <3>3
  <2> QED BY <2>2, <2>3
<1>10. CASE d.len # 0
  <2> DEFINE n == d.len
             a == d.ptr
             m == Make(p, n, a)
             s == [i \in 1..n |-> Lower(Byte(m.mem, a + i - 1))]
  <2>0. n \in Nat /\ a \in Int /\ n # 0
    BY <1>1, <1>10
  <2>1. g = Written(m, s)
    BY <1>5, <1>10
  <2>2. /\ m \in Heaps /\ m.depth = p.depth /\ m.earryl = p.earryl /\ (p.exposed => m.exposed)
        /\ m.err \in {p.err, "memory", "wild"}
    <3> HIDE DEF n, a
    <3> QED BY <1>2, <2>0, MakeTyped
  <2> HIDE DEF m, n, a
  <2>3. s \in Seq(Chars) /\ Len(s) = n
    <3>1. \A i \in 1..n : Lower(Byte(m.mem, a + i - 1)) \in Chars
      BY <2>2, HeapFacts, ByteType, LowerType
    <3>2. s \in [1..n -> Chars]
      BY <3>1
    <3> DEFINE S == Chars
    <3> HIDE DEF S, s
    <3>3. s \in [1..n -> S] => s \in Seq(S) /\ Len(s) = n
      BY <2>0
    <3> QED BY <3>2, <3>3 DEF S
  <2> HIDE DEF s
  <2>4. /\ Typed(p, g, p.depth) /\ (m.exposed => g.exposed) /\ g.err \in {m.err, "complex"}
        /\ m.err # "none" => g = m
        /\ m.err = "none" /\ Neat(m) /\ Kept(p, m, p.depth) /\ Room(m, Len(s)) => Result(p, g, p.depth, s)
    BY <1>2, <2>1, <2>2, <2>3, WrittenIs
  <2>5. Typed(h, g, k)
    BY <1>2, <2>4 DEF Typed
  <2>6. ASSUME Neat(h), Solid(h, r), ~g.exposed, g.err # "wild" PROVE Result(h, g, k, t)
    <3>1. ~m.exposed /\ m.err # "wild"
      BY <1>2, <2>2, <2>4, <2>6
    <3>2. Neat(p) /\ Kept(h, p, k)
      BY <1>3, <2>6
    <3>3. /\ Neat(m) /\ Kept(p, m, p.depth)
          /\ \/ m.err = "none" /\ Room(m, n)
             \/ m.err = "memory" /\ Short(m)
          /\ m.err = "none" /\ a >= p.earryl => m.mem = p.mem
      BY <1>2, <2>0, <3>1, <3>2, MakeIs DEF m
    <3>4. CASE m.err = "none" /\ Room(m, n)
      <4>1. Result(p, g, k, s)
        BY <1>2, <2>3, <2>4, <3>3, <3>4
      <4>2. s = t
        <5>1. \A i \in 1..n : Byte(m.mem, a + i - 1) = Byte(h.mem, a + i - 1)
          <6>1. CASE a >= p.earryl
            BY <1>2, <3>3, <3>4, <6>1
          <6>2. CASE ~(a >= p.earryl)
            <7>1. p.earryl \in Int /\ h.sstorl \in Int /\ Len(Text) \in Nat /\ Ememl \in Int
              BY <1>2, HeapFacts, Constant
            <7>2. h.earryl <= h.sstorl /\ Len(Text) + 2 <= Ememl
              BY <2>6, Constant DEF Neat, Ordered
            <7>3. InText(d)
              BY <1>2, <1>8, <2>0, <2>6, <6>2, <7>1, <7>2 DEF Placed, n, a
            <7>4. a >= 1 /\ a + n <= Len(Text) + 1
              BY <7>3 DEF InText, a, n
            <7> SUFFICES ASSUME NEW i \in 1..n PROVE Byte(m.mem, a + i - 1) = Byte(h.mem, a + i - 1)
              OBVIOUS
            <7>5. a + i - 1 \in 1..Len(Text)
              BY <2>0, <7>1, <7>4
            <7>6. m.mem[a + i - 1] = Text[a + i - 1] /\ h.mem[a + i - 1] = Text[a + i - 1]
              BY <2>6, <3>3, <7>5 DEF Neat, TextKept
            <7>7. DOMAIN m.mem = 1..(Ememl - 1) /\ DOMAIN h.mem = 1..(Ememl - 1)
              BY <2>2, HeapFacts DEF Mems
            <7>8. a + i - 1 \in 1..(Ememl - 1)
              BY <7>1, <7>2, <7>5
            <7> QED BY <7>6, <7>7, <7>8 DEF Byte
          <6> QED BY <6>1, <6>2
        <5> QED BY <1>7, <5>1 DEF s, n, a
      <4> QED BY <1>4, <3>2, <4>1, <4>2, ResultTrans
    <3>5. CASE m.err = "memory" /\ Short(m)
      <4>1. g = m
        BY <2>4, <3>5
      <4>2. Result(p, g, k, t)
        BY <1>2, <3>3, <3>5, <4>1, FailedMake
      <4> QED BY <1>4, <3>2, <4>2, ResultTrans
    <3> QED BY <3>3, <3>4, <3>5
  <2> QED BY <2>5, <2>6
<1> QED BY <1>9, <1>10

\* LAB_231C
LEMMA SliceIs ==
  ASSUME NEW h \in Heaps, h.err = "none", NEW r \in Refs(h), NEW offset \in Nat, NEW n \in Nat,
         n = 0 \/ offset + n <= Get(h, r).len, NEW g, g = SliceOf(h, r, offset, n)
  PROVE  /\ Typed(h, g, Popped(h.depth, r))
         /\ Neat(h) /\ Solid(h, r) /\ ~g.exposed /\ g.err # "wild" =>
              Result(h, g, Popped(h.depth, r), [i \in 1..n |-> Read(h, Get(h, r))[offset + i]])
<1> DEFINE m == Make(h, n, 0)
           from == Get(m, r).ptr + offset
           p == Pop(m, r)
           b == AppendBytes(p, from, n)
           d == [ptr |-> IF n = 0 THEN from ELSE m.utl, len |-> n]
           k == Popped(h.depth, r)
           t == [i \in 1..n |-> Read(h, Get(h, r))[offset + i]]
<1>1. g = Push(b, d)
  BY DEF SliceOf, Sliced
<1>2. /\ m \in Heaps /\ m.depth = h.depth /\ m.earryl = h.earryl /\ (h.exposed => m.exposed)
      /\ m.err \in {h.err, "memory", "wild"}
  BY MakeFresh, Zenon
<1> HIDE DEF m
<1>3. r \in Refs(m) /\ h.depth \in Nat
  BY <1>2, SameRefs, HeapFacts
<1>4. /\ p \in Heaps /\ p.earryl = m.earryl /\ p.exposed = m.exposed /\ p.err = m.err
      /\ m.err # "none" => p = m
      /\ m.err = "none" => p.depth = k
  BY <1>2, <1>3, PopTyped
<1>5. Get(m, r).ptr \in Int /\ Get(m, r).len \in Nat /\ from \in Int /\ m.utl \in Int
  BY <1>2, <1>3, RefFacts, HeapFacts
<1>6. d \in Descs /\ d.len = n /\ (n # 0 => d.ptr = m.utl)
  BY <1>5 DEF Descs
<1> HIDE DEF from, d, p
<1>7. /\ b \in Heaps /\ b.earryl = p.earryl /\ b.exposed = p.exposed /\ b.err = p.err
      /\ p.err # "none" => b = p
      /\ b.depth = p.depth
      /\ n = 0 => b = p
  BY <1>4, AppendTyped
<1> HIDE DEF b
<1>8. /\ g \in Heaps /\ g.earryl = b.earryl /\ g.exposed = b.exposed /\ g.err \in {b.err, "complex"}
      /\ b.err # "none" => g = b
      /\ g.err = "none" => g.depth = b.depth + 1
  BY <1>1, <1>6, <1>7, PushTyped
<1>9. Typed(h, g, k)
  BY <1>2, <1>4, <1>7, <1>8 DEF Typed
<1>10. ASSUME Neat(h), Solid(h, r), ~g.exposed, g.err # "wild" PROVE Result(h, g, k, t)
  <2> HIDE DEF k, t
  <2>1. ~m.exposed /\ m.err # "wild"
    BY <1>2, <1>4, <1>7, <1>8, <1>10
  <2>2. /\ Neat(m) /\ Kept(h, m, h.depth)
        /\ \/ m.err = "none" /\ Room(m, n) /\ (n = 0 => m.utl = 0)
           \/ m.err = "memory" /\ Short(m)
    BY <1>10, <2>1, MakeIs DEF m
  <2>3. CASE m.err = "memory" /\ Short(m)
    <3>1. g = m
      BY <1>4, <1>7, <1>8, <2>3
    <3> QED BY <2>2, <2>3, <3>1, FailedMake
  <2>4. CASE m.err = "none" /\ Room(m, n) /\ n = 0
    <3>1. Neat(p) /\ Kept(m, p, p.depth)
      <4>1. Solid(m, r)
        BY <1>2, <1>10, <2>2, KeptSolid
      <4> QED BY <1>2, <1>3, <2>2, <2>4, <4>1, SolidTop, PopIs DEF p
    <3>2. p.depth = k /\ b = p /\ k \in Nat /\ k <= h.depth
      <4>1. p.depth = k /\ b = p
        BY <1>4, <1>7, <2>4
      <4>2. h.depth \in 0..StackMax /\ r \in RefsAt(h.depth)
        BY HeapFacts, RefsAtFacts
      <4> QED BY <4>1, <4>2, PoppedFacts DEF k
    <3>3. Kept(h, p, k)
      BY <1>3, <2>2, <3>1, <3>2, KeptTrans
    <3>4. Placed(p, d) /\ \A q \in RefsAt(p.depth) : Apart(d, Get(p, q))
      BY <1>6, <2>4 DEF Placed, Apart
    <3>5. Result(h, g, k, Read(p, d))
      BY <1>1, <1>4, <1>6, <2>4, <3>1, <3>2, <3>3, <3>4, YieldPush
    <3>6. Read(p, d) = t
      BY <1>6, <2>4 DEF Read, t
    <3> QED BY <3>5, <3>6
  <2>5. CASE m.err = "none" /\ Room(m, n) /\ n # 0
    <3>1. Building(m, m, <<>>)
      BY <1>2, BuildStart
    <3>2. Building(m, p, <<>>) /\ p.depth = k
      <4>1. n = 0 => Get(m, r).len = 0
        BY <2>5
      <4>2. Building(m, p, <<>>) /\ p.depth = Popped(m.depth, r)
        BY <1>3, <2>2, <2>5, <3>1, <4>1, BuildPop DEF p
      <4> QED BY <1>2, <4>2 DEF k
    <3>3. Get(m, r).len = Get(h, r).len /\ Read(m, Get(m, r)) = Read(h, Get(h, r))
      <4>1. r \in RefsAt(h.depth)
        BY RefsAtFacts
      <4> QED BY <2>2, <4>1 DEF Kept
    <3>4. Outside(m, from, n, n)
      <4>1. Outside(m, Get(m, r).ptr, Get(m, r).len, n)
        BY <1>3, <2>2, <2>5, RefOutside
      <4> SUFFICES ASSUME NEW i \in 1..n PROVE from + i - 1 \notin m.utl..(m.utl + n - 1)
        BY DEF Outside
      <4>2. offset + i \in 1..Get(m, r).len /\ Get(m, r).ptr + (offset + i) - 1 = from + i - 1
        <5> DEFINE x == Get(m, r)
        <5>1. x.ptr \in Int /\ x.len \in Nat /\ from = x.ptr + offset /\ offset + n <= x.len
          BY <1>5, <2>5, <3>3 DEF from
        <5> HIDE DEF x
        <5>2. offset + i \in 1..x.len /\ x.ptr + (offset + i) - 1 = from + i - 1
          BY <5>1
        <5> QED BY <5>2 DEF x
      <4>3. Get(m, r).ptr + (offset + i) - 1 \notin m.utl..(m.utl + n - 1)
        BY <4>1, <4>2 DEF Outside
      <4> QED BY <4>2, <4>3
    <3>5. Building(m, b, <<>> \o Bytes(m, from, n))
      <4>1. Len(<<>>) + n <= n
        OBVIOUS
      <4> QED BY <1>5, <2>2, <2>5, <3>2, <3>4, <4>1, BuildAppend DEF b
    <3>6. <<>> \o Bytes(m, from, n) = t /\ Len(t) = n
      <4>1. Bytes(m, from, n) \in Seq(Chars) /\ Len(Bytes(m, from, n)) = n
        BY <1>2, BytesSeq
      <4>2. <<>> \o Bytes(m, from, n) = Bytes(m, from, n)
        <5> DEFINE S == Chars
                   x == Bytes(m, from, n)
        <5>1. x \in Seq(S)
          BY <4>1
        <5> HIDE DEF S, x
        <5>2. <<>> \o x = x
          BY <5>1
        <5> QED BY <5>2 DEF x
      <4>3. Bytes(m, from, n) = t
        <5>1. \A i \in 1..n : Byte(m.mem, from + i - 1) = Read(m, Get(m, r))[offset + i]
          <6> SUFFICES ASSUME NEW i \in 1..n PROVE Byte(m.mem, from + i - 1) = Read(m, Get(m, r))[offset + i]
            OBVIOUS
          <6> DEFINE x == Get(m, r)
          <6>1. x.ptr \in Int /\ x.len \in Nat /\ from = x.ptr + offset /\ offset + n <= x.len
            BY <1>5, <2>5, <3>3 DEF from
          <6> HIDE DEF x
          <6>2. offset + i \in 1..x.len /\ x.ptr + (offset + i) - 1 = from + i - 1
            BY <6>1
          <6>3. Read(m, x)[offset + i] = Byte(m.mem, x.ptr + (offset + i) - 1)
            BY <6>2 DEF Read
          <6> QED BY <6>2, <6>3 DEF x
        <5> QED BY <3>3, <5>1 DEF Bytes, t
      <4> QED BY <4>1, <4>2, <4>3
    <3>7. Holding(m, b, t)
      BY <3>5, <3>6 DEF Building
    <3>8. Result(h, g, b.depth, t)
      BY <1>1, <1>2, <1>6, <2>2, <2>5, <3>6, <3>7, HoldingYield
    <3> QED BY <1>7, <3>2, <3>8
  <2> QED BY <2>2, <2>3, <2>4, <2>5
<1> QED BY <1>9, <1>10

\* The error of a result that would be too long.
LEMMA LongIs ==
  ASSUME NEW h \in Heaps, NEW g, g = [h EXCEPT !.err = "long"], NEW k, NEW t
  PROVE  Typed(h, g, k) /\ (Neat(h) => Result(h, g, k, t))
<1>1. g \in Heaps /\ g.earryl = h.earryl /\ g.exposed = h.exposed /\ g.err = "long" /\ SameData(h, g)
  BY DEF Heaps, Errors, SameData
<1>2. Neat(h) => Neat(g) /\ Kept(h, g, 0)
  BY <1>1, SameDataFacts
<1> QED BY <1>1, <1>2 DEF Typed, Result, Failed

\* LAB_224E, once there is room.
LEMMA JoinedIs ==
  ASSUME NEW m \in Heaps, NEW r1 \in Refs(m), NEW r2 \in Refs(m), r1 \in RefsAt(Popped(m.depth, r2)),
         NEW g, g = Joined(m, r1, r2)
  PROVE  /\ Typed(m, g, Popped(Popped(m.depth, r2), r1)) /\ (m.exposed => g.exposed)
         /\ g.err \in {m.err, "complex"} /\ (m.err # "none" => g = m)
         /\ \A h \in Heaps : \A n \in Nat :
              n = Get(m, r1).len + Get(m, r2).len /\ Neat(m) /\ m.err = "none" /\ m.depth = h.depth
              /\ Kept(h, m, h.depth) /\ Room(m, n) /\ (n = 0 => m.utl = 0) =>
                Result(h, g, Popped(Popped(m.depth, r2), r1), Read(m, Get(m, r1)) \o Read(m, Get(m, r2)))
<1> DEFINE d1 == Get(m, r1)
           d2 == Get(m, r2)
           a1 == AppendBytes(m, d1.ptr, d1.len)
           p2 == Pop(a1, r2)
           a2 == AppendBytes(p2, d2.ptr, d2.len)
           p1 == Pop(a2, r1)
           d  == IF m.utl = 0 THEN Null ELSE [ptr |-> m.utl, len |-> p1.utl - m.utl]
           j  == Popped(m.depth, r2)
           k  == Popped(j, r1)
<1>1. d1.ptr \in Int /\ d1.len \in Nat /\ d2.ptr \in Int /\ d2.len \in Nat /\ m.utl \in Int
      /\ m.depth \in 0..StackMax /\ r1 \in RefsAt(m.depth) /\ r2 \in RefsAt(m.depth)
  BY RefFacts, HeapFacts, RefsAtFacts
<1>2. j \in 0..m.depth /\ j \in 0..StackMax /\ k \in 0..j /\ k \in Nat
  BY <1>1, PoppedFacts
<1>3. /\ a1 \in Heaps /\ a1.earryl = m.earryl /\ a1.vars = m.vars /\ a1.slots = m.slots
      /\ a1.depth = m.depth /\ a1.exposed = m.exposed /\ a1.err = m.err
      /\ m.err # "none" => a1 = m
      /\ m.err = "none" => a1.utl = m.utl + d1.len
  <2>1. /\ a1 \in Heaps /\ a1.earryl = m.earryl /\ a1.vars = m.vars /\ a1.slots = m.slots
        /\ a1.depth = m.depth /\ a1.exposed = m.exposed /\ a1.err = m.err
        /\ m.err # "none" => a1 = m
        /\ m.err = "none" /\ d1.len # 0 => a1.utl = m.utl + d1.len
        /\ d1.len = 0 => a1 = m
    BY <1>1, AppendTyped
  <2> HIDE DEF a1, d1
  <2> QED BY <1>1, <2>1
<1>4. Get(a1, r2) = d2 /\ r2 \in Refs(a1)
  BY <1>3, SameRefs DEF Get
<1>5. g = Push(p1, d)
  <2>1. AppendPopped(a1, r2) = a2
    BY <1>4 DEF AppendPopped
  <2> QED BY <2>1 DEF Joined, PushBuilt
<1> HIDE DEF a1, d1, d2
<1>6. /\ p2 \in Heaps /\ p2.earryl = m.earryl /\ p2.exposed = m.exposed /\ p2.err = m.err /\ p2.utl = a1.utl
      /\ m.err # "none" => p2 = m
      /\ m.err = "none" => p2.depth = j
  BY <1>3, <1>4, PopTyped
<1> HIDE DEF p2
<1>7. /\ a2 \in Heaps /\ a2.earryl = m.earryl /\ a2.exposed = m.exposed /\ a2.err = m.err
      /\ m.err # "none" => a2 = m
      /\ m.err = "none" => a2.depth = j /\ a2.utl = a1.utl + d2.len
  <2>1. /\ a2 \in Heaps /\ a2.earryl = p2.earryl /\ a2.exposed = p2.exposed /\ a2.err = p2.err
        /\ a2.depth = p2.depth
        /\ p2.err # "none" => a2 = p2
        /\ p2.err = "none" /\ d2.len # 0 => a2.utl = p2.utl + d2.len
        /\ d2.len = 0 => a2 = p2
    BY <1>1, <1>6, AppendTyped
  <2>2. a1.utl \in Int
    BY <1>3, HeapFacts
  <2> HIDE DEF a2
  <2> QED BY <1>1, <1>6, <2>1, <2>2
<1>8. r1 \in Refs(a2)
  <2>1. CASE m.err = "none"
    BY <1>7, <2>1, RefsAtFacts
  <2>2. CASE m.err # "none"
    BY <1>7, <2>2
  <2> QED BY <2>1, <2>2
<1> HIDE DEF a2
<1>9. /\ p1 \in Heaps /\ p1.earryl = m.earryl /\ p1.exposed = m.exposed /\ p1.err = m.err
      /\ m.err # "none" => p1 = m
      /\ m.err = "none" => p1.depth = k /\ p1.utl = m.utl + d1.len + d2.len
  <2>1. /\ p1 \in Heaps /\ p1.earryl = a2.earryl /\ p1.exposed = a2.exposed /\ p1.err = a2.err /\ p1.utl = a2.utl
        /\ a2.err # "none" => p1 = a2
        /\ a2.err = "none" => p1.depth = Popped(a2.depth, r1)
    BY <1>7, <1>8, PopTyped
  <2> HIDE DEF p1
  <2> QED BY <1>3, <1>7, <2>1
<1> HIDE DEF p1, j
<1>10. m.err = "none" => d \in Descs /\ d.len \in Nat
  <2>1. m.err = "none" => p1.utl - m.utl \in Nat
    BY <1>1, <1>9
  <2> QED BY <1>1, <2>1 DEF Descs, Null
<1>11. Typed(m, g, k) /\ (m.exposed => g.exposed) /\ g.err \in {m.err, "complex"} /\ (m.err # "none" => g = m)
  <2>1. CASE m.err # "none"
    <3>1. g = m
      BY <1>5, <1>9, <2>1 DEF Push
    <3> QED BY <2>1, <3>1 DEF Typed
  <2>2. CASE m.err = "none"
    <3>1. d \in Descs
      BY <1>10, <2>2
    <3> HIDE DEF d
    <3>2. /\ g \in Heaps /\ g.earryl = p1.earryl /\ g.exposed = p1.exposed /\ g.err \in {p1.err, "complex"}
          /\ g.err = "none" => g.depth = p1.depth + 1
      BY <1>5, <1>9, <3>1, PushTyped
    <3> QED BY <1>9, <2>2, <3>2 DEF Typed
  <2> QED BY <2>1, <2>2
<1>12. ASSUME NEW h \in Heaps, NEW n \in Nat, n = d1.len + d2.len, Neat(m), m.err = "none", m.depth = h.depth,
              Kept(h, m, h.depth), Room(m, n), n = 0 => m.utl = 0
       PROVE  Result(h, g, k, Read(m, d1) \o Read(m, d2))
  <2> DEFINE s1 == Bytes(m, d1.ptr, d1.len)
             s2 == Bytes(m, d2.ptr, d2.len)
  <2>1. s1 = Read(m, d1) /\ s2 = Read(m, d2)
    BY DEF Bytes, Read
  <2>2. s1 \in Seq(Chars) /\ Len(s1) = d1.len /\ s2 \in Seq(Chars) /\ Len(s2) = d2.len
    BY <1>1, BytesSeq
  <2>3. Outside(m, d1.ptr, d1.len, n) /\ Outside(m, d2.ptr, d2.len, n)
    <3>1. CASE n = 0
      <4>1. d1.len = 0 /\ d2.len = 0
        BY <1>1, <1>12, <3>1
      <4> QED BY <4>1 DEF Outside
    <3>2. CASE n # 0
      BY <1>12, <3>2, RefOutside DEF d1, d2
    <3> QED BY <3>1, <3>2
  <2>4. Building(m, a1, s1)
    <3>1. Building(m, m, <<>>)
      BY BuildStart
    <3>2. Len(<<>>) + d1.len <= n
      BY <1>1, <1>12
    <3>3. Building(m, a1, <<>> \o s1)
      BY <1>1, <1>12, <2>3, <3>1, <3>2, BuildAppend DEF a1
    <3>4. <<>> \o s1 = s1
      <4> DEFINE S == Chars
      <4>1. s1 \in Seq(S)
        BY <2>2
      <4> HIDE DEF S, s1
      <4> QED BY <4>1
    <3> QED BY <3>3, <3>4
  <2> HIDE DEF s1, s2
  <2>5. Building(m, p2, s1)
    <3>1. n = 0 => Get(m, r2).len = 0
      BY <1>1, <1>12 DEF d2
    <3> QED BY <1>4, <1>12, <2>4, <3>1, BuildPop DEF p2
  <2>6. Building(m, a2, s1 \o s2)
    <3>1. Len(s1) + d2.len <= n
      BY <1>1, <1>12, <2>2
    <3> QED BY <1>1, <1>12, <2>3, <2>5, <3>1, BuildAppend DEF a2, s2
  <2>7. Building(m, p1, s1 \o s2)
    <3>1. n = 0 => Get(m, r1).len = 0
      BY <1>1, <1>12 DEF d1
    <3> QED BY <1>8, <1>12, <2>6, <3>1, BuildPop DEF p1
  <2>8. Len(s1 \o s2) = n
    BY <1>12, <2>2, ConcatSeq
  <2>9. d \in Descs /\ d.len = n /\ (n # 0 => d.ptr = m.utl)
    <3>1. CASE n = 0
      BY <1>12, <3>1 DEF Null, Descs
    <3>2. CASE n # 0
      <4>1. m.utl # 0
        <5>1. m.earryl \in Int /\ Len(Text) \in Nat
          BY HeapFacts, Constant
        <5>2. m.earryl <= m.utl /\ Len(Text) + 2 <= m.earryl
          BY <1>12, <3>2 DEF Room, Neat, Ordered
        <5> QED BY <1>1, <5>1, <5>2
      <4>2. p1.utl - m.utl = n
        BY <1>1, <1>9, <1>12
      <4> QED BY <1>10, <1>12, <4>1, <4>2
    <3> QED BY <3>1, <3>2
  <2> HIDE DEF d
  <2>10. Holding(m, p1, s1 \o s2)
    BY <2>7 DEF Building
  <2>11. Result(h, g, p1.depth, s1 \o s2)
    BY <1>5, <1>12, <2>8, <2>9, <2>10, HoldingYield
  <2> QED BY <1>9, <1>12, <2>1, <2>11
<1> QED BY <1>11, <1>12 DEF d1, d2, j

\* LAB_224E
LEMMA ConcatIs ==
  ASSUME NEW h \in Heaps, h.err = "none", NEW r1 \in Refs(h), NEW r2 \in Refs(h), r1 \in RefsAt(Popped(h.depth, r2)),
         NEW g, g = Concatenate(h, r1, r2)
  PROVE  /\ Typed(h, g, Popped(Popped(h.depth, r2), r1))
         /\ Neat(h) /\ ~g.exposed /\ g.err # "wild" =>
              Result(h, g, Popped(Popped(h.depth, r2), r1), Read(h, Get(h, r1)) \o Read(h, Get(h, r2)))
<1> DEFINE n == Get(h, r1).len + Get(h, r2).len
           m == Make(h, n, 0)
           k == Popped(Popped(h.depth, r2), r1)
           t == Read(h, Get(h, r1)) \o Read(h, Get(h, r2))
<1>1. n \in Nat
  BY RefFacts
<1>2. g = IF n > MaxLength THEN [h EXCEPT !.err = "long"] ELSE Joined(m, r1, r2)
  BY DEF Concatenate
<1>3. /\ m \in Heaps /\ m.depth = h.depth /\ m.earryl = h.earryl /\ (h.exposed => m.exposed)
      /\ m.err \in {h.err, "memory", "wild"}
  BY <1>1, MakeFresh, Zenon
<1>4. r1 \in Refs(m) /\ r2 \in Refs(m)
  BY <1>3, SameRefs
<1> SUFFICES Typed(h, g, k) /\ (Neat(h) /\ ~g.exposed /\ g.err # "wild" => Result(h, g, k, t))
  OBVIOUS
<1>5. CASE n > MaxLength
  <2> HIDE DEF k, t
  <2>1. g = [h EXCEPT !.err = "long"]
    BY <1>2, <1>5
  <2> QED BY <2>1, LongIs
<1>6. CASE ~(n > MaxLength)
  <2>1. g = Joined(m, r1, r2)
    BY <1>2, <1>6
  <2> HIDE DEF m
  <2>2. /\ Typed(m, g, k) /\ (m.exposed => g.exposed)
        /\ g.err \in {m.err, "complex"} /\ (m.err # "none" => g = m)
        /\ \A f \in Heaps : \A i \in Nat :
             i = Get(m, r1).len + Get(m, r2).len /\ Neat(m) /\ m.err = "none" /\ m.depth = f.depth
             /\ Kept(f, m, f.depth) /\ Room(m, i) /\ (i = 0 => m.utl = 0) =>
               Result(f, g, k, Read(m, Get(m, r1)) \o Read(m, Get(m, r2)))
    BY <1>3, <1>4, <2>1, JoinedIs
  <2>3. Typed(h, g, k)
    BY <1>3, <2>2 DEF Typed
  <2>4. ASSUME Neat(h), ~g.exposed, g.err # "wild" PROVE Result(h, g, k, t)
    <3>1. ~m.exposed /\ m.err # "wild"
      BY <1>3, <2>2, <2>4
    <3> HIDE DEF k
    <3>2. /\ Neat(m) /\ Kept(h, m, h.depth)
          /\ \/ m.err = "none" /\ Room(m, n) /\ (n = 0 => m.utl = 0)
             \/ m.err = "memory" /\ Short(m)
      <4> HIDE DEF n
      <4> QED BY <1>1, <2>4, <3>1, MakeIs DEF m
    <3>3. CASE m.err = "none" /\ Room(m, n) /\ (n = 0 => m.utl = 0)
      <4>1. r1 \in RefsAt(h.depth) /\ r2 \in RefsAt(h.depth)
        BY RefsAtFacts
      <4>2. /\ Get(m, r1).len = Get(h, r1).len /\ Read(m, Get(m, r1)) = Read(h, Get(h, r1))
            /\ Get(m, r2).len = Get(h, r2).len /\ Read(m, Get(m, r2)) = Read(h, Get(h, r2))
        BY <3>2, <4>1 DEF Kept
      <4>3. n = Get(m, r1).len + Get(m, r2).len
        BY <4>2
      <4> HIDE DEF n
      <4>4. Result(h, g, k, Read(m, Get(m, r1)) \o Read(m, Get(m, r2)))
        BY <1>1, <1>3, <2>2, <3>2, <3>3, <4>3
      <4> QED BY <4>2, <4>4
    <3>4. CASE m.err = "memory" /\ Short(m)
      <4>1. g = m
        BY <2>2, <3>4
      <4> QED BY <3>2, <3>4, <4>1, FailedMake
    <3> QED BY <3>2, <3>3, <3>4
  <2> QED BY <2>3, <2>4
<1> QED BY <1>5, <1>6

-----------------------------------------------------------------------------
(* Assignment.                                                             *)

\* Variable v has been given the text t from the operand r; the other
\* descriptors up to depth k have kept theirs.  A stacked operand that was
\* not on top stays, with the bytes that are the variable's now.
Given(h, g, k, v, t, r) ==
  /\ Neat(g) /\ g.depth = k
  /\ \A q \in RefsAt(k) \ {VarRef(v)} :
       /\ Get(g, q).len = Get(h, q).len /\ Read(g, Get(g, q)) = Read(h, Get(h, q))
       /\ \/ Apart(Get(g, VarRef(v)), Get(g, q))
          \/ q = r /\ r \in OnStack /\ Get(g, VarRef(v)).ptr = Get(g, q).ptr
  /\ \A q, p \in RefsAt(k) \ {VarRef(v)} : q # p =>
       /\ Apart(Get(h, q), Get(h, p)) => Apart(Get(g, q), Get(g, p))
       /\ Get(h, q).ptr = Get(h, p).ptr => Apart(Get(g, q), Get(g, p)) \/ Get(g, q).ptr = Get(g, p).ptr
  /\ Read(g, Get(g, VarRef(v))) = t

\* What LAB_1811 changes: a variable, and the depth of the stack.
LEMMA MoveTyped ==
  ASSUME NEW h \in Heaps, h.err = "none", NEW r \in Refs(h), NEW v \in Vars, NEW g, g = MoveTo(h, r, v)
  PROVE  /\ g \in Heaps /\ g.earryl = h.earryl /\ g.sstorl = h.sstorl /\ g.mem = h.mem /\ g.slots = h.slots
         /\ g.utl = h.utl /\ g.exposed = h.exposed /\ g.need = h.need /\ g.err = "none"
         /\ g.depth = Popped(h.depth, r)
         /\ Get(g, VarRef(v)) = Get(h, r)
         /\ \A q \in Refs(h) : q # VarRef(v) => Get(g, q) = Get(h, q)
<1> DEFINE d == Get(h, r)
           x == [h.vars EXCEPT ![v] = d]
           n == IF r = Top(h) THEN h.depth - 1 ELSE h.depth
<1>1. h.depth \in 0..StackMax /\ h.depth \in Nat /\ r \in RefsAt(h.depth) /\ d \in Descs /\ h.vars \in [Vars -> Descs]
  BY HeapFacts, RefFacts, RefsAtFacts
<1>2. n \in 0..StackMax /\ n = Popped(h.depth, r)
  BY <1>1, PoppedFacts DEF Popped, Top
<1>3. x \in [Vars -> Descs] /\ x[v] = d /\ \A w \in Vars : w # v => x[w] = h.vars[w]
  BY <1>1
<1>4. g = [h EXCEPT !.vars = x, !.depth = n]
  BY DEF MoveTo
<1> HIDE DEF d, x, n
<1>5. /\ g \in Heaps /\ g.earryl = h.earryl /\ g.sstorl = h.sstorl /\ g.mem = h.mem /\ g.slots = h.slots
      /\ g.utl = h.utl /\ g.exposed = h.exposed /\ g.need = h.need /\ g.err = "none"
      /\ g.depth = n /\ g.vars = x
  BY <1>2, <1>3, <1>4 DEF Heaps
<1>6. Get(g, VarRef(v)) = d
  BY <1>3, <1>5 DEF Get, VarRef
<1>7. ASSUME NEW q \in Refs(h), q # VarRef(v) PROVE Get(g, q) = Get(h, q)
  <2>1. CASE q \in OfVars
    <3>1. PICK w \in Vars : q = VarRef(w)
      BY <2>1 DEF OfVars
    <3>2. w # v
      BY <1>7, <3>1
    <3> QED BY <1>3, <1>5, <3>1, <3>2 DEF Get, VarRef
  <2>2. CASE q \notin OfVars
    <3>1. PICK i \in 1..h.depth : q = StackRef(i)
      BY <2>2 DEF Refs
    <3> QED BY <1>5, <3>1 DEF Get, StackRef
  <2> QED BY <2>1, <2>2
<1> QED BY <1>2, <1>5, <1>6, <1>7 DEF d

\* The descriptor of an operand moves to a variable.
LEMMA MoveIs ==
  ASSUME NEW h, Neat(h), h.err = "none", NEW r \in Refs(h), NEW v \in Vars, NEW g, g = MoveTo(h, r, v),
         \A q \in RefsAt(Popped(h.depth, r)) \ {VarRef(v)} :
           Apart(Get(h, r), Get(h, q)) \/ (q = r /\ r \in OnStack)
  PROVE  Given(h, g, Popped(h.depth, r), v, Read(h, Get(h, r)), r)
<1> DEFINE k == Popped(h.depth, r)
           x == VarRef(v)
<1>1. h \in Heaps
  BY DEF Neat
<1>2. /\ g \in Heaps /\ g.earryl = h.earryl /\ g.sstorl = h.sstorl /\ g.mem = h.mem
      /\ g.depth = k /\ Get(g, x) = Get(h, r)
      /\ \A q \in Refs(h) : q # x => Get(g, q) = Get(h, q)
  BY <1>1, MoveTyped
<1>3. RefsAt(k) \subseteq Refs(h) /\ Refs(g) = RefsAt(k)
  <2>1. h.depth \in 0..StackMax /\ h.depth \in Nat /\ r \in RefsAt(h.depth)
    BY <1>1, HeapFacts, RefsAtFacts
  <2>2. k \in Nat /\ k <= h.depth
    BY <2>1, PoppedFacts
  <2> QED BY <1>2, <2>1, <2>2, RefsAtFacts
<1>4. \A q \in RefsAt(k) \ {x} : Get(g, q) = Get(h, q)
  BY <1>2, <1>3
<1>5. \A e : Read(g, e) = Read(h, e) /\ (Placed(h, e) <=> Placed(g, e))
  BY <1>2 DEF Read, Placed
<1>6. \A q \in RefsAt(k) \ {x} : Apart(Get(g, x), Get(g, q)) \/ (q = r /\ r \in OnStack /\ Get(g, x).ptr = Get(g, q).ptr)
  BY <1>2, <1>4
<1> HIDE DEF x, k
<1>7. Neat(g)
  <2>1. \A q \in Refs(g) : Placed(g, Get(g, q))
    BY <1>2, <1>3, <1>4, <1>5 DEF Neat
  <2>2. ASSUME NEW p \in RefsAt(k), NEW q \in RefsAt(k), p # q PROVE Apart(Get(g, p), Get(g, q)) \/ Get(g, p).ptr = Get(g, q).ptr
    <3>1. CASE p # x /\ q # x
      BY <1>3, <1>4, <2>2, <3>1 DEF Neat
    <3>2. CASE p = x
      BY <1>6, <2>2, <3>2
    <3>3. CASE q = x
      BY <1>6, <2>2, <3>3, ApartSym
    <3> QED BY <3>1, <3>2, <3>3
  <2> QED BY <1>2, <1>3, <2>1, <2>2 DEF Neat, Ordered, TextKept
<1>8. \A q \in RefsAt(k) \ {x} : Get(g, q).len = Get(h, q).len /\ Read(g, Get(g, q)) = Read(h, Get(h, q))
  BY <1>4, <1>5
<1>9. \A q, p \in RefsAt(k) \ {x} : Get(g, q) = Get(h, q) /\ Get(g, p) = Get(h, p)
  BY <1>4
<1>10. Read(g, Get(g, x)) = Read(h, Get(h, r))
  BY <1>2, <1>5
<1> QED BY <1>2, <1>6, <1>7, <1>8, <1>9, <1>10 DEF Given, x, k

\* A variable's string is copied to the top of the stack and moved from there.
LEMMA CopyGiven ==
  ASSUME NEW h \in Heaps, NEW c, c.err = "none", NEW t, Yielded(h, c, h.depth, t), NEW v \in Vars, NEW g, g = CopyTo(c, v), NEW r
  PROVE  Given(h, g, h.depth, v, t, r)
<1> DEFINE k == h.depth
           s == StackRef(k + 1)
           x == VarRef(v)
<1>1. Neat(c) /\ c.depth = k + 1 /\ Kept(h, c, k) /\ Read(c, Get(c, s)) = t
      /\ \A q \in RefsAt(k) : Apart(Get(c, s), Get(c, q))
  BY DEF Yielded
<1>2. k \in Nat /\ s \in Refs(c) /\ s = Top(c) /\ s \notin RefsAt(k)
  <2>1. k \in Nat /\ k + 1 \in 1..(k + 1)
    BY HeapFacts
  <2> QED BY <1>1, <2>1, RefsAtFacts DEF Top
<1>3. Popped(c.depth, s) = k
  BY <1>1, <1>2 DEF Popped
<1>4. Given(c, g, k, v, t, s)
  BY <1>1, <1>2, <1>3, MoveIs DEF CopyTo
<1> HIDE DEF k, s, x, RefsAt
<1>5. /\ Neat(g) /\ g.depth = k /\ Read(g, Get(g, x)) = t
      /\ \A q \in RefsAt(k) \ {x} :
            /\ Get(g, q).len = Get(c, q).len /\ Read(g, Get(g, q)) = Read(c, Get(c, q))
            /\ Apart(Get(g, x), Get(g, q))
      /\ \A q, p \in RefsAt(k) \ {x} : q # p =>
            /\ Apart(Get(c, q), Get(c, p)) => Apart(Get(g, q), Get(g, p))
            /\ Get(c, q).ptr = Get(c, p).ptr => Apart(Get(g, q), Get(g, p)) \/ Get(g, q).ptr = Get(g, p).ptr
  BY <1>2, <1>4 DEF Given, x
<1>6. /\ \A q \in RefsAt(k) : Get(c, q).len = Get(h, q).len /\ Read(c, Get(c, q)) = Read(h, Get(h, q))
      /\ \A q, p \in RefsAt(k) : q # p =>
            /\ Apart(Get(h, q), Get(h, p)) => Apart(Get(c, q), Get(c, p))
            /\ Get(h, q).ptr = Get(h, p).ptr => Apart(Get(c, q), Get(c, p)) \/ Get(c, q).ptr = Get(c, p).ptr
  BY <1>1 DEF Kept
<1>7. \A q \in RefsAt(k) \ {x} :
            /\ Get(g, q).len = Get(h, q).len /\ Read(g, Get(g, q)) = Read(h, Get(h, q))
            /\ Apart(Get(g, x), Get(g, q))
  BY <1>5, <1>6
<1>8. \A q, p \in RefsAt(k) \ {x} : q # p =>
            /\ Apart(Get(h, q), Get(h, p)) => Apart(Get(g, q), Get(g, p))
            /\ Get(h, q).ptr = Get(h, p).ptr => Apart(Get(g, q), Get(g, p)) \/ Get(g, q).ptr = Get(g, p).ptr
  BY <1>5, <1>6
<1> QED BY <1>5, <1>7, <1>8 DEF Given, x, k

\* LAB_17D6
LEMMA AssignIs ==
  ASSUME NEW h \in Heaps, h.err = "none", NEW r \in Refs(h), NEW v \in Vars, NEW g, g = Assign(h, r, v)
  PROVE  /\ g \in Heaps /\ g.earryl = h.earryl /\ (h.exposed => g.exposed)
         /\ g.err = "none" => g.depth = Popped(h.depth, r)
         /\ Neat(h) /\ Solid(h, r) /\ ~g.exposed /\ g.err # "wild" =>
              IF g.err = "none" THEN Given(h, g, Popped(h.depth, r), v, Read(h, Get(h, r)), r) ELSE Failed(h, g)
<1> DEFINE d == Get(h, r)
           c == CopyIn(h, d.ptr, d.len)
           k == Popped(h.depth, r)
           t == Read(h, d)
<1>1. d.ptr \in Int /\ d.len \in Nat /\ h.depth \in Nat /\ h.depth \in 0..StackMax /\ r \in RefsAt(h.depth)
  BY RefFacts, HeapFacts, RefsAtFacts
<1>2. g = IF d.ptr < h.sstorl \/ r.on = "stack" THEN MoveTo(h, r, v) ELSE CopyTo(c, v)
  BY DEF Assign
<1>3. r.on = "stack" => r \in OnStack
  <2>1. CASE r \in OfVars
    BY <2>1 DEF OfVars, VarRef
  <2>2. CASE r \notin OfVars
    <3>1. PICK i \in 1..h.depth : r = StackRef(i)
      BY <2>2 DEF Refs
    <3>2. i \in 1..StackMax
      BY <1>1, <3>1, StackMaxIs
    <3> QED BY <3>1, <3>2 DEF OnStack
  <2> QED BY <2>1, <2>2
<1>4. RefsAt(k) \subseteq Refs(h)
  BY <1>1, PoppedFacts, RefsAtFacts
<1>5. r \in OnStack => r.on = "stack"
  BY DEF OnStack, StackRef
<1>6. CASE d.ptr < h.sstorl \/ r.on = "stack"
  <2>1. g = MoveTo(h, r, v)
    BY <1>2, <1>6
  <2>2. /\ g \in Heaps /\ g.earryl = h.earryl /\ g.exposed = h.exposed /\ g.err = "none" /\ g.depth = k
    BY <2>1, MoveTyped
  <2>3. ASSUME Neat(h), Solid(h, r) PROVE Given(h, g, k, v, t, r)
    <3>1. ASSUME NEW q \in RefsAt(k) \ {VarRef(v)} PROVE Apart(d, Get(h, q)) \/ (q = r /\ r \in OnStack)
      <4>1. q \in Refs(h)
        BY <1>4
      <4>2. CASE r.on = "stack"
        BY <1>3, <2>3, <4>1, <4>2 DEF Solid
      <4>3. CASE ~(r.on = "stack")
        <5>1. d.ptr < h.sstorl
          BY <1>6, <4>3
        <5>2. d.len = 0 \/ InText(d)
          <6>1. h.sstorl \in Int
            BY HeapFacts
          <6>2. Placed(h, d)
            BY <2>3 DEF Neat
          <6> HIDE DEF d
          <6> QED BY <1>1, <5>1, <6>1, <6>2 DEF Placed
        <5> QED BY <5>2 DEF Apart
      <4> QED BY <4>2, <4>3
    <3> QED BY <2>1, <2>3, <3>1, MoveIs
  <2> QED BY <2>2, <2>3
<1>7. CASE ~(d.ptr < h.sstorl \/ r.on = "stack")
  <2>1. g = CopyTo(c, v)
    BY <1>2, <1>7
  <2> HIDE DEF d
  <2>2. k = h.depth
    BY <1>7 DEF Popped, StackRef
  <2>3. /\ Typed(h, c, h.depth)
        /\ Neat(h) /\ ~c.exposed /\ c.err # "wild" /\ d.ptr >= h.earryl => Result(h, c, h.depth, Bytes(h, d.ptr, d.len))
    BY <1>1, CopyInIs
  <2> HIDE DEF c, t, k
  <2>4. c.err # "none" => g = c
    BY <2>1 DEF CopyTo, MoveTo
  <2>5. c.err = "none" => /\ g \in Heaps /\ g.earryl = c.earryl /\ g.exposed = c.exposed /\ g.err = "none"
                          /\ g.depth = h.depth
    <3> SUFFICES ASSUME c.err = "none"
                 PROVE  /\ g \in Heaps /\ g.earryl = c.earryl /\ g.exposed = c.exposed /\ g.err = "none"
                        /\ g.depth = h.depth
      OBVIOUS
    <3>1. c \in Heaps /\ c.depth = h.depth + 1
      BY <2>3 DEF Typed
    <3>2. Top(c) \in Refs(c)
      <4>1. c.depth \in 1..c.depth
        BY <1>1, <3>1
      <4> QED BY <4>1 DEF Refs, Top
    <3>3. Popped(c.depth, Top(c)) = h.depth
      BY <1>1, <3>1 DEF Popped, Top
    <3> QED BY <2>1, <3>1, <3>2, <3>3, MoveTyped DEF CopyTo
  <2>6. /\ g \in Heaps /\ g.earryl = h.earryl /\ (h.exposed => g.exposed)
        /\ g.err = "none" => g.depth = k
    BY <2>2, <2>3, <2>4, <2>5 DEF Typed
  <2>7. ASSUME Neat(h), ~g.exposed, g.err # "wild"
        PROVE  IF g.err = "none" THEN Given(h, g, k, v, t, r) ELSE Failed(h, g)
    <3>1. ~c.exposed /\ c.err # "wild"
      BY <2>4, <2>5, <2>7
    <3>2. d.ptr >= h.earryl
      <4>1. h.earryl \in Int /\ h.sstorl \in Int /\ h.earryl <= h.sstorl
        BY <2>7, HeapFacts DEF Neat, Ordered
      <4> QED BY <1>1, <1>7, <4>1
    <3>3. Result(h, c, h.depth, t)
      BY <2>3, <2>7, <3>1, <3>2 DEF t, Read, Bytes
    <3>4. CASE c.err = "none"
      <4>1. Given(h, g, h.depth, v, t, r)
        BY <2>1, <3>3, <3>4, CopyGiven DEF Result
      <4> QED BY <2>2, <2>5, <3>4, <4>1
    <3>5. CASE c.err # "none"
      <4>1. Failed(h, g) /\ g.err # "none"
        BY <2>4, <3>3, <3>5 DEF Result
      <4> QED BY <4>1
    <3> QED BY <3>4, <3>5
  <2> QED BY <2>6, <2>7 DEF k, t, d
<1> QED BY <1>6, <1>7

\* LAB_201E: the variable's own descriptor is pushed first.
LEMMA EnterIs ==
  ASSUME NEW h \in Heaps, h.err = "none", NEW r \in Refs(h), NEW v \in Vars, NEW p, p = Push(h, h.vars[v]),
         NEW g, g = EnterWith(h, r, v)
  PROVE  /\ g \in Heaps /\ g.earryl = h.earryl /\ (h.exposed => g.exposed)
         /\ g.err = "none" => /\ p.err = "none" /\ g.depth = h.depth + 1 /\ p.mem = h.mem
                              /\ Get(p, StackRef(h.depth + 1)) = Get(h, VarRef(v))
                              /\ \A q \in Refs(h) : Get(p, q) = Get(h, q)
         /\ Neat(h) /\ Solid(h, r) /\ ~g.exposed /\ g.err # "wild" =>
              IF g.err = "none" THEN Given(p, g, h.depth + 1, v, Read(h, Get(h, r)), r) ELSE Failed(h, g)
<1> DEFINE x == VarRef(v)
           d == Get(h, x)
           k == h.depth
           s == StackRef(k + 1)
<1>1. x \in Refs(h) /\ x \notin OnStack /\ d = h.vars[v] /\ d \in Descs /\ k \in Nat /\ Refs(h) = RefsAt(k)
  <2>1. x \in Refs(h)
    BY DEF Refs, OfVars
  <2>2. x \notin OnStack
    BY RefsApart DEF OnStack
  <2>3. d = h.vars[v]
    BY DEF Get, VarRef
  <2> QED BY <2>1, <2>2, <2>3, RefFacts, HeapFacts, RefsAtFacts
<1>2. g = Assign(p, r, v) /\ p = Push(h, d)
  BY <1>1 DEF EnterWith
<1> HIDE DEF x, d
<1>3. /\ p \in Heaps /\ p.earryl = h.earryl /\ p.mem = h.mem /\ p.exposed = h.exposed /\ p.err \in {h.err, "complex"}
      /\ p.err # "none" => SameData(h, p)
      /\ p.err = "none" => /\ p.depth = k + 1
                           /\ Get(p, s) = d
                           /\ \A q \in Refs(h) : Get(p, q) = Get(h, q)
  BY <1>1, <1>2, PushTyped
<1>4. Neat(h) => Neat(p) /\ Kept(h, p, k)
  <2>1. Neat(h) => Fresh(h, d, k)
    <3> SUFFICES ASSUME Neat(h) PROVE Fresh(h, d, k)
      OBVIOUS
    <3>1. Placed(h, d) /\ d.len \in Nat
      BY <1>1 DEF Neat, Descs, d
    <3>2. \A q \in RefsAt(k) : Apart(d, Get(h, q)) \/ d.ptr = Get(h, q).ptr
      BY <1>1 DEF Neat, d
    <3> QED BY <3>1, <3>2 DEF Fresh
  <2> QED BY <1>1, <1>2, <2>1, PushIs
<1>5. CASE p.err # "none"
  <2>1. g = p
    BY <1>2, <1>5 DEF Assign
  <2>2. Neat(h) => Failed(h, p)
    <3> SUFFICES ASSUME Neat(h) PROVE Failed(h, p)
      OBVIOUS
    <3>1. Kept(h, p, 0)
      BY <1>3, <1>5, SameDataFacts
    <3>2. p.err # "memory"
      BY <1>3
    <3> QED BY <1>4, <3>1, <3>2 DEF Failed
  <2> QED BY <1>3, <1>5, <2>1, <2>2
<1>6. CASE p.err = "none"
  <2>1. Refs(p) = Refs(h) \cup {s} /\ r \in Refs(p) /\ r # s
    <3>1. s \notin RefsAt(k) /\ RefsAt(k + 1) = RefsAt(k) \cup {s} /\ Refs(p) = RefsAt(p.depth)
      BY <1>1, RefsAtFacts
    <3> QED BY <1>1, <1>3, <1>6, <3>1
  <2>2. Popped(p.depth, r) = k + 1
    BY <1>3, <1>6, <2>1 DEF Popped
  <2>3. Solid(h, r) => Solid(p, r)
    <3> SUFFICES ASSUME Solid(h, r), r \in OnStack, NEW q \in Refs(p), q # r PROVE Apart(Get(p, r), Get(p, q))
      BY DEF Solid
    <3>1. Get(p, r) = Get(h, r)
      BY <1>3, <1>6
    <3>2. CASE q \in Refs(h)
      BY <1>3, <1>6, <3>1, <3>2 DEF Solid
    <3>3. CASE q = s
      <4>1. Apart(Get(h, r), Get(h, x))
        BY <1>1 DEF Solid
      <4> QED BY <1>3, <1>6, <3>1, <3>3, <4>1 DEF d
    <3> QED BY <2>1, <3>2, <3>3
  <2>4. Read(p, Get(p, r)) = Read(h, Get(h, r))
    BY <1>3, <1>6 DEF Read
  <2>5. /\ g \in Heaps /\ g.earryl = p.earryl /\ (p.exposed => g.exposed)
        /\ g.err = "none" => g.depth = k + 1
        /\ Neat(p) /\ Solid(p, r) /\ ~g.exposed /\ g.err # "wild" =>
              IF g.err = "none" THEN Given(p, g, k + 1, v, Read(h, Get(h, r)), r) ELSE Failed(p, g)
    BY <1>2, <1>3, <1>6, <2>1, <2>2, <2>4, AssignIs
  <2>6. Neat(h) /\ Failed(p, g) => Failed(h, g)
    <3> SUFFICES ASSUME Neat(h), Failed(p, g) PROVE Failed(h, g)
      OBVIOUS
    <3>1. Kept(h, p, k) /\ Kept(p, g, 0) /\ 0 \in Nat /\ 0 <= k
      BY <1>1, <1>4 DEF Failed
    <3>2. Kept(h, g, 0)
      BY <1>1, <3>1, KeptTrans
    <3> QED BY <3>2 DEF Failed
  <2> QED BY <1>3, <1>4, <1>6, <2>3, <2>5, <2>6 DEF d, x
<1> QED BY <1>5, <1>6

-----------------------------------------------------------------------------
(* Variables and arrays.                                                   *)

\* Bytes between the arrays and string space are nobody's.
LEMMA ClobberIs ==
  ASSUME NEW h, Neat(h), NEW g \in Heaps, NEW from \in Int, NEW to \in Int, h.earryl <= from, to < h.sstorl,
         g.mem = Clobber(h.mem, from, to), g.sstorl = h.sstorl, g.vars = h.vars, g.slots = h.slots, g.depth = h.depth,
         h.earryl <= g.earryl, g.earryl <= h.sstorl
  PROVE  Neat(g) /\ Kept(h, g, h.depth)
<1>1. h \in Heaps
  BY DEF Neat
<1>2. h.earryl \in Int /\ h.sstorl \in Int /\ g.earryl \in Int /\ Len(Text) \in Nat /\ Ememl \in Int
      /\ Len(Text) + 2 <= h.earryl /\ h.sstorl <= Ememl
  BY <1>1, HeapFacts, Constant DEF Neat, Ordered
<1>3. DOMAIN h.mem = 1..(Ememl - 1)
  BY <1>1, HeapFacts DEF Mems
<1>4. (\A r : Get(g, r) = Get(h, r)) /\ Refs(g) = Refs(h) /\ Refs(h) = RefsAt(h.depth)
  BY SameRefs, RefsAtFacts DEF Get
<1>5. ASSUME NEW a \in Int, ~(a \in from..to) PROVE Byte(g.mem, a) = Byte(h.mem, a)
  BY <1>3, <1>5 DEF Byte, Clobber
<1>6. ASSUME NEW r \in Refs(h) PROVE Read(g, Get(h, r)) = Read(h, Get(h, r))
  <2> DEFINE d == Get(h, r)
  <2>1. d.ptr \in Int /\ d.len \in Nat /\ Placed(h, d)
    BY <1>1, RefFacts DEF Neat
  <2> HIDE DEF d
  <2>2. ASSUME NEW i \in 1..d.len PROVE d.ptr + i - 1 \in Int /\ ~(d.ptr + i - 1 \in from..to)
    <3>1. InText(d) \/ h.sstorl <= d.ptr
      BY <2>1 DEF Placed
    <3>2. CASE InText(d)
      BY <1>2, <2>1, <3>2 DEF InText
    <3>3. CASE h.sstorl <= d.ptr
      BY <1>2, <2>1, <3>3
    <3> QED BY <3>1, <3>2, <3>3
  <2>3. \A i \in 1..d.len : Byte(g.mem, d.ptr + i - 1) = Byte(h.mem, d.ptr + i - 1)
    BY <1>5, <2>2
  <2> QED BY <2>3, ReadSame DEF d
<1>7. TextKept(g)
  <2> SUFFICES ASSUME NEW a \in 1..Len(Text) PROVE g.mem[a] = Text[a]
    BY DEF TextKept
  <2>1. a \in 1..(Ememl - 1) /\ ~(a \in from..to)
    BY <1>2
  <2>2. g.mem[a] = h.mem[a]
    BY <1>3, <2>1 DEF Clobber
  <2> QED BY <2>2 DEF Neat, TextKept
<1>8. Neat(g)
  BY <1>2, <1>4, <1>7 DEF Neat, Ordered, Placed
<1>9. Kept(h, g, h.depth)
  BY <1>4, <1>6, KeptSame
<1> QED BY <1>8, <1>9

\* Unknown bytes are characters too.
LEMMA ClobberType ==
  ASSUME NEW m \in Mems, NEW from, NEW to
  PROVE  Clobber(m, from, to) \in Mems
BY DEF Clobber, Mems, Chars

\* LAB_1D98
Widened(h) ==
  [h EXCEPT !.earryl = @ + VarSize, !.exposed = @ \/ h.earryl + VarSize > h.sstorl,
            !.mem = Clobber(h.mem, h.earryl, h.earryl + VarSize - 1)]

\* A new variable below every string keeps them all.
LEMMA NewVariableIs ==
  ASSUME NEW h \in Heaps, h.err = "none", NEW g, g = Widened(h)
  PROVE  /\ g \in Heaps /\ g.err = "none" /\ g.depth = h.depth /\ (h.exposed => g.exposed)
         /\ Neat(h) /\ ~g.exposed => Neat(g) /\ Kept(h, g, h.depth)
<1> DEFINE m == Clobber(h.mem, h.earryl, h.earryl + VarSize - 1)
           e == h.earryl + VarSize
           x == h.exposed \/ e > h.sstorl
<1>1. m \in Mems /\ e \in Nat /\ x \in BOOLEAN /\ h.earryl \in Nat /\ e - 1 \in Int /\ h.earryl <= e /\ h.sstorl \in Int
  <2>1. h.earryl \in Nat /\ h.mem \in Mems /\ h.exposed \in BOOLEAN /\ h.sstorl \in Int
    BY HeapFacts
  <2>2. m \in Mems
    BY <2>1, ClobberType
  <2> QED BY <2>1, <2>2 DEF VarSize
<1>2. g = [h EXCEPT !.earryl = e, !.exposed = x, !.mem = m]
  BY DEF Widened
<1>3. m = Clobber(h.mem, h.earryl, e - 1)
  <2>1. e - 1 = h.earryl + VarSize - 1
    BY <1>1 DEF VarSize
  <2> QED BY <2>1
<1>3x. x <=> h.exposed \/ e > h.sstorl
  OBVIOUS
<1> HIDE DEF m, e, x
<1>4. /\ g \in Heaps /\ g.err = "none" /\ g.depth = h.depth /\ g.exposed = x /\ g.earryl = e /\ g.mem = m
      /\ g.sstorl = h.sstorl /\ g.vars = h.vars /\ g.slots = h.slots
  BY <1>1, <1>2 DEF Heaps
<1>5. ASSUME Neat(h), ~g.exposed PROVE Neat(g) /\ Kept(h, g, h.depth)
  <2>1. e <= h.sstorl /\ e - 1 < h.sstorl /\ h.earryl <= h.earryl
    BY <1>1, <1>3x, <1>4, <1>5
  <2>2. /\ g.mem = Clobber(h.mem, h.earryl, e - 1) /\ h.earryl <= g.earryl /\ g.earryl <= h.sstorl
        /\ h.earryl \in Int /\ e - 1 \in Int
    BY <1>1, <1>3, <1>4, <2>1
  <2>3. g.sstorl = h.sstorl /\ g.vars = h.vars /\ g.slots = h.slots /\ g.depth = h.depth
    BY <1>4
  <2> QED BY ONLY <1>4, <1>5, <2>1, <2>2, <2>3, ClobberIs
<1> QED BY <1>3x, <1>4, <1>5

\* LAB_1EA1: the header of the new array.
LEMMA HeaderIs ==
  ASSUME NEW h \in Heaps, NEW g, g = HeaderWritten(h)
  PROVE  /\ g \in Heaps /\ g.err = h.err /\ g.depth = h.depth /\ (h.exposed => g.exposed)
         /\ g.earryl = h.earryl /\ g.sstorl = h.sstorl
         /\ Neat(h) /\ ~g.exposed => Neat(g) /\ Kept(h, g, h.depth)
<1> DEFINE e == h.earryl
           m == Clobber(h.mem, e, e + 3)
           n == Clobber(m, e + 8, e + 11)
           x == h.exposed \/ e + HeaderSize > h.sstorl
           f == [h EXCEPT !.mem = m]
<1>1. m \in Mems /\ n \in Mems /\ x \in BOOLEAN /\ e \in Nat /\ h.sstorl \in Int
  <2>1. h.earryl \in Nat /\ h.mem \in Mems /\ h.exposed \in BOOLEAN /\ h.sstorl \in Int
    BY HeapFacts
  <2>2. m \in Mems
    BY <2>1, ClobberType
  <2>3. n \in Mems
    BY <2>2, ClobberType
  <2> QED BY <2>1, <2>2, <2>3
<1>2. g = [h EXCEPT !.mem = n, !.exposed = x]
  BY DEF HeaderWritten
<1>3. m = Clobber(h.mem, e, e + 3) /\ n = Clobber(m, e + 8, e + 11)
  OBVIOUS
<1>3x. x <=> h.exposed \/ e + 12 > h.sstorl
  BY DEF HeaderSize
<1>4. e + 3 \in Int /\ e + 8 \in Int /\ e + 11 \in Int /\ e = h.earryl
  BY <1>1
<1> HIDE DEF m, n, x, e
<1>5. /\ g \in Heaps /\ g.err = h.err /\ g.depth = h.depth /\ g.exposed = x /\ g.earryl = e /\ g.mem = n
      /\ g.sstorl = h.sstorl /\ g.vars = h.vars /\ g.slots = h.slots
      /\ f \in Heaps /\ f.depth = h.depth /\ f.earryl = e /\ f.mem = m
      /\ f.sstorl = h.sstorl /\ f.vars = h.vars /\ f.slots = h.slots
  BY <1>1, <1>2, <1>4 DEF Heaps
<1> HIDE DEF f
<1>6. ASSUME Neat(h), ~g.exposed PROVE Neat(g) /\ Kept(h, g, h.depth)
  <2>1. e + 3 < h.sstorl /\ e + 11 < h.sstorl /\ e <= e + 8 /\ e <= e /\ e <= h.sstorl
    BY <1>1, <1>3x, <1>5, <1>6
  <2>2. Neat(f) /\ Kept(h, f, h.depth)
    BY <1>1, <1>3, <1>4, <1>5, <1>6, <2>1, ClobberIs
  <2>3. Neat(g) /\ Kept(f, g, h.depth)
    <3>1. /\ f.earryl <= e + 8 /\ e + 11 < f.sstorl /\ g.mem = Clobber(f.mem, e + 8, e + 11)
          /\ g.sstorl = f.sstorl /\ g.vars = f.vars /\ g.slots = f.slots /\ g.depth = f.depth
          /\ f.earryl <= g.earryl /\ g.earryl <= f.sstorl /\ f.depth = h.depth
      BY <1>3, <1>4, <1>5, <2>1
    <3> QED BY <1>4, <1>5, <2>2, <3>1, ClobberIs
  <2>4. h.depth \in Nat /\ h.depth <= h.depth
    BY HeapFacts
  <2> QED BY <2>2, <2>3, <2>4, KeptTrans
<1> QED BY <1>3x, <1>4, <1>5, <1>6

\* LAB_1ED6
LEMMA DimensionedIs ==
  ASSUME NEW h \in Heaps, h.err \in {"none", "wild"}, NEW end \in Nat, h.earryl <= end, NEW g, g = Dimensioned(h, end)
  PROVE  /\ g \in Heaps /\ g.depth = h.depth /\ g.exposed = h.exposed
         /\ g.err = "wild" <=> h.err = "wild"
         /\ Neat(h) /\ h.err = "none" /\ (end >= h.sstorl => Packed(h)) =>
              Neat(g) /\ Kept(h, g, h.depth) /\ g.err \in {"none", "memory"} /\ (g.err = "memory" => Short(g))
<1> DEFINE m == Clobber(h.mem, h.earryl, end - 1)
           n == end - h.earryl + 1
           w == [h EXCEPT !.earryl = end, !.mem = m]
           f == [h EXCEPT !.err = "memory", !.need = n]
<1>1. h.earryl \in Nat /\ h.sstorl \in Int /\ h.mem \in Mems /\ h.depth \in Nat
  BY HeapFacts
<1>2. m \in Mems /\ n \in Nat /\ end - 1 \in Int /\ end - 1 < end /\ n > end - h.earryl
  BY <1>1, ClobberType
<1>3. g = IF h.err # "none" THEN h ELSE IF end < h.sstorl THEN w ELSE f
  BY DEF Dimensioned
<1>4. m = Clobber(h.mem, h.earryl, end - 1)
  OBVIOUS
<1> HIDE DEF m, n
<1>5. /\ w \in Heaps /\ w.depth = h.depth /\ w.exposed = h.exposed /\ w.err = h.err /\ w.mem = m /\ w.earryl = end
      /\ w.sstorl = h.sstorl /\ w.vars = h.vars /\ w.slots = h.slots
  BY <1>2 DEF Heaps
<1>6. /\ f \in Heaps /\ f.depth = h.depth /\ f.exposed = h.exposed /\ f.err = "memory" /\ f.need = n
      /\ SameData(h, f) /\ f.earryl = h.earryl /\ f.sstorl = h.sstorl
  BY <1>2 DEF Heaps, Errors, SameData
<1> HIDE DEF w, f
<1>7. ASSUME h.err # "none" PROVE g = h
  BY <1>3, <1>7
<1>8. ASSUME h.err = "none", end < h.sstorl
      PROVE  g = w /\ (Neat(h) => Neat(w) /\ Kept(h, w, h.depth))
  <2>1. g = w
    BY <1>3, <1>8
  <2>2. ASSUME Neat(h) PROVE Neat(w) /\ Kept(h, w, h.depth)
    <3>1. w.mem = Clobber(h.mem, h.earryl, end - 1) /\ h.earryl <= h.earryl /\ end - 1 < h.sstorl
          /\ h.earryl <= w.earryl /\ w.earryl <= h.sstorl /\ h.earryl \in Int
      BY <1>1, <1>2, <1>4, <1>5, <1>8
    <3>2. w \in Heaps /\ w.sstorl = h.sstorl /\ w.vars = h.vars /\ w.slots = h.slots /\ w.depth = h.depth
      BY <1>5
    <3> QED BY ONLY <1>2, <2>2, <3>1, <3>2, ClobberIs
  <2> QED BY <2>1, <2>2
<1>9. ASSUME h.err = "none", ~(end < h.sstorl)
      PROVE  g = f /\ (Neat(h) /\ Packed(h) => Neat(f) /\ Kept(h, f, h.depth) /\ Short(f))
  <2>1. g = f
    BY <1>3, <1>9
  <2>2. ASSUME Neat(h), Packed(h) PROVE Neat(f) /\ Kept(h, f, h.depth) /\ Short(f)
    <3>1. Neat(f) /\ Kept(h, f, h.depth) /\ Packed(f)
      BY <1>6, <2>2, SameDataFacts
    <3>2. f.earryl <= f.sstorl /\ f.sstorl - f.earryl < Even(f.need)
      <4>1. h.earryl <= h.sstorl /\ Even(n) \in Nat /\ Even(n) >= n
        BY <1>2, <2>2, EvenFacts DEF Neat, Ordered
      <4> QED BY <1>1, <1>2, <1>6, <1>9, <4>1
    <3> QED BY <1>6, <3>1, <3>2, PackedShort
  <2> QED BY <2>1, <2>2
<1>10. end >= h.sstorl <=> ~(end < h.sstorl)
  BY <1>1
<1> QED BY <1>5, <1>6, <1>7, <1>8, <1>9, <1>10

\* LAB_1EA1
LEMMA DimIs ==
  ASSUME NEW h \in Heaps, h.err = "none", NEW end, end = h.earryl + HeaderSize + ArrayBytes,
         NEW g, g = Dimensioned(IF end < h.sstorl THEN HeaderWritten(h) ELSE Collect(HeaderWritten(h)), end)
  PROVE  /\ g \in Heaps /\ g.depth = h.depth /\ (h.exposed => g.exposed)
         /\ Neat(h) /\ ~g.exposed /\ g.err # "wild" =>
              Neat(g) /\ Kept(h, g, h.depth) /\ g.err \in {"none", "memory"} /\ (g.err = "memory" => Short(g))
<1> DEFINE w == HeaderWritten(h)
           c == Collect(w)
           f == IF end < h.sstorl THEN w ELSE c
<1>1. end \in Nat /\ h.earryl <= end /\ h.depth \in Nat /\ h.depth <= h.depth
  BY HeapFacts, Constant DEF HeaderSize
<1>2. /\ w \in Heaps /\ w.err = h.err /\ w.depth = h.depth /\ (h.exposed => w.exposed)
      /\ w.earryl = h.earryl /\ w.sstorl = h.sstorl
      /\ Neat(h) /\ ~w.exposed => Neat(w) /\ Kept(h, w, h.depth)
  BY HeaderIs
<1> HIDE DEF w
<1>3. /\ c \in Heaps /\ c.earryl = w.earryl /\ c.depth = w.depth /\ (w.exposed => c.exposed) /\ c.err \in {w.err, "wild"}
  <2>1. c \in Heaps /\ SameButErr(Emptied(w), c)
    BY <1>2, CollectTyped
  <2>2. /\ Emptied(w).exposed = (w.exposed \/ AtFloor(w) \/ Shared(w)) /\ Emptied(w).earryl = w.earryl
        /\ Emptied(w).depth = w.depth /\ Emptied(w).err = w.err
    BY <1>2, EmptiedIs
  <2> HIDE DEF c
  <2> QED BY <2>1, <2>2 DEF SameButErr
<1>4. Neat(w) /\ ~c.exposed /\ c.err # "wild" => Neat(c) /\ Kept(w, c, w.depth) /\ Packed(c)
  BY CollectIs
<1> HIDE DEF c
<1>5. /\ f \in Heaps /\ f.earryl = h.earryl /\ f.depth = h.depth /\ (w.exposed => f.exposed) /\ f.err \in {"none", "wild"}
      /\ Neat(w) /\ ~f.exposed /\ f.err # "wild" =>
           Neat(f) /\ Kept(w, f, h.depth) /\ (end >= f.sstorl => Packed(f))
  <2>1. CASE end < h.sstorl
    <3>1. f = w
      BY <2>1
    <3>2. ~(end >= w.sstorl)
      <4>1. h.sstorl \in Int
        BY HeapFacts
      <4> QED BY <1>1, <1>2, <2>1, <4>1
    <3>3. Kept(w, w, h.depth)
      BY KeptSelf
    <3> QED BY <1>2, <3>1, <3>2, <3>3
  <2>2. CASE ~(end < h.sstorl)
    <3>1. f = c
      BY <2>2
    <3> QED BY <1>2, <1>3, <1>4, <3>1
  <2> QED BY <2>1, <2>2
<1>6. g = Dimensioned(f, end)
  BY DEF w, c
<1> HIDE DEF f
<1>7. /\ g \in Heaps /\ g.depth = f.depth /\ g.exposed = f.exposed
      /\ g.err = "wild" <=> f.err = "wild"
      /\ Neat(f) /\ f.err = "none" /\ (end >= f.sstorl => Packed(f)) =>
           Neat(g) /\ Kept(f, g, f.depth) /\ g.err \in {"none", "memory"} /\ (g.err = "memory" => Short(g))
  BY <1>1, <1>5, <1>6, DimensionedIs
<1>8. ASSUME Neat(h), ~g.exposed, g.err # "wild"
      PROVE  Neat(g) /\ Kept(h, g, h.depth) /\ g.err \in {"none", "memory"} /\ (g.err = "memory" => Short(g))
  <2>1. ~w.exposed /\ ~f.exposed /\ f.err = "none"
    BY <1>5, <1>7, <1>8
  <2>2. Neat(w) /\ Kept(h, w, h.depth)
    BY <1>2, <1>8, <2>1
  <2>3. Neat(f) /\ Kept(w, f, h.depth) /\ (end >= f.sstorl => Packed(f))
    BY <1>5, <2>1, <2>2
  <2>4. Neat(g) /\ Kept(f, g, f.depth) /\ g.err \in {"none", "memory"} /\ (g.err = "memory" => Short(g))
    BY <1>7, <2>1, <2>3
  <2>5. Kept(h, f, h.depth)
    BY <1>1, <2>2, <2>3, KeptTrans
  <2>6. Kept(h, g, h.depth)
    BY <1>1, <1>5, <2>4, <2>5, KeptTrans
  <2> QED BY <2>4, <2>6
<1> QED BY <1>2, <1>5, <1>7, <1>8

-----------------------------------------------------------------------------
(* What a routine leaves behind.                                           *)

\* Forgetting bytes and slots that nobody uses loses nothing.
LEMMA TidyIs ==
  ASSUME NEW h \in Heaps, NEW rest, NEW g, g = Tidy(h, rest)
  PROVE  /\ g \in Heaps /\ g.depth = h.depth /\ g.err = h.err /\ g.exposed = h.exposed
         /\ g.earryl = h.earryl /\ g.sstorl = h.sstorl
         /\ Neat(h) => Neat(g) /\ Kept(h, g, h.depth)
         /\ Short(h) => Short(g)
<1> DEFINE refs == {VarRef(v) : v \in Vars} \cup {StackRef(i) : i \in 1..h.depth}
                   \cup {rest[i].ref : i \in DOMAIN rest}
           owned == UNION {LET d == Get(h, r) IN d.ptr..(d.ptr + d.len - 1) : r \in refs}
           m == [a \in DOMAIN h.mem |-> IF a \in owned \/ a <= Len(Text) THEN h.mem[a] ELSE "?"]
           z == [i \in 1..StackMax |-> IF StackRef(i) \in refs THEN h.slots[i] ELSE Null]
<1>1. g = [h EXCEPT !.utl = 0, !.mem = m, !.slots = z]
  BY DEF Tidy
<1>2. Refs(h) \subseteq refs
  BY DEF Refs, OfVars
<1> HIDE DEF refs
<1>3. h.mem \in Mems /\ DOMAIN h.mem = 1..(Ememl - 1) /\ h.slots \in [1..StackMax -> Descs] /\ h.depth \in 0..StackMax
  BY HeapFacts DEF Mems
<1>4. m \in Mems
  BY <1>3 DEF Mems, Chars
<1>5. z \in [1..StackMax -> Descs]
  <2>1. Null \in Descs
    BY DEF Null, Descs
  <2> HIDE DEF refs
  <2> QED BY <1>3, <2>1
<1>6. \A i \in 1..h.depth : z[i] = h.slots[i]
  <2> SUFFICES ASSUME NEW i \in 1..h.depth PROVE z[i] = h.slots[i]
    OBVIOUS
  <2>1. i \in 1..StackMax
    BY <1>3, StackMaxIs
  <2>2. StackRef(i) \in refs
    BY <1>2 DEF Refs
  <2> QED BY <2>1, <2>2
<1>7. \A a \in owned : Byte(m, a) = Byte(h.mem, a)
  BY DEF Byte
<1>8. \A a \in 1..Len(Text) : a \in DOMAIN h.mem => m[a] = h.mem[a]
  <2>1. Len(Text) \in Nat
    BY Constant
  <2> QED BY <2>1
<1> HIDE DEF m, z, owned
<1>9. /\ g \in Heaps /\ g.depth = h.depth /\ g.err = h.err /\ g.exposed = h.exposed /\ g.need = h.need
      /\ g.earryl = h.earryl /\ g.sstorl = h.sstorl /\ g.vars = h.vars /\ g.slots = z /\ g.mem = m
  <2> DEFINE f == [h EXCEPT !.mem = m, !.slots = z]
  <2>1. /\ f \in Heaps /\ f.depth = h.depth /\ f.err = h.err /\ f.exposed = h.exposed /\ f.need = h.need
        /\ f.earryl = h.earryl /\ f.sstorl = h.sstorl /\ f.vars = h.vars /\ f.slots = z /\ f.mem = m
    BY <1>4, <1>5 DEF Heaps
  <2>2. g = [f EXCEPT !.utl = 0]
    BY <1>1 DEF Heaps
  <2> HIDE DEF f
  <2> QED BY <2>1, <2>2 DEF Heaps
<1>10. \A r \in Refs(h) : Get(g, r) = Get(h, r)
  <2> SUFFICES ASSUME NEW r \in Refs(h) PROVE Get(g, r) = Get(h, r)
    OBVIOUS
  <2>1. CASE r \in OfVars
    BY <1>9, <2>1 DEF OfVars, VarRef, Get
  <2>2. CASE r \notin OfVars
    <3>1. PICK i \in 1..h.depth : r = StackRef(i)
      BY <2>2 DEF Refs
    <3> QED BY <1>6, <1>9, <3>1 DEF StackRef, Get
  <2> QED BY <2>1, <2>2
<1>11. Refs(g) = Refs(h) /\ Refs(h) = RefsAt(h.depth)
  BY <1>9, SameRefs, RefsAtFacts
<1>12. ASSUME Neat(h) PROVE Neat(g) /\ Kept(h, g, h.depth)
  <2>1. ASSUME NEW r \in Refs(h) PROVE Read(g, Get(h, r)) = Read(h, Get(h, r))
    <3> DEFINE d == Get(h, r)
    <3>1. d.ptr..(d.ptr + d.len - 1) \subseteq owned
      <4>1. r \in refs
        BY <1>2
      <4> QED BY <4>1 DEF owned
    <3>2. d.ptr \in Int /\ d.len \in Nat
      BY RefFacts
    <3> HIDE DEF d
    <3>3. \A i \in 1..d.len : Byte(g.mem, d.ptr + i - 1) = Byte(h.mem, d.ptr + i - 1)
      <4> SUFFICES ASSUME NEW i \in 1..d.len PROVE Byte(g.mem, d.ptr + i - 1) = Byte(h.mem, d.ptr + i - 1)
        OBVIOUS
      <4>1. d.ptr + i - 1 \in d.ptr..(d.ptr + d.len - 1)
        BY <3>2
      <4> QED BY <1>7, <1>9, <3>1, <4>1
    <3> QED BY <3>3, ReadSame DEF d
  <2>2. TextKept(g)
    <3> SUFFICES ASSUME NEW a \in 1..Len(Text) PROVE g.mem[a] = Text[a]
      BY DEF TextKept
    <3>1. a \in DOMAIN h.mem
      BY <1>3, Constant
    <3> QED BY <1>8, <1>9, <1>12, <3>1 DEF Neat, TextKept
  <2>3. Neat(g)
    BY <1>9, <1>10, <1>11, <1>12, <2>2 DEF Neat, Ordered, Placed
  <2>4. Kept(h, g, h.depth)
    BY <1>10, <1>11, <2>1, KeptSame
  <2> QED BY <2>3, <2>4
<1>13. ASSUME Short(h) PROVE Short(g)
  <2>1. LiveIn(g) = LiveIn(h)
    BY <1>9, <1>10, <1>11 DEF LiveIn
  <2>2. LiveIn(h) \subseteq Refs(h)
    BY DEF LiveIn
  <2>3. UnusedIn(g) = UnusedIn(h)
    <3>1. \A r \in LiveIn(h) : Get(g, r) = Get(h, r)
      BY <1>10, <2>2
    <3> QED BY <1>9, <2>1, <3>1 DEF UnusedIn
  <2> QED BY <1>9, <1>13, <2>3 DEF Short
<1> QED BY <1>9, <1>12, <1>13

-----------------------------------------------------------------------------
(* The operands of an expression.                                          *)

\* A sequence of operands, whatever their texts are.
Shape(A) == \E T : A \in Seq([ref : OfVars \cup OnStack, text : T])

FrameShape(F) ==
  F = <<>> \/ \E v \in Vars : \E b \in Nat : \E t : F = <<[v |-> v, text |-> t, base |-> b]>>

\* The parts of a sequence of operands.
LEMMA ShapeFacts ==
  ASSUME NEW A, Shape(A)
  PROVE  Len(A) \in Nat /\ DOMAIN A = 1..Len(A) /\ \A i \in DOMAIN A : A[i].ref \in OfVars \cup OnStack
<1>1. PICK T : A \in Seq([ref : OfVars \cup OnStack, text : T])
  BY DEF Shape
<1> DEFINE R == OfVars \cup OnStack
           S == [ref : R, text : T]
<1>2. A \in Seq(S)
  BY <1>1
<1>3. \A x \in S : x.ref \in R
  OBVIOUS
<1> HIDE DEF S, R
<1>4. Len(A) \in Nat /\ DOMAIN A = 1..Len(A) /\ \A i \in DOMAIN A : A[i] \in S
  BY <1>2
<1>5. \A i \in DOMAIN A : A[i].ref \in R
  BY <1>3, <1>4
<1> QED BY <1>4, <1>5 DEF R

\* The first operands of A.
LEMMA DropIs ==
  ASSUME NEW A, Shape(A), NEW n \in Nat, n <= Len(A), NEW B, B = SubSeq(A, 1, Len(A) - n)
  PROVE  Shape(B) /\ Len(B) = Len(A) - n /\ Len(B) \in Nat /\ \A i \in DOMAIN B : B[i] = A[i] /\ i \in DOMAIN A
<1>1. PICK T : A \in Seq([ref : OfVars \cup OnStack, text : T])
  BY DEF Shape
<1> DEFINE S == [ref : OfVars \cup OnStack, text : T]
<1>2. A \in Seq(S)
  BY <1>1
<1> HIDE DEF S
<1>3. Len(A) \in Nat /\ DOMAIN A = 1..Len(A)
  BY <1>2
<1> DEFINE l == Len(A) - n
<1>4. l \in Nat /\ l <= Len(A)
  BY <1>3
<1>5. B \in Seq(S) /\ Len(B) = l /\ \A i \in 1..l : B[i] = A[i]
  <2> SUFFICES SubSeq(A, 1, l) \in Seq(S) /\ Len(SubSeq(A, 1, l)) = l /\ \A i \in 1..l : SubSeq(A, 1, l)[i] = A[i]
    OBVIOUS
  <2> HIDE DEF l
  <2>1. \A i \in 1..l : A[1 + i - 1] = A[i] /\ A[i] \in S
    BY <1>2, <1>3, <1>4
  <2>2. SubSeq(A, 1, l) = [i \in 1..l |-> A[i]]
    BY <1>2, <1>3, <1>4, <2>1
  <2>3. [i \in 1..l |-> A[i]] \in [1..l -> S]
    BY <2>1
  <2>4. \A f \in [1..l -> S] : f \in Seq(S) /\ Len(f) = l
    BY <1>4
  <2> QED BY <2>2, <2>3, <2>4
<1>6. DOMAIN B = 1..(Len(A) - n)
  BY <1>5
<1>7. \A i \in 1..(Len(A) - n) : i \in DOMAIN A
  BY <1>3, <1>4
<1> QED BY <1>4, <1>5, <1>6, <1>7 DEF Shape, S

\* All operands but the last.
LEMMA LastDropped ==
  ASSUME NEW A, Shape(A), 1 <= Len(A), NEW B, B = SubSeq(A, 1, Len(A) - 1)
  PROVE  Shape(B) /\ Len(B) = Len(A) - 1 /\ Len(B) \in Nat /\ \A i \in DOMAIN B : B[i] = A[i] /\ i \in DOMAIN A
<1> DEFINE x == 1
<1>1. x \in Nat /\ x <= Len(A) /\ B = SubSeq(A, 1, Len(A) - x)
  OBVIOUS
<1>2. x = 1
  OBVIOUS
<1> HIDE DEF x
<1>3. Shape(B) /\ Len(B) = Len(A) - x /\ Len(B) \in Nat /\ \A i \in DOMAIN B : B[i] = A[i] /\ i \in DOMAIN A
  BY <1>1, DropIs
<1> QED BY <1>2, <1>3

\* B is A with one more.
Added(A, r, t) == Append(A, Operand(r, t))

Extended(A, B, r, t) ==
  /\ Shape(B) /\ Len(B) = Len(A) + 1 /\ DOMAIN B = (DOMAIN A) \cup {Len(A) + 1}
  /\ \A i \in DOMAIN A : B[i] = A[i]
  /\ B[Len(A) + 1].ref = r /\ B[Len(A) + 1].text = t

\* One more operand.
LEMMA AddIs ==
  ASSUME NEW A, Shape(A), NEW r \in OfVars \cup OnStack, NEW t, NEW B, B = Added(A, r, t)
  PROVE  Extended(A, B, r, t)
<1>1. PICK T : A \in Seq([ref : OfVars \cup OnStack, text : T])
  BY DEF Shape
<1> DEFINE U == T \cup {t}
           S == [ref : OfVars \cup OnStack, text : U]
           x == Operand(r, t)
<1>2. [ref : OfVars \cup OnStack, text : T] \subseteq S
  OBVIOUS
<1>3. x \in S /\ x.ref = r /\ x.text = t
  BY DEF Operand
<1> DEFINE R == [ref : OfVars \cup OnStack, text : T]
<1>4. A \in Seq(R) /\ R \subseteq S
  BY <1>1, <1>2
<1> HIDE DEF S, R, x
<1>5. A \in Seq(S)
  BY <1>4
<1>6. B = Append(A, x)
  BY DEF x, Added
<1>7. Len(A) \in Nat /\ DOMAIN A = 1..Len(A)
  BY <1>5
<1>8. B \in Seq(S) /\ Len(B) = Len(A) + 1 /\ DOMAIN B = 1..(Len(A) + 1) /\ B[Len(A) + 1] = x
      /\ \A i \in 1..Len(A) : B[i] = A[i]
  BY <1>3, <1>5, <1>6, <1>7
<1>9. 1..(Len(A) + 1) = (1..Len(A)) \cup {Len(A) + 1}
  BY <1>7
<1>10. Shape(B)
  BY <1>8 DEF Shape, S
<1> QED BY <1>3, <1>7, <1>8, <1>9, <1>10 DEF Extended

\* A statement begins and ends without operands.
LEMMA NoOperands == Shape(<<>>) /\ Len(<<>>) = 0 /\ DOMAIN <<>> = {}
<1>1. <<>> \in Seq([ref : OfVars \cup OnStack, text : {}])
  OBVIOUS
<1> QED BY <1>1 DEF Shape

\* The parts of a function call.
LEMMA FrameFacts ==
  /\ \A F : FrameShape(F) /\ F # <<>> => F[1].v \in Vars /\ F[1].base \in Nat
  /\ \A v \in Vars : \A b \in Nat : \A t :
       LET F == <<[v |-> v, text |-> t, base |-> b]>>
       IN  FrameShape(F) /\ F # <<>> /\ F[1].v = v /\ F[1].text = t /\ F[1].base = b
<1>1. ASSUME NEW v \in Vars, NEW b \in Nat, NEW t
      PROVE  LET F == <<[v |-> v, text |-> t, base |-> b]>>
             IN  FrameShape(F) /\ F # <<>> /\ F[1].v = v /\ F[1].text = t /\ F[1].base = b
  BY DEF FrameShape
<1>2. ASSUME NEW F, FrameShape(F), F # <<>> PROVE F[1].v \in Vars /\ F[1].base \in Nat
  BY <1>2 DEF FrameShape
<1> QED BY <1>1, <1>2

(***************************************************************************)
(* Where the operands A are, with the descriptors of the stack up to depth *)
(* k and the call F of a function, whose variable's descriptor is saved in *)
(* slot s: in the order of the stack, those of the function's expression   *)
(* above s.  Whatever else is above s is an operand; below it, and with    *)
(* no function in progress, descriptors that FN has left may lie between.  *)
(***************************************************************************)
Framing(A, F, k, s) ==
  /\ s \in 0..k
  /\ \A i \in DOMAIN A : A[i].ref \in RefsAt(k)
  /\ \A i, j \in DOMAIN A : i < j /\ A[i].ref \in OnStack /\ A[j].ref \in OnStack => A[i].ref.at < A[j].ref.at
  /\ F = <<>> => s = 0
  /\ "fn" \notin Ops => F = <<>>
  /\ F # <<>> => /\ s > 0 /\ F[1].base <= Len(A)
                 /\ \A i \in DOMAIN A : A[i].ref \in OnStack =>
                      A[i].ref.at # s /\ (i <= F[1].base <=> A[i].ref.at < s)
  /\ F # <<>> \/ "fn" \notin Ops => \A i \in (s + 1)..k : \E j \in DOMAIN A : A[j].ref = StackRef(i)

\* The expression in progress has n operands of its own.
Has(A, F, n) == n <= Len(A) /\ (F # <<>> => F[1].base + n <= Len(A))

\* A slot in use is one of the slots up to the depth.
LEMMA StackFacts ==
  ASSUME NEW k \in Nat, NEW r \in RefsAt(k)
  PROVE  /\ r \in OnStack => r = StackRef(r.at) /\ r.at \in 1..k
         /\ r = StackRef(k) /\ k <= StackMax => r \in OnStack /\ r.at = k /\ k > 0
<1>1. \A i : StackRef(i).at = i
  BY DEF StackRef
<1>2. ASSUME r \in OnStack PROVE r = StackRef(r.at) /\ r.at \in 1..k
  <2>1. PICK i \in 1..StackMax : r = StackRef(i)
    BY <1>2 DEF OnStack
  <2>2. i \in 1..k
    BY <2>1, RefsAtFacts
  <2> QED BY <1>1, <2>1, <2>2
<1>3. ASSUME r = StackRef(k), k <= StackMax PROVE r \in OnStack /\ r.at = k /\ k > 0
  <2>1. k \in 1..k
    BY <1>3, RefsAtFacts
  <2>2. k \in 1..StackMax
    BY <1>3, <2>1, StackMaxIs
  <2> QED BY <1>1, <1>3, <2>2 DEF OnStack
<1> QED BY <1>2, <1>3

\* B is A without the last operand, t in r.
LastIs(A, B, r, t) == B = SubSeq(A, 1, Len(A) - 1) /\ r = A[Len(A)].ref /\ t = A[Len(A)].text

\* No operand is in slot r.
Free(B, r) == \A i \in DOMAIN B : B[i].ref \in OnStack => B[i].ref # r

\* The last operand is popped.
LEMMA FramingLast ==
  ASSUME NEW A, Shape(A), NEW F, FrameShape(F), NEW k \in 0..StackMax, NEW s, Framing(A, F, k, s), Has(A, F, 1),
         NEW B, NEW r, NEW t, LastIs(A, B, r, t)
  PROVE  Framing(B, F, Popped(k, r), s) /\ r \in RefsAt(k) /\ Shape(B) /\ Free(B, r)
<1> B = SubSeq(A, 1, Len(A) - 1) /\ r = A[Len(A)].ref
  BY Zenon DEF LastIs
<1>0. Shape(B)
  BY LastDropped, Zenon DEF Has
<1> DEFINE n == Len(A)
           j == Popped(k, r)
<1>1. n \in Nat /\ DOMAIN A = 1..n /\ n >= 1 /\ n \in DOMAIN A /\ k \in Nat /\ k <= StackMax
  BY ShapeFacts, StackMaxIs DEF Has
<1>2. Shape(B) /\ Len(B) = n - 1 /\ \A i \in DOMAIN B : B[i] = A[i] /\ i \in DOMAIN A
  <2>1. 1 \in Nat /\ 1 <= Len(A)
    BY <1>1
  <2>2. Len(A) - 1 = n - 1
    OBVIOUS
  <2> HIDE DEF n
  <2> QED BY <2>1, <2>2, LastDropped, Zenon
<1>3. \A i \in DOMAIN B : i \in Int /\ i < n
  <2>1. DOMAIN B = 1..(n - 1)
    BY <1>2, ShapeFacts
  <2> QED BY <1>1, <2>1
<1>4. r \in RefsAt(k)
  BY <1>1 DEF Framing
<1>5. j \in 0..k /\ j \in Nat
  BY <1>4, PoppedFacts
<1>6. /\ r \in OnStack => r = StackRef(r.at) /\ r.at \in 1..k
      /\ r = StackRef(k) => r \in OnStack /\ r.at = k /\ k > 0
  BY <1>1, <1>4, StackFacts
<1>7. ASSUME NEW i \in DOMAIN B, B[i].ref \in OnStack PROVE r \in OnStack => B[i].ref.at < r.at
  BY <1>1, <1>2, <1>3, <1>7 DEF Framing
<1>8. ASSUME NEW i \in DOMAIN B PROVE B[i].ref \in RefsAt(j)
  <2>1. B[i].ref \in RefsAt(k)
    BY <1>2 DEF Framing
  <2>2. CASE r # StackRef(k)
    BY <2>1, <2>2 DEF Popped
  <2>3. CASE r = StackRef(k) /\ B[i].ref \in OnStack
    <3>1. B[i].ref = StackRef(B[i].ref.at) /\ B[i].ref.at \in 1..k
      BY <1>1, <2>1, <2>3, StackFacts
    <3>2. B[i].ref.at \in 1..j
      BY <1>1, <1>6, <1>7, <2>3, <3>1 DEF Popped
    <3> DEFINE x == B[i].ref.at
    <3>3. B[i].ref = StackRef(x) /\ x \in 1..j
      BY <3>1, <3>2
    <3> HIDE DEF x, j
    <3> QED BY <3>3, RefsAtFacts
  <2>4. CASE B[i].ref \notin OnStack
    <3>1. B[i].ref \in OfVars
      BY <1>2, ShapeFacts, <2>4
    <3> QED BY <3>1, RefsAtFacts
  <2> QED BY <2>2, <2>3, <2>4
<1>9. s \in 0..j
  <2>1. s \in 0..k
    BY DEF Framing
  <2>2. ASSUME r = StackRef(k) PROVE s < k
    <3>1. CASE F = <<>>
      <4>1. s = 0
        BY <3>1 DEF Framing
      <4> QED BY <1>6, <2>2, <4>1
    <3>2. CASE F # <<>>
      <4>1. F[1].base \in Nat
        BY <3>2, FrameFacts
      <4>2. ~(n <= F[1].base)
        BY <1>1, <3>2, <4>1 DEF Has
      <4>3. r.at # s /\ ~(r.at < s)
        BY <1>1, <1>6, <2>2, <3>2, <4>2 DEF Framing
      <4> QED BY <1>6, <2>1, <2>2, <4>3
    <3> QED BY <3>1, <3>2
  <2> QED BY <1>1, <2>1, <2>2 DEF Popped
<1>10. ASSUME F # <<>> \/ "fn" \notin Ops, NEW i \in (s + 1)..j PROVE \E m \in DOMAIN B : B[m].ref = StackRef(i)
  <2>1. i \in (s + 1)..k /\ i \in Int /\ s \in Int /\ i <= j /\ i >= 1
    BY <1>1, <1>5, <1>9
  <2>2. PICK m \in DOMAIN A : A[m].ref = StackRef(i)
    BY <1>10, <2>1 DEF Framing
  <2>3. i \in 1..StackMax
    BY <1>1, <1>5, <2>1, StackMaxIs
  <2>4. StackRef(i) \in OnStack /\ StackRef(i).at = i
    BY <2>3 DEF OnStack, StackRef
  <2>5. m # n
    <3> SUFFICES ASSUME m = n PROVE FALSE
      OBVIOUS
    <3>1. r = StackRef(i) /\ r \in OnStack
      BY <2>2, <2>4
    <3>2. i # k
      <4> SUFFICES ASSUME i = k PROVE FALSE
        OBVIOUS
      <4>1. j = k - 1
        BY <3>1 DEF Popped
      <4> QED BY <1>1, <2>1, <4>1
    <3>3. i < k
      BY <1>1, <1>5, <2>1, <3>2
    <3>4. k \in (s + 1)..k
      BY <1>1, <2>1, <3>3
    <3>5. PICK q \in DOMAIN A : A[q].ref = StackRef(k)
      BY <1>10, <3>4 DEF Framing
    <3>6. q # n
      BY <3>1, <3>2, <3>5, RefsApart
    <3>7. q < n
      BY <1>1, <3>6
    <3>8. StackRef(k) \in OnStack /\ StackRef(k).at = k
      <4>1. k \in 1..StackMax
        BY <1>1, <2>1, <3>3, StackMaxIs
      <4> QED BY <4>1 DEF OnStack, StackRef
    <3>9. A[q].ref \in OnStack /\ A[n].ref \in OnStack /\ A[q].ref.at = k /\ A[n].ref.at = i
      BY <2>4, <3>1, <3>5, <3>8
    <3>10. A[q].ref.at < A[n].ref.at
      BY <1>1, <3>7, <3>9 DEF Framing
    <3> QED BY <1>1, <2>1, <3>3, <3>9, <3>10
  <2>6. m \in DOMAIN B
    <3>1. DOMAIN B = 1..(n - 1)
      BY <1>2, ShapeFacts
    <3> QED BY <1>1, <2>5, <3>1
  <2> QED BY <1>2, <2>2, <2>6
<1>11. F # <<>> => /\ s > 0 /\ F[1].base <= Len(B)
                   /\ \A i \in DOMAIN B : B[i].ref \in OnStack =>
                        B[i].ref.at # s /\ (i <= F[1].base <=> B[i].ref.at < s)
  <2> SUFFICES ASSUME F # <<>>
               PROVE  /\ s > 0 /\ F[1].base <= Len(B)
                      /\ \A i \in DOMAIN B : B[i].ref \in OnStack =>
                           B[i].ref.at # s /\ (i <= F[1].base <=> B[i].ref.at < s)
    OBVIOUS
  <2>1. F[1].base \in Nat
    BY FrameFacts
  <2>2. F[1].base <= Len(B)
    BY <1>1, <1>2, <2>1 DEF Has
  <2> QED BY <1>2, <2>2 DEF Framing
<1>12. \A i, m \in DOMAIN B : i < m /\ B[i].ref \in OnStack /\ B[m].ref \in OnStack => B[i].ref.at < B[m].ref.at
  BY <1>2 DEF Framing
<1>13. Framing(B, F, j, s)
  <2>1. (F = <<>> => s = 0) /\ ("fn" \notin Ops => F = <<>>)
    BY DEF Framing
  <2> HIDE DEF j
  <2> QED BY <1>8, <1>9, <1>10, <1>11, <1>12, <2>1 DEF Framing
<1>14. ASSUME NEW i \in DOMAIN B, B[i].ref \in OnStack, B[i].ref = r PROVE FALSE
  <2>1. r.at \in 1..k /\ r \in OnStack
    BY <1>6, <1>14
  <2>2. B[i].ref.at < r.at
    BY <1>7, <1>14, <2>1
  <2>3. B[i].ref.at = r.at
    BY <1>14
  <2>4. r.at \in Int
    BY <1>1, <2>1
  <2> QED BY <2>2, <2>3, <2>4
<1> QED BY <1>0, <1>4, <1>13, <1>14 DEF Free

\* A result is pushed, or a variable becomes an operand.
LEMMA AddFraming ==
  ASSUME NEW A, Shape(A), NEW F, FrameShape(F), NEW k \in Nat, NEW s, Framing(A, F, k, s), NEW r, NEW t, NEW j \in Nat,
         \/ r = StackRef(k + 1) /\ j = k + 1 /\ k + 1 <= StackMax
         \/ r \in OfVars /\ j = k,
         NEW B, B = Added(A, r, t)
  PROVE  Framing(B, F, j, s) /\ Shape(B)
<1> DEFINE n == Len(A)
<1>1. n \in Nat /\ DOMAIN A = 1..n /\ s \in 0..k
  BY ShapeFacts DEF Framing
<1>2. r \in OfVars \cup OnStack /\ (r \in OnStack => r = StackRef(k + 1) /\ r.at = k + 1 /\ j = k + 1)
  <2>1. CASE r = StackRef(k + 1) /\ j = k + 1 /\ k + 1 <= StackMax
    <3>1. k + 1 \in 1..StackMax
      BY <2>1, StackMaxIs
    <3> QED BY <2>1, <3>1 DEF OnStack, StackRef
  <2>2. CASE r \in OfVars /\ j = k
    BY <2>2, RefsApart DEF OfVars, OnStack
  <2> QED BY <2>1, <2>2
<1>3. /\ Shape(B) /\ Len(B) = n + 1 /\ DOMAIN B = (DOMAIN A) \cup {n + 1}
      /\ \A i \in DOMAIN A : B[i] = A[i]
      /\ B[n + 1].ref = r
  <2>1. r \in OfVars \cup OnStack
    BY <1>2
  <2>2. Extended(A, B, r, t)
    BY <2>1, AddIs
  <2> QED BY <2>2 DEF Extended
<1>4. RefsAt(k) \subseteq RefsAt(j) /\ r \in RefsAt(j) /\ s \in 0..j
  <2>1. CASE r = StackRef(k + 1) /\ j = k + 1
    <3>1. k <= k + 1 /\ k + 1 \in 1..(k + 1) /\ s \in 0..(k + 1)
      BY <1>1
    <3> QED BY <2>1, <3>1, RefsAtFacts
  <2>2. CASE r \in OfVars /\ j = k
    BY <1>1, <2>2, RefsAtFacts
  <2> QED BY <2>1, <2>2
<1> HIDE DEF n
<1>5. \A i \in DOMAIN A : i # n + 1 /\ i \in Nat /\ i < n + 1
  BY <1>1
<1>6. \A i \in DOMAIN B : B[i].ref \in RefsAt(j)
  BY <1>3, <1>4 DEF Framing
<1>7. \A i, m \in DOMAIN B : i < m /\ B[i].ref \in OnStack /\ B[m].ref \in OnStack => B[i].ref.at < B[m].ref.at
  <2> SUFFICES ASSUME NEW i \in DOMAIN B, NEW m \in DOMAIN B, i < m, B[i].ref \in OnStack, B[m].ref \in OnStack
               PROVE  B[i].ref.at < B[m].ref.at
    OBVIOUS
  <2>1. i \in DOMAIN A
    BY <1>1, <1>3, <1>5
  <2>2. CASE m \in DOMAIN A
    BY <1>3, <2>1, <2>2 DEF Framing
  <2>3. CASE m = n + 1
    <3>1. A[i].ref \in RefsAt(k) /\ B[i].ref = A[i].ref
      BY <1>3, <2>1 DEF Framing
    <3>2. B[i].ref.at \in 1..k
      BY <3>1, StackFacts
    <3>3. B[m].ref.at = k + 1
      BY <1>2, <1>3, <2>3
    <3> QED BY <3>2, <3>3
  <2> QED BY <1>3, <2>2, <2>3
<1>8. F # <<>> => /\ s > 0 /\ F[1].base <= Len(B)
                  /\ \A i \in DOMAIN B : B[i].ref \in OnStack =>
                       B[i].ref.at # s /\ (i <= F[1].base <=> B[i].ref.at < s)
  <2> SUFFICES ASSUME F # <<>>
               PROVE  /\ s > 0 /\ F[1].base <= Len(B)
                      /\ \A i \in DOMAIN B : B[i].ref \in OnStack =>
                           B[i].ref.at # s /\ (i <= F[1].base <=> B[i].ref.at < s)
    OBVIOUS
  <2>1. F[1].base \in Nat
    BY FrameFacts
  <2>2. s > 0 /\ F[1].base <= n
    BY DEF Framing, n
  <2>3. F[1].base <= Len(B) /\ ~(n + 1 <= F[1].base)
    BY <1>1, <1>3, <2>1, <2>2
  <2>4. ASSUME NEW i \in DOMAIN B, B[i].ref \in OnStack
        PROVE  B[i].ref.at # s /\ (i <= F[1].base <=> B[i].ref.at < s)
    <3>1. CASE i \in DOMAIN A
      BY <1>3, <2>4, <3>1 DEF Framing
    <3>2. CASE i = n + 1
      <4>1. B[i].ref.at = k + 1 /\ k + 1 # s /\ ~(k + 1 < s)
        BY <1>1, <1>2, <1>3, <2>4, <3>2
      <4> QED BY <2>3, <3>2, <4>1
    <3> QED BY <1>3, <3>1, <3>2
  <2> QED BY <2>2, <2>3, <2>4
<1>9. F # <<>> \/ "fn" \notin Ops => \A i \in (s + 1)..j : \E m \in DOMAIN B : B[m].ref = StackRef(i)
  <2> SUFFICES ASSUME F # <<>> \/ "fn" \notin Ops, NEW i \in (s + 1)..j PROVE \E m \in DOMAIN B : B[m].ref = StackRef(i)
    OBVIOUS
  <2>1. CASE i \in (s + 1)..k
    <3>1. PICK m \in DOMAIN A : A[m].ref = StackRef(i)
      BY <2>1 DEF Framing
    <3> QED BY <1>3, <3>1
  <2>2. CASE i \notin (s + 1)..k
    <3>1. i = k + 1 /\ j # k
      BY <1>1, <2>2
    <3>2. r = StackRef(i)
      BY <3>1
    <3> QED BY <1>3, <3>2
  <2> QED BY <2>1, <2>2
<1>10. (F = <<>> => s = 0) /\ ("fn" \notin Ops => F = <<>>)
  BY DEF Framing
<1> QED BY <1>3, <1>4, <1>6, <1>7, <1>8, <1>9, <1>10 DEF Framing

\* A function is entered with the operands A, its variable saved above depth k.
LEMMA EnterFraming ==
  ASSUME NEW A, Shape(A), NEW k \in Nat, NEW s, Framing(A, <<>>, k, s), "fn" \in Ops, NEW F, F # <<>>, F[1].base = Len(A)
  PROVE  Framing(A, F, k + 1, k + 1)
<1>1. RefsAt(k) \subseteq RefsAt(k + 1) /\ k + 1 \in 0..(k + 1) /\ k + 1 > 0
  BY RefsAtFacts
<1>2. Len(A) \in Nat /\ DOMAIN A = 1..Len(A)
  BY ShapeFacts
<1>3. ASSUME NEW i \in DOMAIN A, A[i].ref \in OnStack PROVE A[i].ref.at # k + 1 /\ (i <= F[1].base <=> A[i].ref.at < k + 1)
  <2>1. A[i].ref.at \in 1..k
    BY <1>3, StackFacts DEF Framing
  <2>2. A[i].ref.at # k + 1 /\ A[i].ref.at < k + 1
    BY <2>1
  <2>3. i <= F[1].base
    BY <1>2
  <2> QED BY <2>2, <2>3
<1>4. F[1].base <= Len(A)
  BY <1>2
<1>5. \A i \in (k + 1 + 1)..(k + 1) : FALSE
  OBVIOUS
<1>6. \A i \in DOMAIN A : A[i].ref \in RefsAt(k + 1)
  BY <1>1 DEF Framing
<1>7. \A i, j \in DOMAIN A : i < j /\ A[i].ref \in OnStack /\ A[j].ref \in OnStack => A[i].ref.at < A[j].ref.at
  BY DEF Framing
<1> QED BY <1>1, <1>3, <1>4, <1>5, <1>6, <1>7 DEF Framing

\* It is left when only the operands from before it remain: the saved descriptor is on top.
LEMMA LeaveFraming ==
  ASSUME NEW A, Shape(A), NEW F, FrameShape(F), F # <<>>, NEW k \in Nat, NEW s, Framing(A, F, k, s), Len(A) = F[1].base
  PROVE  s = k /\ k > 0 /\ Framing(A, <<>>, k - 1, 0)
<1>1. Len(A) \in Nat /\ DOMAIN A = 1..Len(A) /\ s \in 0..k /\ s > 0
  BY ShapeFacts DEF Framing
<1>2. \A i \in DOMAIN A : A[i].ref \in OnStack => A[i].ref.at < s
  <2>1. \A i \in DOMAIN A : i <= F[1].base
    BY <1>1
  <2> QED BY <2>1 DEF Framing
<1>3. ASSUME NEW i \in DOMAIN A, A[i].ref \in OnStack PROVE A[i].ref = StackRef(A[i].ref.at) /\ A[i].ref.at \in 1..k
  BY <1>3, StackFacts DEF Framing
<1>4. s = k
  <2> SUFFICES ASSUME s < k PROVE FALSE
    BY <1>1
  <2>1. k \in (s + 1)..k
    BY <1>1
  <2>2. PICK j \in DOMAIN A : A[j].ref = StackRef(k)
    BY <2>1 DEF Framing
  <2>3. A[j].ref \in RefsAt(k) /\ A[j].ref \in OfVars \cup OnStack
    BY ShapeFacts DEF Framing
  <2>4. A[j].ref \in OnStack
    BY <2>2, <2>3, RefsApart DEF OfVars
  <2>5. A[j].ref.at = k
    BY <2>2 DEF StackRef
  <2>6. A[j].ref.at < s
    BY <1>2, <2>4
  <2> QED BY <1>1, <2>5, <2>6
<1>5. ASSUME NEW i \in DOMAIN A PROVE A[i].ref \in RefsAt(k - 1)
  <2>1. CASE A[i].ref \in OnStack
    <3> DEFINE x == A[i].ref.at
    <3>1. x \in 1..(k - 1) /\ A[i].ref = StackRef(x)
      <4>1. x < s /\ x \in 1..k
        BY <1>2, <1>3, <2>1
      <4> QED BY <1>3, <1>4, <2>1, <4>1
    <3> HIDE DEF x
    <3> QED BY <3>1, RefsAtFacts
  <2>2. CASE A[i].ref \notin OnStack
    <3>1. A[i].ref \in OfVars
      BY <2>2, ShapeFacts
    <3> QED BY <3>1, RefsAtFacts
  <2> QED BY <2>1, <2>2
<1>6. k > 0 /\ 0 \in 0..(k - 1) /\ "fn" \in Ops
  BY <1>1, <1>4 DEF Framing
<1>7. \A i, j \in DOMAIN A : i < j /\ A[i].ref \in OnStack /\ A[j].ref \in OnStack => A[i].ref.at < A[j].ref.at
  BY DEF Framing
<1> QED BY <1>4, <1>5, <1>6, <1>7 DEF Framing

\* Between statements.
LEMMA NoFraming ==
  ASSUME NEW k \in Nat, k = 0 \/ "fn" \in Ops
  PROVE  Framing(<<>>, <<>>, k, 0)
<1>1. 0 \in 0..k /\ (k = 0 => \A i \in (0 + 1)..k : FALSE)
  OBVIOUS
<1> QED BY <1>1, NoOperands DEF Framing

-----------------------------------------------------------------------------
(* What the operands mean.                                                 *)

InUse(A, r) == r \in OnStack /\ \E i \in DOMAIN A : A[i].ref = r

\* A descriptor on the stack that nobody will pop.
Leak(A, r, s) == r \in OnStack /\ r # StackRef(s) /\ \A i \in DOMAIN A : A[i].ref # r

\* Only a leaked descriptor shares its bytes with another, and never with an operand's.
Joint(h, A, s, r, q) ==
  /\ Get(h, r).ptr = Get(h, q).ptr
  /\ ~InUse(A, r) /\ ~InUse(A, q)
  /\ Leak(A, r, s) \/ Leak(A, q, s)

Shadow(A, F, i) == F # <<>> /\ i <= F[1].base /\ A[i].ref = VarRef(F[1].v)

OperandRight(h, A, F, i) ==
  IF Shadow(A, F, i) THEN A[i].text = F[1].text ELSE Read(h, Get(h, A[i].ref)) = A[i].text

\* The variables read W, the operands their texts and the saved descriptor the one it had.
Meaning(h, A, F, W, k, s) ==
  /\ \A r, q \in RefsAt(k) : r # q => Apart(Get(h, r), Get(h, q)) \/ Joint(h, A, s, r, q)
  /\ \A v \in Vars : Read(h, Get(h, VarRef(v))) = W[v]
  /\ \A i \in DOMAIN A : OperandRight(h, A, F, i)
  /\ F # <<>> => Read(h, Get(h, StackRef(s))) = F[1].text

\* Between an error and the warm start only the variables count.
Settled(h, W) ==
  /\ \A r, q \in OfVars : r # q => Apart(Get(h, r), Get(h, q))
  /\ \A v \in Vars : Read(h, Get(h, VarRef(v))) = W[v]

\* A routine that keeps every string keeps what the program sees.
LEMMA MeaningKept ==
  ASSUME NEW h, NEW g, NEW A, NEW F, NEW W, NEW k \in Nat, NEW s, Framing(A, F, k, s), Meaning(h, A, F, W, k, s),
         Kept(h, g, k)
  PROVE  Meaning(g, A, F, W, k, s)
<1>1. \A r, q \in RefsAt(k) : r # q => Apart(Get(g, r), Get(g, q)) \/ Joint(g, A, s, r, q)
  <2> SUFFICES ASSUME NEW r \in RefsAt(k), NEW q \in RefsAt(k), r # q
               PROVE  Apart(Get(g, r), Get(g, q)) \/ Joint(g, A, s, r, q)
    OBVIOUS
  <2>1. /\ Apart(Get(h, r), Get(h, q)) => Apart(Get(g, r), Get(g, q))
        /\ Get(h, r).ptr = Get(h, q).ptr => Apart(Get(g, r), Get(g, q)) \/ Get(g, r).ptr = Get(g, q).ptr
    BY DEF Kept
  <2>2. Apart(Get(h, r), Get(h, q)) \/ Joint(h, A, s, r, q)
    BY DEF Meaning
  <2> QED BY <2>1, <2>2 DEF Joint
<1>2. \A r \in RefsAt(k) : Read(g, Get(g, r)) = Read(h, Get(h, r))
  BY DEF Kept
<1>3. \A v \in Vars : VarRef(v) \in RefsAt(k)
  BY RefsAtFacts DEF OfVars
<1>4. \A v \in Vars : Read(g, Get(g, VarRef(v))) = W[v]
  BY <1>2, <1>3 DEF Meaning
<1>5. \A i \in DOMAIN A : OperandRight(g, A, F, i)
  <2>1. \A i \in DOMAIN A : A[i].ref \in RefsAt(k)
    BY DEF Framing
  <2> QED BY <1>2, <2>1 DEF Meaning, OperandRight
<1>6. F # <<>> => Read(g, Get(g, StackRef(s))) = F[1].text
  <2> SUFFICES ASSUME F # <<>> PROVE Read(g, Get(g, StackRef(s))) = F[1].text
    OBVIOUS
  <2>1. s \in 1..k
    BY DEF Framing
  <2>2. StackRef(s) \in RefsAt(k)
    BY <2>1, RefsAtFacts
  <2> QED BY <1>2, <2>2 DEF Meaning
<1> QED BY <1>1, <1>4, <1>5, <1>6 DEF Meaning

\* When an error ends a statement the variables still have their texts.
LEMMA MeaningSettled ==
  ASSUME NEW h, NEW g, NEW A, NEW F, NEW W, NEW k \in Nat, NEW s, Meaning(h, A, F, W, k, s), Kept(h, g, 0)
  PROVE  Settled(h, W) /\ Settled(g, W)
<1>1. OfVars \subseteq RefsAt(k) /\ OfVars \subseteq RefsAt(0)
  BY RefsAtFacts
<1>2. \A r \in OfVars : r \notin OnStack
  BY RefsApart DEF OfVars, OnStack
<1>3. \A r, q \in OfVars : r # q => Apart(Get(h, r), Get(h, q))
  BY <1>1, <1>2 DEF Meaning, Joint, Leak
<1>4. \A r, q \in OfVars : r # q => Apart(Get(g, r), Get(g, q))
  BY <1>1, <1>3 DEF Kept
<1>5. \A r \in OfVars : Read(g, Get(g, r)) = Read(h, Get(h, r))
  BY <1>1 DEF Kept
<1>6. \A v \in Vars : VarRef(v) \in OfVars
  BY DEF OfVars
<1>7. \A v \in Vars : Read(g, Get(g, VarRef(v))) = W[v] /\ Read(h, Get(h, VarRef(v))) = W[v]
  BY <1>5, <1>6 DEF Meaning
<1> QED BY <1>3, <1>4, <1>7 DEF Settled

\* The last operand, and what is left without it.
LEMMA MeaningLast ==
  ASSUME NEW A, Shape(A), NEW F, FrameShape(F), NEW k \in 0..StackMax, NEW s, Framing(A, F, k, s), Has(A, F, 1),
         NEW B, NEW r, NEW t, LastIs(A, B, r, t), NEW h, NEW W, Meaning(h, A, F, W, k, s)
  PROVE  /\ Meaning(h, B, F, W, Popped(k, r), s)
         /\ Read(h, Get(h, r)) = t
         /\ h.depth = k => Solid(h, r)
<1> DEFINE n == Len(A)
           j == Popped(k, r)
<1>0. B = SubSeq(A, 1, Len(A) - 1) /\ r = A[Len(A)].ref /\ t = A[Len(A)].text
  BY Zenon DEF LastIs
<1>1. n \in Nat /\ DOMAIN A = 1..n /\ n >= 1 /\ n \in DOMAIN A /\ k \in Nat
  BY ShapeFacts, StackMaxIs DEF Has
<1>2. \A i \in DOMAIN B : B[i] = A[i] /\ i \in DOMAIN A
  BY <1>0, <1>1, LastDropped, Zenon DEF Has
<1>3. r \in RefsAt(k) /\ RefsAt(j) \subseteq RefsAt(k)
  <2>1. r \in RefsAt(k)
    BY <1>0, <1>1 DEF Framing
  <2>2. j \in Nat /\ j <= k
    BY <2>1, PoppedFacts
  <2> QED BY <1>1, <2>1, <2>2, RefsAtFacts
<1> HIDE DEF j
<1>4. \A q, p \in RefsAt(j) : q # p => Apart(Get(h, q), Get(h, p)) \/ Joint(h, B, s, q, p)
  <2> SUFFICES ASSUME NEW q \in RefsAt(j), NEW p \in RefsAt(j), q # p
               PROVE  Apart(Get(h, q), Get(h, p)) \/ Joint(h, B, s, q, p)
    OBVIOUS
  <2>1. Apart(Get(h, q), Get(h, p)) \/ Joint(h, A, s, q, p)
    BY <1>3 DEF Meaning
  <2>2. \A x : (InUse(B, x) => InUse(A, x)) /\ (Leak(A, x, s) => Leak(B, x, s))
    BY <1>2 DEF InUse, Leak
  <2> QED BY <2>1, <2>2 DEF Joint
<1>5. \A i \in DOMAIN B : OperandRight(h, B, F, i)
  BY <1>2 DEF Meaning, OperandRight, Shadow
<1>6. Meaning(h, B, F, W, j, s)
  BY <1>4, <1>5 DEF Meaning
<1>7. Read(h, Get(h, r)) = t
  <2>1. ~Shadow(A, F, n)
    <3>1. F # <<>> => F[1].base \in Nat /\ F[1].base + 1 <= n
      BY FrameFacts DEF Has
    <3> QED BY <1>1, <3>1 DEF Shadow
  <2> QED BY <1>0, <1>1, <2>1 DEF Meaning, OperandRight
<1>8. ASSUME h.depth = k PROVE Solid(h, r)
  <2> SUFFICES ASSUME r \in OnStack, NEW q \in Refs(h), q # r PROVE Apart(Get(h, r), Get(h, q))
    BY DEF Solid
  <2>1. q \in RefsAt(k)
    BY <1>8, RefsAtFacts
  <2>2. InUse(A, r)
    BY <1>0, <1>1 DEF InUse
  <2> QED BY <1>3, <2>1, <2>2 DEF Meaning, Joint
<1> QED BY <1>6, <1>7, <1>8 DEF j

\* A new string becomes the last operand.
LEMMA MeaningPush ==
  ASSUME NEW h, NEW A, Shape(A), NEW F, FrameShape(F), NEW W, NEW k \in Nat, k + 1 <= StackMax, NEW s,
         Framing(A, F, k, s), Meaning(h, A, F, W, k, s), NEW t,
         Read(h, Get(h, StackRef(k + 1))) = t,
         \A r \in RefsAt(k) : Apart(Get(h, StackRef(k + 1)), Get(h, r)),
         NEW B, B = Added(A, StackRef(k + 1), t)
  PROVE  Meaning(h, B, F, W, k + 1, s)
<1> DEFINE x == StackRef(k + 1)
           n == Len(A)
<1>1. x \in OnStack /\ x \notin OfVars /\ x \notin RefsAt(k) /\ RefsAt(k + 1) = RefsAt(k) \cup {x}
  <2>1. k + 1 \in 1..StackMax
    BY StackMaxIs
  <2> QED BY <2>1, RefsAtFacts, RefsApart DEF OnStack, OfVars
<1>2. n \in Nat /\ DOMAIN A = 1..n /\ \A i \in DOMAIN A : A[i].ref \in RefsAt(k)
  BY ShapeFacts DEF Framing
<1>3. Extended(A, B, x, t)
  BY <1>1, AddIs
<1>4. /\ DOMAIN B = (DOMAIN A) \cup {n + 1}
      /\ \A i \in DOMAIN A : B[i] = A[i]
      /\ B[n + 1].ref = x /\ B[n + 1].text = t
  BY <1>3 DEF Extended
<1> HIDE DEF n, x
<1>5. \A r, q \in RefsAt(k + 1) : r # q => Apart(Get(h, r), Get(h, q)) \/ Joint(h, B, s, r, q)
  <2>1. \A r \in RefsAt(k) : (InUse(B, r) => InUse(A, r)) /\ (Leak(A, r, s) => Leak(B, r, s))
    BY <1>1, <1>4 DEF InUse, Leak
  <2>2. \A r, q \in RefsAt(k) : r # q => Apart(Get(h, r), Get(h, q)) \/ Joint(h, B, s, r, q)
    BY <2>1 DEF Meaning, Joint
  <2>3. \A r \in RefsAt(k) : Apart(Get(h, x), Get(h, r)) /\ Apart(Get(h, r), Get(h, x))
    BY ApartSym DEF x
  <2> QED BY <1>1, <2>2, <2>3
<1>6. \A i \in DOMAIN B : OperandRight(h, B, F, i)
  <2> SUFFICES ASSUME NEW i \in DOMAIN B PROVE OperandRight(h, B, F, i)
    OBVIOUS
  <2>1. CASE i \in DOMAIN A
    BY <1>4, <2>1 DEF Meaning, OperandRight, Shadow
  <2>2. CASE i = n + 1
    <3>1. ~Shadow(B, F, i)
      <4>1. F # <<>> => F[1].v \in Vars
        BY FrameFacts
      <4> QED BY <1>1, <1>4, <2>2, <4>1 DEF Shadow, OfVars
    <3> QED BY <1>4, <2>2, <3>1 DEF OperandRight, x
  <2> QED BY <1>4, <2>1, <2>2
<1> QED BY <1>5, <1>6 DEF Meaning

\* A variable becomes the last operand.
LEMMA MeaningVar ==
  ASSUME NEW h, NEW A, Shape(A), NEW F, FrameShape(F), NEW W, NEW k \in Nat, NEW s,
         Framing(A, F, k, s), Meaning(h, A, F, W, k, s), NEW v \in Vars,
         NEW B, B = Added(A, VarRef(v), W[v])
  PROVE  Meaning(h, B, F, W, k, s)
<1> DEFINE x == VarRef(v)
           n == Len(A)
<1>1. x \in OfVars /\ x \notin OnStack /\ \A r \in OnStack : r # x
  BY RefsApart DEF OnStack, OfVars
<1>2. n \in Nat /\ DOMAIN A = 1..n
  BY ShapeFacts
<1>3. Extended(A, B, x, W[v])
  BY <1>1, AddIs
<1>4. /\ DOMAIN B = (DOMAIN A) \cup {n + 1}
      /\ \A i \in DOMAIN A : B[i] = A[i]
      /\ B[n + 1].ref = x /\ B[n + 1].text = W[v]
  BY <1>3 DEF Extended
<1>5. F # <<>> => F[1].base \in Nat /\ F[1].base <= n
  BY FrameFacts DEF Framing
<1> HIDE DEF n, x
<1>6. \A r : (InUse(B, r) => InUse(A, r)) /\ (Leak(A, r, s) => Leak(B, r, s))
  BY <1>1, <1>4 DEF InUse, Leak
<1>7. \A r, q \in RefsAt(k) : r # q => Apart(Get(h, r), Get(h, q)) \/ Joint(h, B, s, r, q)
  BY <1>6 DEF Meaning, Joint
<1>8. \A i \in DOMAIN B : OperandRight(h, B, F, i)
  <2> SUFFICES ASSUME NEW i \in DOMAIN B PROVE OperandRight(h, B, F, i)
    OBVIOUS
  <2>1. CASE i \in DOMAIN A
    BY <1>4, <2>1 DEF Meaning, OperandRight, Shadow
  <2>2. CASE i = n + 1
    <3>1. ~Shadow(B, F, i)
      BY <1>2, <1>5, <2>2 DEF Shadow
    <3> QED BY <1>4, <2>2, <3>1 DEF OperandRight, Meaning, x
  <2> QED BY <1>4, <2>1, <2>2
<1> QED BY <1>7, <1>8 DEF Meaning

-----------------------------------------------------------------------------
(* The inductive invariant.                                                *)

\* In a program that is running.
Sound(h, A, W, F) ==
  \E s : /\ Framing(A, F, h.depth, s)
         /\ h.exposed \/ (Neat(h) /\ Meaning(h, A, F, W, h.depth, s))

\* In one that is about to report an error.
Stopped(h, W) == Neat(h) /\ Settled(h, W) /\ (h.err = "memory" => Short(h))

Inv(h, A, W, F) ==
  /\ h \in Heaps /\ Shape(A) /\ FrameShape(F) /\ W = [v \in Vars |-> W[v]]
  /\ h.err = "none" => Sound(h, A, W, F)
  /\ h.err \notin {"none", "wild"} /\ ~h.exposed => Stopped(h, W)

\* What is kept up to a depth is kept up to any smaller one.
LEMMA KeptLess ==
  ASSUME NEW h, NEW g, NEW k \in Nat, NEW j \in Nat, j <= k, Kept(h, g, k)
  PROVE  Kept(h, g, j)
<1>1. Kept(g, g, j)
  BY KeptSelf
<1> QED BY <1>1, KeptTrans

\* An error: the operands stay, to be forgotten by the warm start.
LEMMA StoppedIs ==
  ASSUME NEW h, NEW B, NEW F, NEW W, NEW j \in Nat, NEW s, Meaning(h, B, F, W, j, s),
         NEW g \in Heaps, Failed(h, g), NEW L, NEW x, x = Tidy(g, L)
  PROVE  Stopped(x, W)
<1>1. Neat(g) /\ Kept(h, g, 0) /\ (g.err = "memory" => Short(g)) /\ g.depth \in Nat /\ 0 <= g.depth /\ 0 \in Nat /\ 0 <= 0
  BY HeapFacts DEF Failed
<1>2. /\ x.err = g.err /\ Neat(x) /\ Kept(g, x, g.depth)
      /\ Short(g) => Short(x)
  BY <1>1, TidyIs
<1>3. Kept(g, x, 0)
  BY <1>1, <1>2, KeptLess
<1>4. Kept(h, x, 0)
  BY <1>1, <1>3, KeptTrans
<1>5. Settled(x, W)
  BY <1>4, MeaningSettled
<1> QED BY <1>1, <1>2, <1>5 DEF Stopped

\* A routine has pushed the string t; B are the operands it has left.
LEMMA YieldsIs ==
  ASSUME NEW h \in Heaps, NEW A, Shape(A), NEW B, Shape(B), NEW F, FrameShape(F), NEW W, W = [v \in Vars |-> W[v]],
         NEW j \in Nat, NEW s, Framing(B, F, j, s), h.exposed \/ (Neat(h) /\ Meaning(h, B, F, W, j, s)),
         NEW g, NEW t, Typed(h, g, j), Neat(h) /\ ~g.exposed /\ g.err # "wild" => Result(h, g, j, t),
         NEW L, L = IF g.err = "none" THEN Added(B, Top(g), t) ELSE A,
         NEW x, x = Tidy(g, L)
  PROVE  Inv(x, L, W, F)
<1>1. g \in Heaps /\ (h.exposed => g.exposed) /\ (g.err = "none" => g.depth = j + 1)
  BY DEF Typed
<1>2. /\ x \in Heaps /\ x.depth = g.depth /\ x.err = g.err /\ x.exposed = g.exposed
      /\ Neat(g) => Neat(x) /\ Kept(g, x, g.depth)
  BY <1>1, TidyIs
<1>3. CASE g.err = "none"
  <2> DEFINE r == StackRef(j + 1)
  <2>1. L = Added(B, r, t) /\ j + 1 \in Nat /\ j + 1 <= StackMax
    <3>1. g.depth \in 0..StackMax
      BY <1>1, HeapFacts
    <3> QED BY <1>1, <1>3, <3>1, StackMaxIs DEF Top
  <2>2. Framing(L, F, j + 1, s) /\ Shape(L)
    BY <2>1, AddFraming
  <2>3. ASSUME ~x.exposed PROVE Neat(x) /\ Meaning(x, L, F, W, j + 1, s)
    <3>1. ~g.exposed /\ ~h.exposed
      BY <1>1, <1>2, <2>3
    <3>2. Yielded(h, g, j, t) /\ Meaning(h, B, F, W, j, s)
      BY <1>3, <3>1 DEF Result
    <3>3. /\ g.depth = j + 1 /\ Neat(g) /\ Kept(h, g, j)
          /\ Read(g, Get(g, r)) = t /\ \A q \in RefsAt(j) : Apart(Get(g, r), Get(g, q))
      BY <3>2 DEF Yielded
    <3>4. Meaning(g, B, F, W, j, s)
      BY <3>2, <3>3, MeaningKept
    <3>5. Meaning(g, L, F, W, j + 1, s)
      BY <2>1, <3>3, <3>4, MeaningPush
    <3>6. Neat(x) /\ Kept(g, x, j + 1)
      BY <1>2, <3>3
    <3>7. Meaning(x, L, F, W, j + 1, s)
      BY <2>1, <2>2, <3>5, <3>6, MeaningKept
    <3> QED BY <3>6, <3>7
  <2>4. x.depth = j + 1 /\ x.exposed \in BOOLEAN
    BY <1>1, <1>2, <1>3, HeapFacts
  <2>5. Sound(x, L, W, F)
    BY <2>2, <2>3, <2>4 DEF Sound
  <2> QED BY <1>2, <1>3, <2>2, <2>5 DEF Inv
<1>4. CASE g.err # "none"
  <2>1. L = A
    BY <1>4
  <2>2. ASSUME g.err # "wild", ~x.exposed PROVE Stopped(x, W)
    <3>1. ~g.exposed /\ ~h.exposed
      BY <1>1, <1>2, <2>2
    <3>2. Meaning(h, B, F, W, j, s) /\ Failed(h, g)
      BY <1>4, <2>2, <3>1 DEF Result
    <3> QED BY <1>1, <3>2, StoppedIs
  <2> QED BY <1>2, <1>4, <2>1, <2>2 DEF Inv
<1> QED BY <1>3, <1>4

\* A routine has left the operands B.
LEMMA LeavesIs ==
  ASSUME NEW h \in Heaps, NEW A, Shape(A), NEW B, Shape(B), NEW F, FrameShape(F), NEW W, W = [v \in Vars |-> W[v]],
         NEW j \in Nat, NEW s, Framing(B, F, j, s), h.exposed \/ (Neat(h) /\ Meaning(h, B, F, W, j, s)),
         NEW g \in Heaps, h.exposed => g.exposed, g.err = "none" => g.depth = j,
         Neat(h) /\ ~g.exposed /\ g.err # "wild" => IF g.err = "none" THEN Neat(g) /\ Kept(h, g, j) ELSE Failed(h, g),
         NEW L, L = IF g.err = "none" THEN B ELSE A,
         NEW x, x = Tidy(g, L)
  PROVE  Inv(x, L, W, F)
<1>1. /\ x \in Heaps /\ x.depth = g.depth /\ x.err = g.err /\ x.exposed = g.exposed
      /\ Neat(g) => Neat(x) /\ Kept(g, x, g.depth)
  BY TidyIs
<1>2. CASE g.err = "none"
  <2>1. L = B
    BY <1>2
  <2>2. ASSUME ~x.exposed PROVE Neat(x) /\ Meaning(x, B, F, W, j, s)
    <3>1. Neat(g) /\ Kept(h, g, j) /\ Meaning(h, B, F, W, j, s)
      BY <1>1, <1>2, <2>2
    <3>2. Meaning(g, B, F, W, j, s)
      BY <3>1, MeaningKept
    <3>3. Neat(x) /\ Kept(g, x, j)
      BY <1>1, <1>2, <3>1
    <3> QED BY <3>2, <3>3, MeaningKept
  <2>3. x.depth = j /\ x.exposed \in BOOLEAN
    BY <1>1, <1>2, HeapFacts
  <2>4. Sound(x, L, W, F)
    BY <2>1, <2>2, <2>3 DEF Sound
  <2> QED BY <1>1, <1>2, <2>1, <2>4 DEF Inv
<1>3. CASE g.err # "none"
  <2>1. L = A
    BY <1>3
  <2>2. ASSUME g.err # "wild", ~x.exposed PROVE Stopped(x, W)
    <3>1. Meaning(h, B, F, W, j, s) /\ Failed(h, g)
      BY <1>1, <1>3, <2>2
    <3> QED BY <3>1, StoppedIs
  <2> QED BY <1>1, <1>3, <2>1, <2>2 DEF Inv
<1> QED BY <1>2, <1>3

-----------------------------------------------------------------------------
(* Every action keeps the invariant.                                       *)

State     == Inv(heap, args, want, frames)

\* What the invariant says while a statement is being executed.
LEMMA Going ==
  ASSUME State, heap.err = "none"
  PROVE  /\ heap \in Heaps /\ Shape(args) /\ FrameShape(frames) /\ want = [v \in Vars |-> want[v]]
         /\ heap.depth \in Nat /\ heap.depth \in 0..StackMax /\ Refs(heap) = RefsAt(heap.depth)
         /\ \E s : /\ Framing(args, frames, heap.depth, s)
                   /\ heap.exposed \/ (Neat(heap) /\ Meaning(heap, args, frames, want, heap.depth, s))
BY HeapFacts, RefsAtFacts DEF State, Inv, Sound

\* The bytes of a descriptor in the program text.
LEMMA LiteralFacts ==
  ASSUME NEW d \in Literals
  PROVE  d \in Descs /\ d.ptr \in Int /\ d.len \in Nat /\ InText(d)
<1>1. d \in [ptr : 1..Len(Text), len : Nat] /\ d.ptr + d.len <= Len(Text) + 1
  BY StringSpaceAssumption
<1>2. Len(Text) \in Int
  BY Constant
<1> QED BY <1>1, <1>2 DEF Descs, InText

\* A string literal is pushed.
LEMMA LiteralStep ==
  ASSUME State, NEW d \in Literals, Literal(d)
  PROVE  State'
<1>1. heap.err = "none" /\ want' = want /\ frames' = frames
  BY DEF Literal, Running
<1>2. PICK s : /\ Framing(args, frames, heap.depth, s)
               /\ heap.exposed \/ (Neat(heap) /\ Meaning(heap, args, frames, want, heap.depth, s))
  BY <1>1, Going
<1> DEFINE g == Push(heap, d)
           t == Read(heap, d)
<1>3. /\ args' = IF g.err = "none" THEN Added(args, Top(g), t) ELSE args
      /\ heap' = Tidy(g, args')
  BY DEF Literal, Yields, Becomes, Added
<1>4. d \in Descs /\ InText(d)
  BY LiteralFacts
<1>5. Typed(heap, g, heap.depth)
  <2>1. /\ g \in Heaps /\ g.earryl = heap.earryl /\ g.exposed = heap.exposed
        /\ g.err = "none" => g.depth = heap.depth + 1
    BY <1>1, <1>4, Going, PushTyped
  <2> QED BY <2>1 DEF Typed
<1>6. Neat(heap) => Result(heap, g, heap.depth, t)
  <2> SUFFICES ASSUME Neat(heap) PROVE Result(heap, g, heap.depth, t)
    OBVIOUS
  <2>1. Placed(heap, d) /\ \A r \in RefsAt(heap.depth) : Apart(d, Get(heap, r))
    BY <1>4 DEF Placed, Apart
  <2>2. Kept(heap, heap, heap.depth)
    BY KeptSelf
  <2> QED BY <1>1, <1>4, <2>1, <2>2, YieldPush
<1> HIDE DEF g, t
<1>7. Inv(heap', args', want, frames)
  BY <1>1, <1>2, <1>3, <1>5, <1>6, Going, YieldsIs
<1> QED BY <1>1, <1>7 DEF State

\* The strings CHR$ and its like make consist of characters.
LEMMA MadeFacts ==
  ASSUME NEW s \in Made
  PROVE  s \in Seq(Chars)
<1> DEFINE S == STRING
           C == Chars
<1>1. s \in Seq(S)
  BY StringSpaceAssumption
<1> HIDE DEF S
<1>2. Len(s) \in Nat /\ DOMAIN s = 1..Len(s) /\ s = [i \in 1..Len(s) |-> s[i]]
  BY <1>1
<1>3. \A i \in 1..Len(s) : s[i] \in C
  BY <1>2 DEF Chars
<1> HIDE DEF C
<1>4. s \in [1..Len(s) -> C]
  BY <1>2, <1>3
<1>5. s \in Seq(C)
  BY <1>2, <1>4
<1> QED BY <1>5 DEF C

\* CHR$ and its like make a string.
LEMMA NewStringStep ==
  ASSUME State, NEW t \in Made, NewString(t)
  PROVE  State'
<1>1. heap.err = "none" /\ want' = want /\ frames' = frames
  BY DEF NewString, Running
<1>2. PICK s : /\ Framing(args, frames, heap.depth, s)
               /\ heap.exposed \/ (Neat(heap) /\ Meaning(heap, args, frames, want, heap.depth, s))
  BY <1>1, Going
<1> DEFINE g == Written(Make(heap, Len(t), 0), t)
<1>3. /\ args' = IF g.err = "none" THEN Added(args, Top(g), t) ELSE args
      /\ heap' = Tidy(g, args')
  BY DEF NewString, Yields, Becomes, Added
<1>4. /\ Typed(heap, g, heap.depth)
      /\ Neat(heap) /\ ~g.exposed /\ g.err # "wild" => Result(heap, g, heap.depth, t)
  <2>1. t \in Seq(Chars) /\ heap \in Heaps
    BY <1>1, MadeFacts, Going
  <2> QED BY <1>1, <2>1, NewStringIs
<1> HIDE DEF g
<1>5. Inv(heap', args', want, frames)
  BY <1>1, <1>2, <1>3, <1>4, Going, YieldsIs
<1> QED BY <1>1, <1>5 DEF State

\* A variable becomes an operand where it is.
LEMMA VariableStep ==
  ASSUME State, NEW v \in Vars, Variable(v)
  PROVE  State'
<1>1. heap.err = "none" /\ heap' = heap /\ want' = want /\ frames' = frames
      /\ args' = Added(args, VarRef(v), want[v])
  BY DEF Variable, Running, Added
<1>2. PICK s : /\ Framing(args, frames, heap.depth, s)
               /\ heap.exposed \/ (Neat(heap) /\ Meaning(heap, args, frames, want, heap.depth, s))
  BY <1>1, Going
<1>3. VarRef(v) \in OfVars
  BY DEF OfVars
<1>4. Framing(args', frames, heap.depth, s) /\ Shape(args')
  BY <1>1, <1>2, <1>3, Going, AddFraming
<1>5. Meaning(heap, args, frames, want, heap.depth, s) => Meaning(heap, args', frames, want, heap.depth, s)
  BY <1>1, <1>2, Going, MeaningVar
<1>6. Sound(heap, args', want, frames)
  BY <1>2, <1>4, <1>5 DEF Sound
<1> QED BY <1>1, <1>4, <1>6, Going DEF State, Inv

\* FRE() collects in the middle of an expression.
LEMMA FreStep ==
  ASSUME State, Fre
  PROVE  State'
<1>1. heap.err = "none" /\ want' = want /\ frames' = frames
  BY DEF Fre, Running
<1>2. PICK s : /\ Framing(args, frames, heap.depth, s)
               /\ heap.exposed \/ (Neat(heap) /\ Meaning(heap, args, frames, want, heap.depth, s))
  BY <1>1, Going
<1> DEFINE g == Collect(heap)
<1>3. /\ args' = IF g.err = "none" THEN args ELSE args
      /\ heap' = Tidy(g, args')
  BY DEF Fre, Becomes
<1>4. heap \in Heaps
  BY <1>1, Going
<1>5. /\ g \in Heaps /\ (heap.exposed => g.exposed) /\ g.depth = heap.depth /\ g.err \in {"none", "wild"}
  <2>1. g \in Heaps /\ SameButErr(Emptied(heap), g)
    BY <1>4, CollectTyped
  <2>2. Emptied(heap).exposed = (heap.exposed \/ AtFloor(heap) \/ Shared(heap)) /\ Emptied(heap).depth = heap.depth
        /\ Emptied(heap).err = heap.err
    BY <1>4, EmptiedIs
  <2> HIDE DEF g
  <2> QED BY <1>1, <2>1, <2>2 DEF SameButErr
<1>6. Neat(heap) /\ ~g.exposed /\ g.err # "wild" => Neat(g) /\ Kept(heap, g, heap.depth)
  BY CollectIs
<1> HIDE DEF g
<1>7. Neat(heap) /\ ~g.exposed /\ g.err # "wild" =>
        IF g.err = "none" THEN Neat(g) /\ Kept(heap, g, heap.depth) ELSE Failed(heap, g)
  BY <1>5, <1>6
<1>8. Inv(heap', args', want, frames)
  BY <1>1, <1>2, <1>3, <1>5, <1>7, Going, LeavesIs
<1> QED BY <1>1, <1>8 DEF State

\* The last operand, the descriptor it is in, and the operands before it.
LEMMA LastOperand ==
  ASSUME State, heap.err = "none", Have(1), NEW B, B = Drop(1), NEW r, r = Arg(1).ref
  PROVE  /\ r \in Refs(heap) /\ Shape(B) /\ Popped(heap.depth, r) \in 0..StackMax /\ Popped(heap.depth, r) \in Nat
         /\ Arg(1) = args[Len(args)] /\ Has(args, frames, 1)
         /\ \E s : /\ Framing(B, frames, Popped(heap.depth, r), s)
                   /\ heap.exposed \/ /\ Neat(heap) /\ Solid(heap, r) /\ Read(heap, Get(heap, r)) = Arg(1).text
                                      /\ Meaning(heap, B, frames, want, Popped(heap.depth, r), s)
<1>1. PICK s : /\ Framing(args, frames, heap.depth, s)
               /\ heap.exposed \/ (Neat(heap) /\ Meaning(heap, args, frames, want, heap.depth, s))
  BY Going
<1>2. Len(args) \in Nat /\ Shape(args) /\ FrameShape(frames)
  BY Going, ShapeFacts
<1>3. frames # <<>> => frames[1].base \in Nat
  BY <1>2, FrameFacts
<1>4. Has(args, frames, 1)
  BY <1>2, <1>3 DEF Have, Has
<1>5. Arg(1) = args[Len(args)]
  <2>1. Len(args) + 1 - 1 = Len(args)
    BY <1>2
  <2> QED BY <2>1, Zenon DEF Arg
<1>6. LastIs(args, B, r, Arg(1).text)
  BY <1>5, Zenon DEF Drop, LastIs
<1>7. heap.depth \in 0..StackMax
  BY Going
<1>8. Framing(B, frames, Popped(heap.depth, r), s) /\ r \in RefsAt(heap.depth) /\ Shape(B)
  BY <1>1, <1>2, <1>4, <1>6, <1>7, FramingLast
<1>9. r \in Refs(heap) /\ Popped(heap.depth, r) \in 0..StackMax /\ Popped(heap.depth, r) \in Nat
  BY <1>7, <1>8, Going, PoppedFacts
<1>10. Meaning(heap, args, frames, want, heap.depth, s) =>
         /\ Meaning(heap, B, frames, want, Popped(heap.depth, r), s)
         /\ Read(heap, Get(heap, r)) = Arg(1).text /\ Solid(heap, r)
  BY <1>1, <1>2, <1>4, <1>6, <1>7, MeaningLast
<1> QED BY <1>1, <1>4, <1>5, <1>8, <1>9, <1>10

\* PRINT and the other users of one string pop it.
LEMMA ConsumeStep ==
  ASSUME State, Consume
  PROVE  State'
<1>1. heap.err = "none" /\ want' = want /\ frames' = frames /\ Have(1)
  BY DEF Consume, Running
<1> DEFINE r == Arg(1).ref
           B == Drop(1)
           j == Popped(heap.depth, r)
           g == Pop(heap, r)
<1>2. /\ args' = IF g.err = "none" THEN B ELSE args
      /\ heap' = Tidy(g, args')
  BY DEF Consume, Becomes
<1>3. r \in Refs(heap) /\ Shape(B) /\ j \in Nat
  BY <1>1, LastOperand
<1>4. PICK s : /\ Framing(B, frames, j, s)
               /\ heap.exposed \/ (Neat(heap) /\ Solid(heap, r) /\ Meaning(heap, B, frames, want, j, s))
  BY <1>1, LastOperand
<1>5. g \in Heaps /\ g.exposed = heap.exposed /\ g.err = "none" /\ g.depth = j
  BY <1>1, <1>3, Going, PopTyped
<1>6. Neat(heap) /\ Solid(heap, r) => Neat(g) /\ Kept(heap, g, j)
  BY <1>1, <1>3, <1>5, Going, SolidTop, PopIs
<1> HIDE DEF r, B, j, g
<1>7. heap.exposed \/ (Neat(heap) /\ Meaning(heap, B, frames, want, j, s))
  BY <1>4
<1>8. Neat(heap) /\ ~g.exposed /\ g.err # "wild" =>
        IF g.err = "none" THEN Neat(g) /\ Kept(heap, g, j) ELSE Failed(heap, g)
  BY <1>4, <1>5, <1>6
<1>9. Inv(heap', args', want, frames)
  BY <1>1, <1>2, <1>3, <1>4, <1>5, <1>7, <1>8, Going, LeavesIs
<1> QED BY <1>1, <1>9 DEF State

\* LCASE$ pops its operand before it makes space.
LEMMA LCaseStep ==
  ASSUME State, LCase
  PROVE  State'
<1>1. heap.err = "none" /\ want' = want /\ frames' = frames /\ Have(1)
  BY DEF LCase, Running
<1> DEFINE r == Arg(1).ref
           B == Drop(1)
           j == Popped(heap.depth, r)
           g == LowerCase(heap, r)
           text == Arg(1).text
           t == [i \in DOMAIN text |-> Lower(text[i])]
           low == [i \in 1..Get(heap, r).len |-> Lower(Read(heap, Get(heap, r))[i])]
<1>2. /\ args' = IF g.err = "none" THEN Added(B, Top(g), t) ELSE args
      /\ heap' = Tidy(g, args')
  BY DEF LCase, Yields, Becomes, Added
<1>3. r \in Refs(heap) /\ Shape(B) /\ j \in Nat
  BY <1>1, LastOperand
<1>4. PICK s : /\ Framing(B, frames, j, s)
               /\ heap.exposed \/ (Neat(heap) /\ Solid(heap, r) /\ Read(heap, Get(heap, r)) = text /\ Meaning(heap, B, frames, want, j, s))
  BY <1>1, LastOperand
<1>5. Typed(heap, g, j) /\ (Neat(heap) /\ Solid(heap, r) /\ ~g.exposed /\ g.err # "wild" => Result(heap, g, j, low))
  BY <1>1, <1>3, Going, LowerCaseIs
<1>6. Read(heap, Get(heap, r)) = text => low = t
  <2>1. DOMAIN Read(heap, Get(heap, r)) = 1..Get(heap, r).len
    BY DEF Read
  <2> QED BY <2>1
<1> HIDE DEF r, B, j, g, text, t, low
<1>7. heap.exposed \/ (Neat(heap) /\ Meaning(heap, B, frames, want, j, s))
  BY <1>4
<1>8. heap.exposed => g.exposed
  BY <1>5 DEF Typed
<1>9. Neat(heap) /\ ~g.exposed /\ g.err # "wild" => Result(heap, g, j, t)
  BY <1>4, <1>5, <1>6, <1>8
<1>10. Inv(heap', args', want, frames)
  BY <1>1, <1>2, <1>3, <1>4, <1>5, <1>7, <1>9, Going, YieldsIs
<1> QED BY <1>1, <1>10 DEF State

\* An array or a variable is made between statements.
LEMMA NewVariableStep ==
  ASSUME State, NewVariable
  PROVE  State'
<1>1. heap.err = "none" /\ want' = want /\ frames' = frames
  BY DEF NewVariable, Running
<1> DEFINE g == Widened(heap)
           j == heap.depth
<1>2. /\ args' = IF g.err = "none" THEN args ELSE args
      /\ heap' = Tidy(g, args')
  BY DEF NewVariable, Becomes, Widened
<1>3. PICK s : /\ Framing(args, frames, j, s)
               /\ heap.exposed \/ (Neat(heap) /\ Meaning(heap, args, frames, want, j, s))
  BY <1>1, Going
<1>4. /\ g \in Heaps /\ g.err = "none" /\ g.depth = j /\ (heap.exposed => g.exposed)
      /\ Neat(heap) /\ ~g.exposed => Neat(g) /\ Kept(heap, g, j)
  <2>1. heap \in Heaps
    BY <1>1, Going
  <2> QED BY <1>1, <2>1, NewVariableIs
<1>5. j \in Nat
  BY <1>1, Going
<1> HIDE DEF g, j
<1>6. Neat(heap) /\ ~g.exposed /\ g.err # "wild" =>
        IF g.err = "none" THEN Neat(g) /\ Kept(heap, g, j) ELSE Failed(heap, g)
  BY <1>4
<1>7. Inv(heap', args', want, frames)
  BY <1>1, <1>2, <1>3, <1>4, <1>5, <1>6, Going, LeavesIs
<1> QED BY <1>1, <1>7 DEF State

\* DIM makes an array between statements.
LEMMA DimStep ==
  ASSUME State, Dim
  PROVE  State'
<1>1. heap.err = "none" /\ want' = want /\ frames' = frames
  BY DEF Dim, Running
<1> DEFINE end == heap.earryl + HeaderSize + ArrayBytes
           g == Dimensioned(IF end < heap.sstorl THEN HeaderWritten(heap) ELSE Collect(HeaderWritten(heap)), end)
           j == heap.depth
<1>2. /\ args' = IF g.err = "none" THEN args ELSE args
      /\ heap' = Tidy(g, args')
  BY DEF Dim, Becomes
<1>3. PICK s : /\ Framing(args, frames, j, s)
               /\ heap.exposed \/ (Neat(heap) /\ Meaning(heap, args, frames, want, j, s))
  BY <1>1, Going
<1>4. /\ g \in Heaps /\ g.depth = j /\ (heap.exposed => g.exposed)
      /\ Neat(heap) /\ ~g.exposed /\ g.err # "wild" =>
           Neat(g) /\ Kept(heap, g, j) /\ g.err \in {"none", "memory"} /\ (g.err = "memory" => Short(g))
  <2>1. heap \in Heaps
    BY <1>1, Going
  <2> QED BY <1>1, <2>1, DimIs
<1>5. j \in Nat
  BY <1>1, Going
<1> HIDE DEF end, g, j
<1>6. Neat(heap) /\ ~g.exposed /\ g.err # "wild" =>
        IF g.err = "none" THEN Neat(g) /\ Kept(heap, g, j) ELSE Failed(heap, g)
  <2>1. Kept(heap, g, j) => Kept(heap, g, 0)
    BY <1>5, KeptLess
  <2> QED BY <1>4, <2>1 DEF Failed
<1>7. Inv(heap', args', want, frames)
  BY <1>1, <1>2, <1>3, <1>4, <1>5, <1>6, Going, LeavesIs
<1> QED BY <1>1, <1>7 DEF State

\* The first l operands.
LEMMA Prefix ==
  ASSUME NEW A, Shape(A), NEW l \in Nat, l <= Len(A)
  PROVE  SubSeq(A, 1, l) = [i \in 1..l |-> A[i]]
<1>1. PICK T : A \in Seq([ref : OfVars \cup OnStack, text : T])
  BY DEF Shape
<1> DEFINE S == [ref : OfVars \cup OnStack, text : T]
<1>2. A \in Seq(S)
  BY <1>1
<1> HIDE DEF S
<1>3. Len(A) \in Nat /\ DOMAIN A = 1..Len(A)
  BY <1>2
<1>4. \A i \in 1..l : A[1 + i - 1] = A[i] /\ A[i] \in S
  BY <1>2, <1>3
<1> QED BY <1>2, <1>3, <1>4

\* The last two operands.
LEMMA TwoOperands ==
  ASSUME State, heap.err = "none", Have(2), NEW B, B = Drop(1), NEW C, C = Drop(2)
  PROVE  Have(1) /\ Has(B, frames, 1) /\ LastIs(B, C, Arg(2).ref, Arg(2).text)
<1>1. Len(args) \in Nat /\ Shape(args) /\ FrameShape(frames)
  BY Going, ShapeFacts
<1>2. frames # <<>> => frames[1].base \in Nat
  BY <1>1, FrameFacts
<1>3. Have(1) /\ 2 <= Len(args) /\ 1 <= Len(args) /\ (frames # <<>> => frames[1].base + 2 <= Len(args))
  BY <1>1, <1>2 DEF Have
<1> DEFINE n == Len(args)
<1>4. B = SubSeq(args, 1, n - 1) /\ C = SubSeq(args, 1, n - 2)
  BY Zenon DEF Drop
<1>5. Len(B) = n - 1 /\ Len(B) \in Nat /\ \A i \in DOMAIN B : B[i] = args[i] /\ i \in DOMAIN args
  BY <1>1, <1>3, <1>4, LastDropped, Zenon
<1>6. Shape(B) /\ DOMAIN B = 1..Len(B)
  BY <1>1, <1>3, <1>4, LastDropped, ShapeFacts, Zenon
<1>7. Has(B, frames, 1)
  BY <1>1, <1>2, <1>3, <1>5 DEF Has
<1> DEFINE l == n - 2
<1>8. l \in Nat /\ l <= n /\ l <= Len(B) /\ Len(B) - 1 = l /\ n + 1 - 2 = Len(B) /\ n \in Nat
  BY <1>1, <1>3, <1>5
<1>9. Arg(2) = B[Len(B)]
  <2>1. Arg(2) = args[Len(B)]
    BY <1>8 DEF Arg
  <2>2. Len(B) \in DOMAIN B
    BY <1>3, <1>5, <1>6
  <2> QED BY <1>5, <2>1, <2>2
<1>10. C = SubSeq(B, 1, Len(B) - 1)
  <2>1. C = SubSeq(args, 1, l) /\ SubSeq(B, 1, Len(B) - 1) = SubSeq(B, 1, l)
    BY <1>4, <1>8
  <2> HIDE DEF l, n
  <2>2. SubSeq(B, 1, l) = [i \in 1..l |-> B[i]]
    BY <1>6, <1>8, Prefix
  <2>3. l <= Len(args)
    BY <1>8 DEF n
  <2>4. SubSeq(args, 1, l) = [i \in 1..l |-> args[i]]
    BY <1>1, <1>8, <2>3, Prefix
  <2>5. \A i \in 1..l : i \in DOMAIN B
    BY <1>5, <1>6, <1>8
  <2>6. \A i \in 1..l : B[i] = args[i]
    BY <1>5, <2>5
  <2>7. [i \in 1..l |-> B[i]] = [i \in 1..l |-> args[i]]
    BY <2>6
  <2> QED BY <2>1, <2>2, <2>4, <2>7
<1>11. LastIs(B, C, Arg(2).ref, Arg(2).text)
  BY <1>9, <1>10, Zenon DEF LastIs
<1> QED BY <1>3, <1>7, <1>11

\* Two strings are joined, the second popped first.
LEMMA ConcatStep ==
  ASSUME State, Concat
  PROVE  State'
<1>1. heap.err = "none" /\ want' = want /\ frames' = frames /\ Have(2)
  BY DEF Concat, Running
<1> DEFINE r2 == Arg(1).ref
           r1 == Arg(2).ref
           B == Drop(1)
           C == Drop(2)
           j == Popped(heap.depth, r2)
           k == Popped(j, r1)
           g == Concatenate(heap, r1, r2)
           t1 == Arg(2).text
           t2 == Arg(1).text
<1>2. /\ args' = IF g.err = "none" THEN Added(C, Top(g), t1 \o t2) ELSE args
      /\ heap' = Tidy(g, args')
  BY DEF Concat, Yields, Becomes, Added
<1>3. Have(1) /\ Has(B, frames, 1) /\ LastIs(B, C, r1, t1)
  BY <1>1, TwoOperands
<1>4. r2 \in Refs(heap) /\ Shape(B) /\ j \in 0..StackMax /\ j \in Nat
  BY <1>1, <1>3, LastOperand
<1>5. PICK s : /\ Framing(B, frames, j, s)
               /\ heap.exposed \/ (Neat(heap) /\ Read(heap, Get(heap, r2)) = t2 /\ Meaning(heap, B, frames, want, j, s))
  BY <1>1, <1>3, LastOperand
<1>6. heap \in Heaps /\ FrameShape(frames) /\ Shape(args) /\ want = [v \in Vars |-> want[v]]
      /\ heap.depth \in 0..StackMax /\ heap.depth \in Nat /\ Refs(heap) = RefsAt(heap.depth)
  BY <1>1, Going
<1> HIDE DEF r1, r2, B, C, t1, t2
<1>7. j <= heap.depth /\ RefsAt(j) \subseteq RefsAt(heap.depth)
  BY <1>4, <1>6, PoppedFacts, RefsAtFacts
<1> HIDE DEF j
<1>8. Framing(C, frames, k, s) /\ r1 \in RefsAt(j) /\ Shape(C)
  BY <1>3, <1>4, <1>5, <1>6, FramingLast
<1>9. k \in Nat /\ r1 \in Refs(heap)
  BY <1>4, <1>6, <1>7, <1>8, PoppedFacts
<1>10. Meaning(heap, B, frames, want, j, s) =>
         Meaning(heap, C, frames, want, k, s) /\ Read(heap, Get(heap, r1)) = t1
  BY <1>3, <1>4, <1>5, <1>6, MeaningLast
<1>11. /\ Typed(heap, g, k)
       /\ Neat(heap) /\ ~g.exposed /\ g.err # "wild" =>
            Result(heap, g, k, Read(heap, Get(heap, r1)) \o Read(heap, Get(heap, r2)))
  BY <1>1, <1>4, <1>6, <1>8, <1>9, ConcatIs DEF j
<1> HIDE DEF g, k
<1>12. heap.exposed => g.exposed
  BY <1>11 DEF Typed
<1>13. Neat(heap) /\ ~g.exposed /\ g.err # "wild" => Result(heap, g, k, t1 \o t2)
  BY <1>5, <1>10, <1>11, <1>12
<1>14. heap.exposed \/ (Neat(heap) /\ Meaning(heap, C, frames, want, k, s))
  BY <1>5, <1>10
<1>15. Inv(heap', args', want, frames)
  BY <1>2, <1>6, <1>8, <1>9, <1>11, <1>13, <1>14, YieldsIs
<1> QED BY <1>1, <1>15 DEF State

\* A comparison pops its second string first.
LEMMA CompareStep ==
  ASSUME State, Compare
  PROVE  State'
<1>1. heap.err = "none" /\ want' = want /\ frames' = frames /\ Have(2)
  BY DEF Compare, Running
<1> DEFINE r2 == Arg(1).ref
           r1 == Arg(2).ref
           B == Drop(1)
           C == Drop(2)
           j == Popped(heap.depth, r2)
           k == Popped(j, r1)
           m == Pop(heap, r2)
           g == Pop(m, r1)
           t1 == Arg(2).text
           t2 == Arg(1).text
<1>2. /\ args' = IF g.err = "none" THEN C ELSE args
      /\ heap' = Tidy(g, args')
  BY DEF Compare, Becomes
<1>3. Have(1) /\ Has(B, frames, 1) /\ LastIs(B, C, r1, t1)
  BY <1>1, TwoOperands
<1>4. r2 \in Refs(heap) /\ Shape(B) /\ j \in 0..StackMax /\ j \in Nat
  BY <1>1, <1>3, LastOperand
<1>5. PICK s : /\ Framing(B, frames, j, s)
               /\ heap.exposed \/ (Neat(heap) /\ Solid(heap, r2) /\ Meaning(heap, B, frames, want, j, s))
  BY <1>1, <1>3, LastOperand
<1>6. heap \in Heaps /\ FrameShape(frames) /\ Shape(args) /\ want = [v \in Vars |-> want[v]]
      /\ heap.depth \in 0..StackMax /\ heap.depth \in Nat /\ Refs(heap) = RefsAt(heap.depth)
  BY <1>1, Going
<1> HIDE DEF r1, r2, B, C, t1, t2
<1>7. m \in Heaps /\ m.exposed = heap.exposed /\ m.err = "none" /\ m.depth = j
  BY <1>1, <1>4, <1>6, PopTyped
<1>8. Neat(heap) /\ Solid(heap, r2) => Neat(m) /\ Kept(heap, m, j)
  BY <1>1, <1>4, <1>6, <1>7, SolidTop, PopIs
<1> HIDE DEF j, m
<1>9. Framing(C, frames, k, s) /\ r1 \in RefsAt(j) /\ Shape(C)
  BY <1>3, <1>4, <1>5, <1>6, FramingLast
<1>10. r1 \in Refs(m) /\ k \in Nat /\ k <= j
  BY <1>4, <1>7, <1>9, RefsAtFacts, PoppedFacts
<1>11. g \in Heaps /\ g.exposed = heap.exposed /\ g.err = "none" /\ g.depth = k
  BY <1>7, <1>10, PopTyped
<1>12. heap.exposed \/ (Neat(m) /\ Meaning(m, B, frames, want, j, s))
  BY <1>4, <1>5, <1>8, MeaningKept
<1>13. heap.exposed \/ (Neat(m) /\ Solid(m, r1) /\ Meaning(m, C, frames, want, k, s))
  BY <1>3, <1>4, <1>5, <1>6, <1>7, <1>12, MeaningLast
<1>14. Neat(m) /\ Solid(m, r1) => Neat(g) /\ Kept(m, g, k)
  BY <1>7, <1>10, <1>11, SolidTop, PopIs
<1> HIDE DEF g, k
<1>15. heap.exposed \/ (Neat(g) /\ Kept(m, g, k) /\ Meaning(m, C, frames, want, k, s) /\ Neat(m))
  BY <1>13, <1>14
<1>16. Inv(heap', args', want, frames)
  <2>1. m.exposed \/ (Neat(m) /\ Meaning(m, C, frames, want, k, s))
    BY <1>7, <1>15
  <2>2. Neat(m) /\ ~g.exposed /\ g.err # "wild" =>
          IF g.err = "none" THEN Neat(g) /\ Kept(m, g, k) ELSE Failed(m, g)
    BY <1>11, <1>15
  <2> QED BY <1>2, <1>6, <1>7, <1>9, <1>10, <1>11, <2>1, <2>2, LeavesIs
<1> QED BY <1>1, <1>16 DEF State

\* Part of a string.
LEMMA SubString ==
  ASSUME NEW t \in Seq(Chars), NEW o \in Nat, NEW n \in Nat, o + n <= Len(t)
  PROVE  SubSeq(t, o + 1, o + n) = [i \in 1..n |-> t[o + i]]
<1> DEFINE S == Chars
           l == o + 1
           u == o + n
<1>1. t \in Seq(S)
  OBVIOUS
<1>2. Len(t) \in Nat /\ DOMAIN t = 1..Len(t)
  BY CharSeq
<1>3. l \in Nat /\ u \in Nat /\ l >= 1 /\ u <= Len(t) /\ 1 + u - l = n
  BY <1>2
<1>4. \A i \in 1..n : i + l - 1 = o + i
  BY <1>3
<1> HIDE DEF S, l, u
<1>5. SubSeq(t, l, u) = [i \in 1..(1 + u - l) |-> t[i + l - 1]]
  BY <1>1, <1>3
<1>6. [i \in 1..(1 + u - l) |-> t[i + l - 1]] = [i \in 1..n |-> t[o + i]]
  BY <1>3, <1>4
<1>7. SubSeq(t, l, u) = [i \in 1..n |-> t[o + i]]
  BY <1>5, <1>6
<1> QED BY <1>7 DEF l, u

\* Any one slice of the last operand.
LEMMA SliceOne ==
  ASSUME State, heap.err = "none", Have(1), want' = want, frames' = frames, NEW offset \in Nat, NEW n \in Nat,
         n = 0 \/ offset + n <= Get(heap, Arg(1).ref).len, NEW x,
         Read(heap, Get(heap, Arg(1).ref)) = Arg(1).text => x = [i \in 1..n |-> Arg(1).text[offset + i]],
         Yields(SliceOf(heap, Arg(1).ref, offset, n), Drop(1), x)
  PROVE  State'
<1> DEFINE r == Arg(1).ref
           B == Drop(1)
           j == Popped(heap.depth, r)
           g == SliceOf(heap, r, offset, n)
           text == Arg(1).text
           cut == [i \in 1..n |-> Read(heap, Get(heap, r))[offset + i]]
<1>1. Read(heap, Get(heap, r)) = text => x = cut
  OBVIOUS
<1>2. /\ args' = IF g.err = "none" THEN Added(B, Top(g), x) ELSE args
      /\ heap' = Tidy(g, args')
  BY DEF Yields, Becomes, Added
<1>3. r \in Refs(heap) /\ Shape(B) /\ j \in Nat
  BY LastOperand
<1>4. PICK s : /\ Framing(B, frames, j, s)
               /\ heap.exposed \/ (Neat(heap) /\ Solid(heap, r) /\ Read(heap, Get(heap, r)) = text /\ Meaning(heap, B, frames, want, j, s))
  BY LastOperand
<1>5. Typed(heap, g, j) /\ (Neat(heap) /\ Solid(heap, r) /\ ~g.exposed /\ g.err # "wild" => Result(heap, g, j, cut))
  BY <1>3, Going, SliceIs
<1> HIDE DEF r, B, j, g, text, cut
<1>6. heap.exposed \/ (Neat(heap) /\ Meaning(heap, B, frames, want, j, s))
  BY <1>4
<1>7. heap.exposed => g.exposed
  BY <1>5 DEF Typed
<1>8. Neat(heap) /\ ~g.exposed /\ g.err # "wild" => Result(heap, g, j, x)
  BY <1>1, <1>4, <1>5, <1>7
<1>9. Inv(heap', args', want, frames)
  BY <1>2, <1>3, <1>4, <1>5, <1>6, <1>8, Going, YieldsIs
<1> QED BY <1>9 DEF State

\* LEFT$, RIGHT$ and MID$, of an empty slice or another.
LEMMA SliceStep ==
  ASSUME State, Slice
  PROVE  State'
<1>1. heap.err = "none" /\ want' = want /\ frames' = frames /\ Have(1)
  BY DEF Slice, Running
<1> DEFINE r == Arg(1).ref
           text == Arg(1).text
           len == Get(heap, r).len
<1>2. heap \in Heaps /\ len \in Nat
  BY <1>1, Going, LastOperand, RefFacts
<1>3. ASSUME NEW offset \in 0..(len - 1), NEW n \in 1..(len - offset),
             Yields(SliceOf(heap, r, offset, n), Drop(1), SubSeq(text, offset + 1, offset + n))
      PROVE  State'
  <2> DEFINE x == SubSeq(text, offset + 1, offset + n)
  <2>1. offset \in Nat /\ n \in Nat /\ offset + n <= len
    BY <1>2
  <2>2. Read(heap, Get(heap, r)) = text => x = [i \in 1..n |-> text[offset + i]]
    <3>1. Read(heap, Get(heap, r)) = Bytes(heap, Get(heap, r).ptr, len)
      BY DEF Read, Bytes
    <3>2. Read(heap, Get(heap, r)) \in Seq(Chars) /\ Len(Read(heap, Get(heap, r))) = len
      BY <1>2, <3>1, BytesSeq
    <3> HIDE DEF r, text, len
    <3>3. Read(heap, Get(heap, r)) = text => text \in Seq(Chars) /\ Len(text) = len
      BY <3>2
    <3> QED BY <2>1, <3>3, SubString
  <2>3. Yields(SliceOf(heap, r, offset, n), Drop(1), x)
    BY <1>3
  <2> HIDE DEF x
  <2> QED BY <1>1, <2>1, <2>2, <2>3, SliceOne
<1>4. ASSUME NEW offset \in EmptyOffsets \cup {i \in {0} : len = 0}, Yields(SliceOf(heap, r, offset, 0), Drop(1), <<>>)
      PROVE  State'
  <2> DEFINE n == 0
             x == <<>>
  <2>1. offset \in Nat /\ n \in Nat /\ (n = 0 \/ offset + n <= len)
    BY StringSpaceAssumption
  <2>2. Read(heap, Get(heap, r)) = text => x = [i \in 1..n |-> text[offset + i]]
    OBVIOUS
  <2>3. Yields(SliceOf(heap, r, offset, n), Drop(1), x)
    BY <1>4
  <2> HIDE DEF x, n
  <2> QED BY <1>1, <2>1, <2>2, <2>3, SliceOne
<1> QED BY <1>3, <1>4 DEF Slice

\* An error empties both stacks and leaves the variables.
LEMMA WarmStartStep ==
  ASSUME State, WarmStart
  PROVE  State'
<1>1. heap.err \notin {"none", "wild"} /\ want' = want /\ args' = <<>> /\ frames' = <<>>
  BY DEF WarmStart
<1> DEFINE S == [i \in 1..StackMax |-> Null]
           z == [heap EXCEPT !.err = "none", !.need = 0]
           g == [z EXCEPT !.depth = 0, !.slots = S]
<1>2. heap' = g
  BY DEF WarmStart
<1>3. heap \in Heaps /\ want = [v \in Vars |-> want[v]]
  BY DEF State, Inv
<1>4. S \in [1..StackMax -> Descs] /\ 0 \in 0..StackMax
  BY StackMaxIs DEF Null, Descs
<1> HIDE DEF S
<1>5. z \in Heaps /\ z.earryl = heap.earryl /\ z.sstorl = heap.sstorl /\ z.mem = heap.mem /\ z.vars = heap.vars
      /\ z.err = "none" /\ z.exposed = heap.exposed
  BY <1>3 DEF Heaps, Errors
<1> HIDE DEF z
<1>6. g \in Heaps /\ g.earryl = heap.earryl /\ g.sstorl = heap.sstorl /\ g.mem = heap.mem /\ g.vars = heap.vars
      /\ g.err = "none" /\ g.exposed = heap.exposed /\ g.depth = 0
  BY <1>4, <1>5 DEF Heaps
<1> HIDE DEF g
<1>7. RefsAt(0) = OfVars /\ Refs(g) = OfVars
  <2>1. {StackRef(i) : i \in 1..0} = {}
    OBVIOUS
  <2> QED BY <1>6, <2>1 DEF RefsAt, Refs
<1>8. \A r \in OfVars : Get(g, r) = Get(heap, r)
  BY <1>6 DEF Get, OfVars, VarRef
<1>9. \A d : Read(g, d) = Read(heap, d)
  BY <1>6 DEF Read
<1>10. ASSUME ~heap.exposed PROVE Neat(g) /\ Meaning(g, <<>>, <<>>, want, 0, 0)
  <2>1. Neat(heap) /\ Settled(heap, want)
    BY <1>1, <1>10 DEF State, Inv, Stopped
  <2>2. OfVars \subseteq Refs(heap)
    BY DEF Refs
  <2>3. Neat(g)
    <3>1. Ordered(g) /\ TextKept(g)
      BY <1>6, <2>1 DEF Neat, Ordered, TextKept
    <3>2. \A r \in OfVars : Placed(g, Get(g, r))
      BY <1>6, <1>8, <2>1, <2>2 DEF Neat, Placed
    <3>3. \A r, q \in OfVars : r # q => Apart(Get(g, r), Get(g, q))
      BY <1>8, <2>1 DEF Settled
    <3> QED BY <1>6, <1>7, <3>1, <3>2, <3>3 DEF Neat
  <2>4. \A r, q \in RefsAt(0) : r # q => Apart(Get(g, r), Get(g, q))
    BY <1>7, <1>8, <2>1 DEF Settled
  <2>5. \A v \in Vars : Read(g, Get(g, VarRef(v))) = want[v]
    BY <1>8, <1>9, <2>1 DEF Settled, OfVars
  <2>6. \A i \in DOMAIN <<>> : OperandRight(g, <<>>, <<>>, i)
    BY NoOperands
  <2> QED BY <2>3, <2>4, <2>5, <2>6 DEF Meaning
<1>11. Framing(<<>>, <<>>, 0, 0)
  <2>1. \E k : k = 0 /\ k \in Nat
    OBVIOUS
  <2>2. PICK k : k = 0 /\ k \in Nat
    BY <2>1
  <2>3. Framing(<<>>, <<>>, k, 0)
    BY <2>2, NoFraming
  <2> QED BY <2>2, <2>3
<1>12. Sound(g, <<>>, want, <<>>)
  BY <1>6, <1>10, <1>11 DEF Sound
<1>13. Inv(g, <<>>, want, <<>>)
  BY <1>3, <1>6, <1>12, NoOperands DEF Inv, FrameShape
<1> QED BY <1>1, <1>2, <1>13 DEF State

\* The cold start.
LEMMA FirstState ==
  ASSUME Init
  PROVE  State
<1>1. heap.earryl = Len(Text) + 2 /\ heap.sstorl = Ememl /\ heap.mem = Blank /\ heap.vars = [v \in Vars |-> Null]
      /\ heap.depth = 0 /\ heap.err = "none" /\ heap.exposed = FALSE
  BY DEF Init
<1>2. args = <<>> /\ frames = <<>> /\ want = [v \in Vars |-> <<>>]
  BY DEF Init
<1>3. DOMAIN Text = 1..Len(Text) /\ Len(Text) \in Nat
  <2> DEFINE S == STRING
  <2>1. Text \in Seq(S)
    BY StringSpaceAssumption
  <2> HIDE DEF S
  <2> QED BY <2>1
<1>4. Blank \in Mems
  <2>1. \A a \in 1..(Ememl - 1) : a <= Len(Text) => a \in DOMAIN Text
    BY <1>3
  <2>2. \A a \in 1..(Ememl - 1) : (IF a <= Len(Text) THEN Text[a] ELSE "?") \in Chars
    BY <2>1 DEF Chars
  <2> HIDE DEF Chars
  <2> QED BY <2>2 DEF Blank, Mems
<1>5. Null \in Descs /\ Null.len = 0
  BY DEF Null, Descs
<1>6. heap \in Heaps
  <2> DEFINE e == Len(Text) + 2
             V == [v \in Vars |-> Null]
             S == [i \in 1..StackMax |-> Null]
  <2>1. heap = [earryl |-> e, sstorl |-> Ememl, mem |-> Blank, vars |-> V, slots |-> S,
                depth |-> 0, utl |-> 0, err |-> "none", need |-> 0, exposed |-> FALSE]
    BY DEF Init
  <2>2. e \in Nat /\ Ememl \in Int /\ V \in [Vars -> Descs] /\ S \in [1..StackMax -> Descs] /\ 0 \in 0..StackMax
    BY <1>3, <1>5, Constant, StackMaxIs
  <2> HIDE DEF e, V, S
  <2> QED BY <1>4, <2>1, <2>2 DEF Heaps, Errors
<1>7. RefsAt(0) = OfVars /\ Refs(heap) = OfVars
  <2>1. {StackRef(i) : i \in 1..0} = {}
    OBVIOUS
  <2> QED BY <1>1, <2>1 DEF RefsAt, Refs
<1>8. \A r \in OfVars : Get(heap, r) = Null
  BY <1>1 DEF Get, OfVars, VarRef
<1>9. Read(heap, Null) = <<>>
  BY <1>5 DEF Read
<1>10. Neat(heap)
  <2>1. Ordered(heap)
    BY <1>1, <1>3, Constant DEF Ordered
  <2>2. TextKept(heap)
    <3>1. \A a \in 1..Len(Text) : a \in 1..(Ememl - 1) /\ a <= Len(Text)
      BY <1>3, Constant
    <3> QED BY <1>1, <3>1 DEF TextKept, Blank
  <2>3. \A r \in OfVars : Placed(heap, Get(heap, r))
    BY <1>5, <1>8 DEF Placed
  <2>4. \A r, q \in OfVars : Apart(Get(heap, r), Get(heap, q))
    BY <1>5, <1>8 DEF Apart
  <2> QED BY <1>6, <1>7, <2>1, <2>2, <2>3, <2>4 DEF Neat
<1>11. Meaning(heap, <<>>, <<>>, want, 0, 0)
  <2>1. \A r, q \in RefsAt(0) : Apart(Get(heap, r), Get(heap, q))
    BY <1>5, <1>7, <1>8 DEF Apart
  <2>2. \A v \in Vars : Read(heap, Get(heap, VarRef(v))) = want[v]
    BY <1>2, <1>8, <1>9 DEF OfVars
  <2>3. \A i \in DOMAIN <<>> : OperandRight(heap, <<>>, <<>>, i)
    BY NoOperands
  <2> QED BY <2>1, <2>2, <2>3 DEF Meaning
<1>12. Framing(<<>>, <<>>, 0, 0)
  <2>1. \E k : k = 0 /\ k \in Nat
    OBVIOUS
  <2>2. PICK k : k = 0 /\ k \in Nat
    BY <2>1
  <2>3. Framing(<<>>, <<>>, k, 0)
    BY <2>2, NoFraming
  <2> QED BY <2>2, <2>3
<1>13. Sound(heap, <<>>, want, <<>>)
  BY <1>1, <1>10, <1>11, <1>12 DEF Sound
<1>14. want = [v \in Vars |-> want[v]]
  BY <1>2
<1> QED BY <1>1, <1>2, <1>6, <1>13, <1>14, NoOperands DEF State, Inv, FrameShape

\* A string assigned to variable v: what the statement leaves.
LEMMA MeaningLet ==
  ASSUME NEW h \in Heaps, NEW W, NEW k \in Nat, k <= h.depth, Meaning(h, <<>>, <<>>, W, k, 0), NEW r, NEW v \in Vars, NEW t,
         NEW g, Given(h, g, k, v, t, r), NEW U, U = [W EXCEPT ![v] = t], W = [w \in Vars |-> W[w]]
  PROVE  Meaning(g, <<>>, <<>>, U, k, 0)
<1> DEFINE z == VarRef(v)
<1>1. ASSUME NEW q \in RefsAt(k), NEW p \in RefsAt(k), q # p
      PROVE  Apart(Get(g, q), Get(g, p)) \/ Joint(g, <<>>, 0, q, p)
  <2>1. \A x : ~InUse(<<>>, x)
    BY NoOperands DEF InUse
  <2>2. \A x \in RefsAt(k) : x \in OnStack => Leak(<<>>, x, 0)
    <3> SUFFICES ASSUME NEW x \in RefsAt(k), x \in OnStack PROVE Leak(<<>>, x, 0)
      OBVIOUS
    <3>1. x.at \in 1..k /\ x = StackRef(x.at)
      BY StackFacts
    <3>2. x # StackRef(0)
      BY <3>1, RefsApart
    <3> QED BY <3>2, NoOperands DEF Leak
  <2>3. ASSUME q # z, p # z PROVE Apart(Get(g, q), Get(g, p)) \/ Joint(g, <<>>, 0, q, p)
    <3>1. Apart(Get(h, q), Get(h, p)) \/ Joint(h, <<>>, 0, q, p)
      BY <1>1 DEF Meaning
    <3>2. /\ Apart(Get(h, q), Get(h, p)) => Apart(Get(g, q), Get(g, p))
          /\ Get(h, q).ptr = Get(h, p).ptr => Apart(Get(g, q), Get(g, p)) \/ Get(g, q).ptr = Get(g, p).ptr
      BY <1>1, <2>3 DEF Given
    <3> QED BY <3>1, <3>2 DEF Joint
  <2>4. \A x \in RefsAt(k) \ {z} : /\ Apart(Get(g, z), Get(g, x)) \/ Joint(g, <<>>, 0, z, x)
                                   /\ Apart(Get(g, x), Get(g, z)) \/ Joint(g, <<>>, 0, x, z)
    <3> SUFFICES ASSUME NEW x \in RefsAt(k) \ {z}
                 PROVE  /\ Apart(Get(g, z), Get(g, x)) \/ Joint(g, <<>>, 0, z, x)
                        /\ Apart(Get(g, x), Get(g, z)) \/ Joint(g, <<>>, 0, x, z)
      OBVIOUS
    <3>1. Apart(Get(g, z), Get(g, x)) \/ (x \in OnStack /\ Get(g, z).ptr = Get(g, x).ptr)
      BY DEF Given
    <3>2. x \in OnStack => Leak(<<>>, x, 0)
      BY <2>2
    <3> QED BY <2>1, <3>1, <3>2, ApartSym DEF Joint
  <2> QED BY <1>1, <2>3, <2>4
<1>2. ASSUME NEW w \in Vars PROVE Read(g, Get(g, VarRef(w))) = U[w]
  <2>1. VarRef(w) \in RefsAt(k)
    BY RefsAtFacts DEF OfVars
  <2>2. Read(h, Get(h, VarRef(w))) = W[w]
    BY DEF Meaning
  <2>3. CASE w = v
    <3>1. U[w] = t
      BY <2>3
    <3> QED BY <2>3, <3>1 DEF Given
  <2>4. CASE w # v
    <3>1. U[w] = W[w]
      BY <2>4
    <3>2. VarRef(w) # z
      BY <2>4, RefsApart
    <3> QED BY <2>1, <2>2, <3>1, <3>2 DEF Given
  <2> QED BY <2>3, <2>4
<1>3. \A i \in DOMAIN <<>> : OperandRight(g, <<>>, <<>>, i)
  BY NoOperands
<1> QED BY <1>1, <1>2, <1>3 DEF Meaning

\* No operand is left: none was ever there.
LEMMA OnlyOperand ==
  ASSUME NEW A, Shape(A), Len(A) = 0
  PROVE  A = <<>>
<1>1. PICK T : A \in Seq([ref : OfVars \cup OnStack, text : T])
  BY DEF Shape
<1> DEFINE S == [ref : OfVars \cup OnStack, text : T]
<1>2. A \in Seq(S)
  BY <1>1
<1> HIDE DEF S
<1> QED BY <1>2

\* LET, by moving a descriptor or copying the text.
LEMMA LetStep ==
  ASSUME State, NEW v \in Vars, Let(v)
  PROVE  State'
<1>1. heap.err = "none" /\ frames = <<>> /\ frames' = frames /\ Len(args) = 1
  BY DEF Let, Running
<1> DEFINE r == Arg(1).ref
           t == Arg(1).text
           B == Drop(1)
           k == Popped(heap.depth, r)
           g == Assign(heap, r, v)
           L == IF g.err = "none" THEN <<>> ELSE args
           U == [want EXCEPT ![v] = t]
<1>2. /\ args' = L /\ heap' = Tidy(g, L)
      /\ want' = IF heap'.err = "none" THEN U ELSE want
  BY DEF Let, Becomes
<1>3. Have(1)
  BY <1>1 DEF Have
<1>4. r \in Refs(heap) /\ Shape(B) /\ k \in Nat /\ Arg(1) = args[Len(args)]
  BY <1>1, <1>3, LastOperand
<1>5. heap \in Heaps /\ FrameShape(frames) /\ Shape(args) /\ want = [w \in Vars |-> want[w]]
      /\ heap.depth \in 0..StackMax /\ heap.depth \in Nat
  BY <1>1, Going
<1>6. B = <<>>
  <2>1. B = SubSeq(args, 1, Len(args) - 1)
    BY Zenon DEF Drop
  <2>2. 1 <= Len(args)
    BY <1>1
  <2>3. Len(B) = Len(args) - 1
    BY <1>5, <2>1, <2>2, LastDropped, Zenon
  <2>4. Len(B) = 0
    BY <1>1, <2>3
  <2> HIDE DEF B
  <2> QED BY <1>4, <2>4, OnlyOperand
<1>7. PICK s : /\ Framing(<<>>, <<>>, k, s)
               /\ heap.exposed \/ (Neat(heap) /\ Solid(heap, r) /\ Read(heap, Get(heap, r)) = t /\ Meaning(heap, <<>>, <<>>, want, k, s))
  BY <1>1, <1>3, <1>6, LastOperand
<1>8. s = 0
  BY <1>7 DEF Framing
<1>9. PICK s1 : /\ Framing(args, <<>>, heap.depth, s1)
                /\ heap.exposed \/ Meaning(heap, args, <<>>, want, heap.depth, s1)
  BY <1>1, Going
<1>10. /\ g \in Heaps /\ (heap.exposed => g.exposed)
       /\ g.err = "none" => g.depth = k
       /\ Neat(heap) /\ Solid(heap, r) /\ ~g.exposed /\ g.err # "wild" =>
            IF g.err = "none" THEN Given(heap, g, k, v, Read(heap, Get(heap, r)), r) ELSE Failed(heap, g)
  BY <1>1, <1>4, <1>5, AssignIs
<1>11. k <= heap.depth
  BY <1>4, <1>5, PoppedFacts, RefsAtFacts
<1> HIDE DEF r, t, k, g, B
<1> DEFINE x == Tidy(g, L)
<1>12. /\ x \in Heaps /\ x.depth = g.depth /\ x.err = g.err /\ x.exposed = g.exposed
       /\ Neat(g) => Neat(x) /\ Kept(g, x, g.depth)
  BY <1>10, TidyIs
<1>13. ASSUME g.err = "none" PROVE Inv(x, <<>>, U, <<>>)
  <2>1. U = [w \in Vars |-> U[w]]
    BY <1>5
  <2>2. g.exposed \/ (Neat(x) /\ Meaning(x, <<>>, <<>>, U, k, 0))
    <3> SUFFICES ASSUME ~g.exposed PROVE Neat(x) /\ Meaning(x, <<>>, <<>>, U, k, 0)
      OBVIOUS
    <3>1. Neat(heap) /\ Solid(heap, r) /\ Read(heap, Get(heap, r)) = t /\ Meaning(heap, <<>>, <<>>, want, k, 0)
      BY <1>7, <1>8, <1>10
    <3>2. Given(heap, g, k, v, t, r)
      BY <1>10, <1>13, <3>1
    <3>3. Neat(g)
      BY <3>2 DEF Given
    <3>4. Kept(g, x, k) /\ Neat(x)
      BY <1>10, <1>12, <1>13, <3>3
    <3>5. Meaning(g, <<>>, <<>>, U, k, 0)
      BY <1>4, <1>5, <1>11, <3>1, <3>2, MeaningLet
    <3> HIDE DEF U, x
    <3> QED BY <1>4, <1>7, <1>8, <3>4, <3>5, MeaningKept
  <2> HIDE DEF U, x
  <2>3. Sound(x, <<>>, U, <<>>)
    BY <1>7, <1>8, <1>10, <1>12, <1>13, <2>2 DEF Sound
  <2> QED BY <1>12, <1>13, <2>1, <2>3, NoOperands DEF Inv, FrameShape
<1>14. ASSUME g.err # "none" PROVE Inv(x, args, want, <<>>)
  <2>1. ASSUME g.err # "wild", ~g.exposed PROVE Stopped(x, want)
    <3>1. Meaning(heap, args, <<>>, want, heap.depth, s1) /\ Failed(heap, g)
      BY <1>7, <1>9, <1>10, <1>14, <2>1
    <3> HIDE DEF L
    <3> QED BY <1>5, <1>10, <3>1, StoppedIs
  <2> HIDE DEF x
  <2> QED BY <1>1, <1>5, <1>12, <1>14, <2>1 DEF Inv
<1>15. CASE g.err = "none"
  <2>1. heap' = x /\ args' = <<>> /\ want' = U
    BY <1>2, <1>12, <1>15
  <2> HIDE DEF x, U
  <2> QED BY <1>1, <1>13, <1>15, <2>1 DEF State
<1>16. CASE g.err # "none"
  <2>1. heap' = x /\ args' = args /\ want' = want
    BY <1>2, <1>12, <1>16
  <2> HIDE DEF x
  <2> QED BY <1>1, <1>14, <1>16, <2>1 DEF State
<1> QED BY <1>15, <1>16

\* A deeper stack disturbs no operand.
LEMMA FramingDeeper ==
  ASSUME NEW A, NEW j \in Nat, NEW k \in Nat, j <= k, Framing(A, <<>>, j, 0), "fn" \in Ops
  PROVE  Framing(A, <<>>, k, 0)
<1>1. RefsAt(j) \subseteq RefsAt(k) /\ 0 \in 0..k
  BY RefsAtFacts
<1> QED BY <1>1 DEF Framing

\* B is A without its last operand, which was in r.
Prior(A, B, r) == Shape(B) /\ Free(B, r) /\ \A i \in DOMAIN B : B[i] = A[i] /\ i \in DOMAIN A

\* The descriptor of variable v is saved in slot s.
Saving(h, p, s, v) ==
  /\ s = h.depth + 1 /\ p.mem = h.mem
  /\ Get(p, StackRef(s)) = Get(h, VarRef(v)) /\ \A q \in RefsAt(h.depth) : Get(p, q) = Get(h, q)

Call(v, t, b) == <<[v |-> v, text |-> t, base |-> b]>>

Calling(F, v, t, b) == F # <<>> /\ F[1].v = v /\ F[1].text = t /\ F[1].base = b

\* The record of a call.
LEMMA CallIs ==
  ASSUME NEW v \in Vars, NEW b \in Nat, NEW t
  PROVE  FrameShape(Call(v, t, b)) /\ Calling(Call(v, t, b), v, t, b)
BY DEF FrameShape, Call, Calling

(***************************************************************************)
(* The function call: p is the heap h with the descriptor of variable v    *)
(* saved on top, g the heap after the argument, in r, is assigned to it.   *)
(***************************************************************************)
LEMMA MeaningEnter ==
  ASSUME NEW h \in Heaps, NEW A, Shape(A), NEW W, NEW k, k = h.depth, Framing(A, <<>>, k, 0), Meaning(h, A, <<>>, W, k, 0),
         NEW B, NEW r \in RefsAt(k), NEW t, Prior(A, B, r),
         NEW v \in Vars, NEW s, NEW p, NEW g, Given(p, g, s, v, t, r), Saving(h, p, s, v),
         NEW F, Calling(F, v, W[v], Len(B)),
         NEW U, U = [W EXCEPT ![v] = t], W = [w \in Vars |-> W[w]]
  PROVE  Meaning(g, B, F, U, s, s)
<1> /\ Shape(B) /\ \A i \in DOMAIN B : B[i] = A[i] /\ i \in DOMAIN A
    /\ \A i \in DOMAIN B : B[i].ref \in OnStack => B[i].ref # r
  BY DEF Prior, Free
<1> /\ s = k + 1 /\ p.mem = h.mem
    /\ Get(p, StackRef(s)) = Get(h, VarRef(v)) /\ \A q \in RefsAt(k) : Get(p, q) = Get(h, q)
  BY DEF Saving
<1> F # <<>> /\ F[1].v = v /\ F[1].text = W[v] /\ F[1].base = Len(B)
  BY DEF Calling
<1> DEFINE z == VarRef(v)
           f == StackRef(s)
<1>1. k \in Nat /\ RefsAt(s) = RefsAt(k) \cup {f} /\ f \notin RefsAt(k) /\ z \in RefsAt(k) /\ z # f /\ RefsAt(k) \subseteq RefsAt(s)
  BY RefsAtFacts, RefsApart, HeapFacts DEF OfVars
<1>2. \A d : Read(p, d) = Read(h, d)
  BY DEF Read
<1>3. \A i \in DOMAIN B : B[i].ref \in RefsAt(k)
  BY DEF Framing
<1>4. z \notin OnStack
  BY RefsApart DEF OnStack
<1>5. \A x : InUse(B, x) => InUse(A, x)
  BY DEF InUse
<1>6. \A x \in RefsAt(k) : Leak(A, x, 0) => Leak(B, x, s)
  BY <1>1 DEF Leak
<1>7. ~InUse(B, f) /\ ~InUse(B, z)
  BY <1>1, <1>3, <1>4 DEF InUse
<1>8. r \in OnStack => Leak(B, r, s) /\ ~InUse(B, r)
  BY <1>1 DEF Leak, InUse
<1>9. \A q, o \in RefsAt(k) : q # o => Apart(Get(h, q), Get(h, o)) \/ Joint(h, A, 0, q, o)
  BY DEF Meaning
<1>10. \A q, o \in RefsAt(s) \ {z} : q # o =>
         /\ Apart(Get(p, q), Get(p, o)) => Apart(Get(g, q), Get(g, o))
         /\ Get(p, q).ptr = Get(p, o).ptr => Apart(Get(g, q), Get(g, o)) \/ Get(g, q).ptr = Get(g, o).ptr
  BY DEF Given
<1> HIDE DEF z, f
<1>11. \A q, o : Joint(g, B, s, q, o) => Joint(g, B, s, o, q)
  BY DEF Joint
<1>12. ASSUME NEW q \in RefsAt(k) \ {z}, NEW o \in RefsAt(k) \ {z}, q # o
       PROVE  Apart(Get(g, q), Get(g, o)) \/ Joint(g, B, s, q, o)
  <2>1. Apart(Get(h, q), Get(h, o)) \/ Joint(h, A, 0, q, o)
    BY <1>9, <1>12
  <2>2. /\ Apart(Get(h, q), Get(h, o)) => Apart(Get(g, q), Get(g, o))
        /\ Get(h, q).ptr = Get(h, o).ptr => Apart(Get(g, q), Get(g, o)) \/ Get(g, q).ptr = Get(g, o).ptr
    BY <1>1, <1>10, <1>12
  <2> QED BY <1>5, <1>6, <2>1, <2>2 DEF Joint
<1>13. ASSUME NEW o \in RefsAt(k) \ {z}
       PROVE  Apart(Get(g, f), Get(g, o)) \/ Joint(g, B, s, f, o)
  <2>1. Apart(Get(h, z), Get(h, o)) \/ Joint(h, A, 0, z, o)
    BY <1>1, <1>9
  <2>2. Get(p, f) = Get(h, z) /\ Get(p, o) = Get(h, o)
    BY DEF f, z
  <2>3. /\ Apart(Get(h, z), Get(h, o)) => Apart(Get(g, f), Get(g, o))
        /\ Get(h, z).ptr = Get(h, o).ptr => Apart(Get(g, f), Get(g, o)) \/ Get(g, f).ptr = Get(g, o).ptr
    BY <1>1, <1>10, <2>2
  <2>4. Joint(h, A, 0, z, o) => Leak(A, o, 0) /\ ~InUse(A, o) /\ Get(h, z).ptr = Get(h, o).ptr
    BY <1>4 DEF Joint, Leak
  <2> QED BY <1>5, <1>6, <1>7, <2>1, <2>3, <2>4 DEF Joint
<1>14. ASSUME NEW o \in RefsAt(s) \ {z}
       PROVE  Apart(Get(g, z), Get(g, o)) \/ Joint(g, B, s, z, o)
  <2>1. Apart(Get(g, z), Get(g, o)) \/ (o = r /\ r \in OnStack /\ Get(g, z).ptr = Get(g, o).ptr)
    BY DEF Given, z
  <2> QED BY <1>7, <1>8, <2>1 DEF Joint
<1>15. ASSUME NEW q \in RefsAt(s), NEW o \in RefsAt(s), q # o
       PROVE  Apart(Get(g, q), Get(g, o)) \/ Joint(g, B, s, q, o)
  <2>1. CASE q = z
    BY <1>14, <1>15, <2>1
  <2>2. CASE o = z
    BY <1>11, <1>14, <1>15, <2>2, ApartSym
  <2>3. CASE q = f /\ o # z
    BY <1>1, <1>13, <1>15, <2>3
  <2>4. CASE o = f /\ q # z
    BY <1>1, <1>11, <1>13, <1>15, <2>4, ApartSym
  <2>5. CASE q \in RefsAt(k) \ {z} /\ o \in RefsAt(k) \ {z}
    BY <1>12, <1>15, <2>5
  <2> QED BY <1>1, <2>1, <2>2, <2>3, <2>4, <2>5
<1>16. \A q \in RefsAt(k) \ {z} : Read(g, Get(g, q)) = Read(h, Get(h, q))
  <2>1. \A q \in RefsAt(s) \ {z} : Read(g, Get(g, q)) = Read(p, Get(p, q))
    BY DEF Given, z
  <2> QED BY <1>1, <1>2, <2>1
<1>17. Read(h, Get(h, z)) = W[v]
  BY DEF Meaning, z
<1>18. ASSUME NEW w \in Vars PROVE Read(g, Get(g, VarRef(w))) = U[w]
  <2>1. VarRef(w) \in RefsAt(k)
    BY RefsAtFacts DEF OfVars
  <2>2. Read(h, Get(h, VarRef(w))) = W[w]
    BY DEF Meaning
  <2>3. CASE w = v
    <3>1. U[w] = t
      BY <2>3
    <3> QED BY <2>3, <3>1 DEF Given
  <2>4. CASE w # v
    <3>1. U[w] = W[w]
      BY <2>4
    <3>2. VarRef(w) # z
      BY <2>4, RefsApart DEF z
    <3> QED BY <1>16, <2>1, <2>2, <3>1, <3>2
  <2> QED BY <2>3, <2>4
<1>19. ASSUME NEW i \in DOMAIN B PROVE OperandRight(g, B, F, i)
  <2>1. B[i] = A[i] /\ i \in DOMAIN A /\ i <= F[1].base
    <3>1. i \in 1..Len(B) /\ Len(B) \in Nat
      BY ShapeFacts
    <3>2. i <= F[1].base
      BY <3>1
    <3> QED BY <3>2
  <2>2. Read(h, Get(h, A[i].ref)) = A[i].text
    BY <2>1 DEF Meaning, OperandRight, Shadow
  <2>3. Shadow(B, F, i) <=> B[i].ref = z
    BY <2>1 DEF Shadow, z
  <2>4. CASE B[i].ref = z
    BY <1>17, <2>1, <2>2, <2>3, <2>4 DEF OperandRight
  <2>5. CASE B[i].ref # z
    BY <1>3, <1>16, <2>1, <2>2, <2>3, <2>5 DEF OperandRight
  <2> QED BY <2>4, <2>5
<1>20. Read(g, Get(g, f)) = F[1].text
  <2>1. Read(g, Get(g, f)) = Read(p, Get(p, f))
    BY <1>1 DEF Given, z
  <2> QED BY <1>2, <1>17, <2>1 DEF f, z
<1> QED BY <1>15, <1>18, <1>19, <1>20 DEF Meaning, f

\* A function is called: its variable is saved and assigned.
LEMMA FnEnterStep ==
  ASSUME State, NEW v \in Vars, FnEnter(v)
  PROVE  State'
<1>1. heap.err = "none" /\ frames = <<>> /\ Have(1) /\ "fn" \in Ops
  BY DEF FnEnter, Running
<1> DEFINE r == Arg(1).ref
           t == Arg(1).text
           B == Drop(1)
           k == heap.depth
           s == k + 1
           p == Push(heap, heap.vars[v])
           g == EnterWith(heap, r, v)
           L == IF g.err = "none" THEN B ELSE args
           U == [want EXCEPT ![v] = t]
           F == Call(v, want[v], Len(args) - 1)
           x == Tidy(g, L)
<1>2. /\ args' = L /\ heap' = x
      /\ heap'.err = "none" => frames' = F /\ want' = U
      /\ heap'.err # "none" => frames' = frames /\ want' = want
  BY DEF FnEnter, Becomes, Call
<1>3. /\ r \in Refs(heap) /\ Shape(B) /\ Popped(k, r) \in Nat /\ Has(args, frames, 1)
      /\ Arg(1) = args[Len(args)]
  BY <1>1, LastOperand
<1>4. heap \in Heaps /\ FrameShape(frames) /\ Shape(args) /\ want = [w \in Vars |-> want[w]]
      /\ k \in 0..StackMax /\ k \in Nat /\ Refs(heap) = RefsAt(k)
  BY <1>1, Going
<1>5. PICK s1 : /\ Framing(args, <<>>, k, s1)
                /\ heap.exposed \/ (Neat(heap) /\ Meaning(heap, args, <<>>, want, k, s1))
  BY <1>1, Going
<1>6. s1 = 0
  BY <1>5 DEF Framing
<1>7. heap.exposed \/ (Solid(heap, r) /\ Read(heap, Get(heap, r)) = t)
  BY <1>1, LastOperand
<1>8. 1 <= Len(args) /\ B = SubSeq(args, 1, Len(args) - 1)
  BY <1>3, Zenon DEF Drop, Has
<1>9. Len(B) = Len(args) - 1 /\ Len(B) \in Nat /\ \A i \in DOMAIN B : B[i] = args[i] /\ i \in DOMAIN args
  BY <1>4, <1>8, LastDropped, Zenon
<1>10. r = args[Len(args)].ref
  BY <1>3
<1>11. FrameShape(F) /\ Calling(F, v, want[v], Len(B))
  BY <1>9, CallIs
<1> HIDE DEF F
<1>12. Framing(B, <<>>, Popped(k, r), 0) /\ Free(B, r)
  <2>1. LastIs(args, B, r, t)
    BY <1>3, <1>8, Zenon DEF LastIs
  <2>2. Framing(args, frames, k, 0)
    BY <1>1, <1>5, <1>6
  <2> HIDE DEF k, r, B, t
  <2> QED BY <1>1, <1>3, <1>4, <2>1, <2>2, FramingLast
<1>13. r \in RefsAt(k)
  BY <1>3, <1>4
<1>14. Popped(k, r) <= k
  BY <1>4, <1>13, PoppedFacts
<1>15. Framing(B, <<>>, k, 0)
  BY <1>1, <1>3, <1>4, <1>12, <1>14, FramingDeeper
<1>16. Framing(B, F, s, s)
  <2>1. F # <<>> /\ F[1].base = Len(B)
    BY <1>11 DEF Calling
  <2> QED BY <1>1, <1>3, <1>4, <1>15, <2>1, EnterFraming
<1>17. /\ g \in Heaps /\ (heap.exposed => g.exposed)
       /\ g.err = "none" => /\ g.depth = s /\ p.mem = heap.mem
                            /\ Get(p, StackRef(s)) = Get(heap, VarRef(v))
                            /\ \A q \in Refs(heap) : Get(p, q) = Get(heap, q)
       /\ Neat(heap) /\ Solid(heap, r) /\ ~g.exposed /\ g.err # "wild" =>
            IF g.err = "none" THEN Given(p, g, s, v, Read(heap, Get(heap, r)), r) ELSE Failed(heap, g)
  BY <1>1, <1>3, <1>4, EnterIs
<1>18. s \in Nat
  BY <1>4
<1> HIDE DEF r, t, s, k, p, g, B
<1>19. /\ x \in Heaps /\ x.depth = g.depth /\ x.err = g.err /\ x.exposed = g.exposed
       /\ Neat(g) => Neat(x) /\ Kept(g, x, g.depth)
  BY <1>17, TidyIs
<1>20. ASSUME g.err = "none" PROVE Inv(x, B, U, F)
  <2>1. U = [w \in Vars |-> U[w]]
    BY <1>4
  <2>2. g.exposed \/ (Neat(x) /\ Meaning(x, B, F, U, s, s))
    <3> SUFFICES ASSUME ~g.exposed PROVE Neat(x) /\ Meaning(x, B, F, U, s, s)
      OBVIOUS
    <3>1. Neat(heap) /\ Solid(heap, r) /\ Read(heap, Get(heap, r)) = t /\ Meaning(heap, args, <<>>, want, k, 0)
      BY <1>5, <1>6, <1>7, <1>17
    <3>2. Given(p, g, s, v, t, r)
      BY <1>17, <1>20, <3>1
    <3>3. Neat(g)
      BY <3>2 DEF Given
    <3>4. Kept(g, x, s) /\ Neat(x)
      BY <1>17, <1>19, <1>20, <3>3
    <3>5. Saving(heap, p, s, v)
      BY <1>4, <1>17, <1>20 DEF Saving, k, s
    <3>6. Framing(args, <<>>, k, 0) /\ k = heap.depth
      BY <1>5, <1>6 DEF k
    <3>7. Prior(args, B, r)
      BY <1>3, <1>9, <1>12 DEF Prior
    <3> HIDE DEF U, x
    <3>8. U = [want EXCEPT ![v] = t]
      BY DEF U
    <3>9. Meaning(g, B, F, U, s, s)
      BY <1>4, <1>11, <1>13, <3>1, <3>2, <3>5, <3>6, <3>7, <3>8, MeaningEnter
    <3> QED BY <1>16, <1>18, <3>4, <3>9, MeaningKept
  <2> HIDE DEF U, x
  <2>3. Sound(x, B, U, F)
    BY <1>16, <1>17, <1>19, <1>20, <2>2 DEF Sound
  <2> QED BY <1>3, <1>11, <1>19, <1>20, <2>1, <2>3 DEF Inv
<1>21. ASSUME g.err # "none" PROVE Inv(x, args, want, <<>>)
  <2>1. ASSUME g.err # "wild", ~g.exposed PROVE Stopped(x, want)
    <3>1. Meaning(heap, args, <<>>, want, k, 0) /\ Failed(heap, g)
      BY <1>5, <1>6, <1>7, <1>17, <1>21, <2>1
    <3> HIDE DEF L
    <3> QED BY <1>4, <1>17, <3>1, StoppedIs
  <2> HIDE DEF x
  <2> QED BY <1>1, <1>4, <1>19, <1>21, <2>1 DEF Inv
<1>22. CASE g.err = "none"
  <2>1. heap' = x /\ args' = B /\ want' = U /\ frames' = F
    BY <1>2, <1>19, <1>22
  <2> HIDE DEF x, U
  <2> QED BY <1>20, <1>22, <2>1 DEF State
<1>23. CASE g.err # "none"
  <2>1. heap' = x /\ args' = args /\ want' = want /\ frames' = <<>>
    BY <1>1, <1>2, <1>19, <1>23
  <2> HIDE DEF x
  <2> QED BY <1>21, <1>23, <2>1 DEF State
<1> QED BY <1>22, <1>23

(***************************************************************************)
(* The function returns, with no operand of its own left: the descriptor   *)
(* saved in the top slot is the variable's again.                          *)
(***************************************************************************)
Restored(h, v) == [h EXCEPT !.vars[v] = h.slots[h.depth], !.depth = @ - 1]

\* What the return of a function changes: a variable, and the depth of the stack.
LEMMA RestoredIs ==
  ASSUME NEW h \in Heaps, NEW v \in Vars, NEW k \in Nat, h.depth = k, k > 0, NEW g, g = Restored(h, v)
  PROVE  /\ g \in Heaps /\ g.earryl = h.earryl /\ g.sstorl = h.sstorl /\ g.mem = h.mem
         /\ g.err = h.err /\ g.exposed = h.exposed /\ g.depth = k - 1
         /\ Get(g, VarRef(v)) = Get(h, StackRef(k))
         /\ \A q : q # VarRef(v) /\ q \in RefsAt(k) => Get(g, q) = Get(h, q)
<1> DEFINE d == h.slots[k]
           V == [h.vars EXCEPT ![v] = d]
           j == k - 1
<1>1. k \in 1..StackMax /\ j \in 0..StackMax /\ h.vars \in [Vars -> Descs] /\ h.slots \in [1..StackMax -> Descs]
  BY HeapFacts, StackMaxIs
<1>2. d \in Descs /\ V \in [Vars -> Descs]
  BY <1>1
<1>3. g = [h EXCEPT !.vars = V, !.depth = j]
  BY <1>1 DEF Restored, Heaps
<1> HIDE DEF V, j
<1>4. /\ g \in Heaps /\ g.earryl = h.earryl /\ g.sstorl = h.sstorl /\ g.mem = h.mem /\ g.slots = h.slots
      /\ g.err = h.err /\ g.exposed = h.exposed /\ g.depth = j /\ g.vars = V
  BY <1>1, <1>2, <1>3 DEF Heaps
<1>5. V[v] = d /\ \A w \in Vars : w # v => V[w] = h.vars[w]
  BY <1>1 DEF V
<1>6. Get(g, VarRef(v)) = Get(h, StackRef(k))
  BY <1>4, <1>5 DEF Get, VarRef, StackRef
<1>7. ASSUME NEW q \in RefsAt(k), q # VarRef(v) PROVE Get(g, q) = Get(h, q)
  <2>1. CASE \E w \in Vars : q = VarRef(w)
    <3>1. PICK w \in Vars : q = VarRef(w)
      BY <2>1
    <3>2. w # v
      BY <1>7, <3>1
    <3> QED BY <1>4, <1>5, <3>1, <3>2 DEF Get, VarRef
  <2>2. CASE \E i \in 1..k : q = StackRef(i)
    BY <1>4, <2>2 DEF Get, StackRef
  <2> QED BY <1>7, <2>1, <2>2 DEF RefsAt, OfVars
<1> QED BY <1>4, <1>6, <1>7 DEF j

\* The return gives the variable its text back, and the operands that are that variable theirs.
LEMMA MeaningLeave ==
  ASSUME NEW h, Neat(h), NEW A, Shape(A), NEW F, FrameShape(F), F # <<>>, NEW W, W = [w \in Vars |-> W[w]],
         NEW k \in Nat, k = h.depth, k > 0, Framing(A, F, k, k), Meaning(h, A, F, W, k, k), Len(A) = F[1].base,
         NEW v \in Vars, v = F[1].v, NEW g, g = Restored(h, v), NEW U, U = [W EXCEPT ![v] = F[1].text],
         NEW j, j = k - 1, Framing(A, <<>>, j, 0)
  PROVE  Neat(g) /\ Meaning(g, A, <<>>, U, j, 0)
<1> DEFINE z == VarRef(v)
           f == StackRef(k)
           old(q) == IF q = z THEN f ELSE q
<1>1. h \in Heaps
  BY DEF Neat
<1>2. /\ g \in Heaps /\ g.earryl = h.earryl /\ g.sstorl = h.sstorl /\ g.mem = h.mem /\ g.depth = j
      /\ Get(g, z) = Get(h, f)
      /\ \A q : q # z /\ q \in RefsAt(k) => Get(g, q) = Get(h, q)
  BY <1>1, RestoredIs
<1>3. /\ j \in Nat /\ RefsAt(k) = RefsAt(j) \cup {f} /\ f \notin RefsAt(j) /\ z \in RefsAt(j) /\ z # f
      /\ Refs(h) = RefsAt(k) /\ Refs(g) = RefsAt(j)
  <2>1. j \in Nat /\ k = j + 1
    OBVIOUS
  <2>2. StackRef(j + 1) \notin RefsAt(j) /\ RefsAt(j + 1) = RefsAt(j) \cup {StackRef(j + 1)}
    BY <2>1, RefsAtFacts
  <2>3. z \in RefsAt(j) /\ z # f
    BY RefsAtFacts, RefsApart DEF OfVars
  <2>4. Refs(h) = RefsAt(h.depth) /\ Refs(g) = RefsAt(g.depth)
    BY RefsAtFacts
  <2> HIDE DEF z
  <2> QED BY <1>2, <2>1, <2>2, <2>3, <2>4
<1>4. z \notin OnStack
  BY RefsApart DEF OnStack
<1> HIDE DEF z, f
<1>5. /\ \A q \in RefsAt(j) : old(q) \in RefsAt(k) /\ Get(g, q) = Get(h, old(q))
      /\ \A q, p \in RefsAt(j) : q # p => old(q) # old(p)
  BY <1>2, <1>3
<1>6. \A d : Read(g, d) = Read(h, d)
  BY <1>2 DEF Read
<1>7. Neat(g)
  <2>1. Ordered(g) /\ TextKept(g)
    BY <1>2 DEF Neat, Ordered, TextKept
  <2>2. \A r \in Refs(g) : Placed(g, Get(g, r))
    BY <1>2, <1>3, <1>5 DEF Neat, Placed
  <2>3. \A r, q \in Refs(g) : r # q => Apart(Get(g, r), Get(g, q)) \/ Get(g, r).ptr = Get(g, q).ptr
    BY <1>3, <1>5 DEF Neat
  <2> QED BY <1>2, <2>1, <2>2, <2>3 DEF Neat
<1>8. \A q \in RefsAt(j) : /\ InUse(A, q) => InUse(A, old(q))
                           /\ Leak(A, old(q), k) => Leak(A, q, 0)
  <2> SUFFICES ASSUME NEW q \in RefsAt(j) PROVE (InUse(A, q) => InUse(A, old(q))) /\ (Leak(A, old(q), k) => Leak(A, q, 0))
    OBVIOUS
  <2>1. InUse(A, q) => q # z
    BY <1>4 DEF InUse
  <2>2. Leak(A, old(q), k) => q # z
    BY DEF Leak, f
  <2>3. q # StackRef(0)
    <3>1. q \in OnStack => q = StackRef(q.at) /\ q.at \in 1..j
      BY <1>3, StackFacts
    <3>2. q \in RefsAt(j) => q \in OfVars \/ \E i \in 1..j : q = StackRef(i)
      BY DEF RefsAt
    <3> QED BY <3>2, RefsApart DEF OfVars
  <2> QED BY <2>1, <2>2, <2>3 DEF Leak
<1>9. ASSUME NEW q \in RefsAt(j), NEW p \in RefsAt(j), q # p
      PROVE  Apart(Get(g, q), Get(g, p)) \/ Joint(g, A, 0, q, p)
  <2>1. Apart(Get(h, old(q)), Get(h, old(p))) \/ Joint(h, A, k, old(q), old(p))
    BY <1>5, <1>9 DEF Meaning
  <2> HIDE DEF old
  <2> QED BY <1>5, <1>8, <2>1 DEF Joint
<1>10. \A q \in RefsAt(j) : q # z => Read(g, Get(g, q)) = Read(h, Get(h, q))
  BY <1>5, <1>6
<1>11. Read(g, Get(g, z)) = F[1].text
  BY <1>2, <1>6 DEF Meaning, f
<1>12. ASSUME NEW w \in Vars PROVE Read(g, Get(g, VarRef(w))) = U[w]
  <2>1. VarRef(w) \in RefsAt(j)
    BY RefsAtFacts DEF OfVars
  <2>2. Read(h, Get(h, VarRef(w))) = W[w]
    BY DEF Meaning
  <2>3. CASE w = v
    <3>1. U[w] = F[1].text
      BY <2>3
    <3> QED BY <1>11, <2>3, <3>1 DEF z
  <2>4. CASE w # v
    <3>1. U[w] = W[w]
      BY <2>4
    <3>2. VarRef(w) # z
      BY <2>4, RefsApart DEF z
    <3> QED BY <1>10, <2>1, <2>2, <3>1, <3>2
  <2> QED BY <2>3, <2>4
<1>13. ASSUME NEW i \in DOMAIN A PROVE OperandRight(g, A, <<>>, i)
  <2>1. A[i].ref \in RefsAt(j)
    BY DEF Framing
  <2>2. i <= F[1].base
    <3>1. i \in 1..Len(A) /\ Len(A) \in Nat
      BY ShapeFacts
    <3> QED BY <3>1
  <2>3. OperandRight(h, A, F, i)
    BY DEF Meaning
  <2>4. Shadow(A, F, i) <=> A[i].ref = z
    BY <2>2 DEF Shadow, z
  <2>5. ~Shadow(A, <<>>, i)
    BY DEF Shadow
  <2>6. CASE A[i].ref = z
    BY <1>11, <2>3, <2>4, <2>5, <2>6 DEF OperandRight
  <2>7. CASE A[i].ref # z
    BY <1>10, <2>1, <2>3, <2>4, <2>5, <2>7 DEF OperandRight
  <2> QED BY <2>6, <2>7
<1> QED BY <1>7, <1>9, <1>12, <1>13 DEF Meaning

\* Functions return a number: see the README for those that return a string.
Numeric == "fnstring" \notin Ops \/ "fn" \notin Ops

\* A function that returns a number is left.
LEMMA FnLeaveStep ==
  ASSUME State, FnLeave, Numeric
  PROVE  State'
<1>1. heap.err = "none" /\ frames # <<>> /\ frames' = <<>> /\ args' = args
  BY DEF FnLeave
<1> DEFINE v == frames[1].v
           k == heap.depth
           j == k - 1
           g == Restored(heap, v)
           U == [want EXCEPT ![v] = frames[1].text]
<1>2. heap' = g /\ want' = U
  BY DEF FnLeave, Restored
<1>3. heap \in Heaps /\ Shape(args) /\ FrameShape(frames) /\ want = [w \in Vars |-> want[w]] /\ k \in Nat
  BY <1>1, Going
<1>4. v \in Vars
  BY <1>1, <1>3, FrameFacts
<1>5. PICK s : /\ Framing(args, frames, k, s)
               /\ heap.exposed \/ (Neat(heap) /\ Meaning(heap, args, frames, want, k, s))
  BY <1>1, Going
<1>6. Len(args) = frames[1].base
  <2>1. "fn" \in Ops
    BY <1>1, <1>5 DEF Framing
  <2> QED BY <2>1 DEF FnLeave, Numeric
<1>7. s = k /\ k > 0 /\ Framing(args, <<>>, j, 0)
  BY <1>1, <1>3, <1>5, <1>6, LeaveFraming
<1>8. /\ g \in Heaps /\ g.err = "none" /\ g.exposed = heap.exposed /\ g.depth = j
  BY <1>1, <1>3, <1>4, <1>7, RestoredIs
<1>9. heap.exposed \/ (Neat(g) /\ Meaning(g, args, <<>>, U, j, 0))
  <2> SUFFICES ASSUME ~heap.exposed PROVE Neat(g) /\ Meaning(g, args, <<>>, U, j, 0)
    OBVIOUS
  <2>1. Neat(heap) /\ Framing(args, frames, k, k) /\ Meaning(heap, args, frames, want, k, k)
    BY <1>5, <1>7
  <2>2. U = [want EXCEPT ![v] = frames[1].text] /\ g = Restored(heap, v) /\ j = k - 1 /\ v = frames[1].v /\ k = heap.depth
    OBVIOUS
  <2> HIDE DEF U, g, j, v, k
  <2> QED BY <1>1, <1>3, <1>4, <1>6, <1>7, <2>1, <2>2, MeaningLeave
<1>10. U = [w \in Vars |-> U[w]]
  BY <1>3
<1> HIDE DEF g, U, j, k
<1>11. Sound(g, args, U, <<>>)
  BY <1>7, <1>8, <1>9 DEF Sound
<1>12. Inv(g, args, U, <<>>)
  BY <1>3, <1>8, <1>10, <1>11 DEF Inv, FrameShape
<1> QED BY <1>1, <1>2, <1>12 DEF State

-----------------------------------------------------------------------------
(* The theorems.                                                           *)

\* Every step of the program keeps the invariant.
LEMMA EveryStep ==
  ASSUME State, [Next]_vars, Numeric
  PROVE  State'
<1>1. CASE UNCHANGED vars
  <2>1. heap' = heap /\ args' = args /\ want' = want /\ frames' = frames
    BY <1>1 DEF vars
  <2> QED BY <2>1 DEF State
<1>2. ASSUME NEW v \in Vars, Variable(v) PROVE State'
  BY <1>2, VariableStep
<1>3. ASSUME NEW v \in Vars, Let(v) PROVE State'
  BY <1>3, LetStep
<1>4. ASSUME NEW v \in Vars, FnEnter(v) PROVE State'
  BY <1>4, FnEnterStep
<1>5. ASSUME NEW d \in Literals, Literal(d) PROVE State'
  BY <1>5, LiteralStep
<1>6. ASSUME NEW s \in Made, NewString(s) PROVE State'
  BY <1>6, NewStringStep
<1>7. CASE Concat
  BY <1>7, ConcatStep
<1>8. CASE Slice
  BY <1>8, SliceStep
<1>9. CASE LCase
  BY <1>9, LCaseStep
<1>10. CASE Consume
  BY <1>10, ConsumeStep
<1>11. CASE Compare
  BY <1>11, CompareStep
<1>12. CASE Fre
  BY <1>12, FreStep
<1>13. CASE NewVariable
  BY <1>13, NewVariableStep
<1>14. CASE Dim
  BY <1>14, DimStep
<1>15. CASE FnLeave
  BY <1>15, FnLeaveStep
<1>16. CASE WarmStart
  BY <1>16, WarmStartStep
<1> QED
  BY <1>1, <1>2, <1>3, <1>4, <1>5, <1>6, <1>7, <1>8, <1>9, <1>10, <1>11, <1>12, <1>13, <1>14, <1>15, <1>16 DEF Next

(***************************************************************************)
(* The inductive invariant: every descriptor in use lies in the program    *)
(* text or in string space, no two of them share bytes but those FN has    *)
(* left behind, and each reads back as the program's text, unless the heap *)
(* has been exposed.  It says what the routines of EhBASIC.asm keep true   *)
(* between them, for programs whose functions return numbers.              *)
(***************************************************************************)
THEOREM StringsSound ==
  ASSUME Numeric
  PROVE  Spec => []State
<1>1. Init => State
  BY FirstState
<1>2. State /\ [Next]_vars => State'
  BY EveryStep
<1> QED BY <1>1, <1>2, PTL DEF Spec

(***************************************************************************)
(* Every variable and every pending operand reads back as the text the     *)
(* program gave it, however the collector has moved the bytes (LAB_GARB),  *)
(* unless the heap was exposed in one of the ways the model names.         *)
(***************************************************************************)
THEOREM NothingIsLost ==
  ASSUME Numeric
  PROVE  Spec => []IntactUnlessExposed
<1>1. State => IntactUnlessExposed
  <2> SUFFICES ASSUME State, ~heap.exposed, heap.err = "none"
               PROVE  /\ \A v \in Vars : Read(heap, heap.vars[v]) = want[v]
                      /\ \A i \in DOMAIN args : Read(heap, Get(heap, args[i].ref)) = args[i].text \/ Shadowed(i)
    BY DEF IntactUnlessExposed, StringsIntact
  <2>1. PICK s : Meaning(heap, args, frames, want, heap.depth, s)
    BY Going
  <2>2. \A v \in Vars : Get(heap, VarRef(v)) = heap.vars[v]
    BY DEF Get, VarRef
  <2>3. \A v \in Vars : Read(heap, heap.vars[v]) = want[v]
    BY <2>1, <2>2 DEF Meaning
  <2>4. ASSUME NEW i \in DOMAIN args
        PROVE  Read(heap, Get(heap, args[i].ref)) = args[i].text \/ Shadowed(i)
    BY <2>1 DEF Meaning, OperandRight, Shadow, Shadowed
  <2> QED BY <2>3, <2>4
<1> QED BY <1>1, StringsSound, PTL

(***************************************************************************)
(* Earryl stays at or below Sstorl, and Sstorl within memory, in every     *)
(* heap that was not exposed: LAB_2115 compares before it takes, LAB_22BA  *)
(* gives back only what was taken, DIM checks its end.                     *)
(***************************************************************************)
THEOREM SpaceStaysOrdered ==
  ASSUME Numeric
  PROVE  Spec => [](heap.exposed \/ SpaceOrdered)
<1>1. State => heap.exposed \/ SpaceOrdered
  BY Going DEF SpaceOrdered, Neat, Ordered
<1> QED BY <1>1, StringsSound, PTL

(***************************************************************************)
(* "Out of memory" is reported only when the strings in use really leave   *)
(* less than was asked for: the collector has recovered every other byte   *)
(* before LAB_2115 or DIM gives up.                                        *)
(***************************************************************************)
THEOREM MemoryErrorsAreReal ==
  ASSUME Numeric
  PROVE  Spec => []MemoryErrorIsReal
<1>1. State => MemoryErrorIsReal
  <2> SUFFICES ASSUME State, heap.err = "memory", ~heap.exposed PROVE Cardinality(Unused) < Even(heap.need)
    BY DEF MemoryErrorIsReal
  <2>1. Short(heap)
    BY DEF State, Inv, Stopped
  <2>2. Live = LiveIn(heap)
    BY DEF Live, LiveIn, Refs, OfVars
  <2>3. Unused = UnusedIn(heap)
    BY <2>2 DEF Unused, UnusedIn
  <2> QED BY <2>1, <2>3 DEF Short
<1> QED BY <1>1, StringsSound, PTL

(***************************************************************************)
(* A statement leaves the descriptor stack as empty as it found it: the    *)
(* routines pop every descriptor they push (LAB_22BA, LAB_1811), in every  *)
(* program that calls no function of the program's own.                    *)
(***************************************************************************)
THEOREM EveryDescriptorIsPopped ==
  ASSUME "fn" \notin Ops
  PROVE  Spec => []NoDescriptorLeak
<1>1. Numeric
  BY DEF Numeric
<1>2. State => NoDescriptorLeak
  <2> SUFFICES ASSUME State, heap.err = "none", args = <<>>, frames = <<>> PROVE heap.depth = 0
    BY DEF NoDescriptorLeak, Quiet
  <2>1. PICK s : Framing(args, frames, heap.depth, s)
    BY Going
  <2>2. s = 0 /\ heap.depth \in Nat
    BY <2>1, Going DEF Framing
  <2>3. \A i \in (s + 1)..heap.depth : FALSE
    BY <2>1, NoOperands DEF Framing
  <2> QED BY <2>2, <2>3
<1> QED BY <1>1, <1>2, StringsSound, PTL

=============================================================================
