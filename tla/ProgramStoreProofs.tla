------------------------- MODULE ProgramStoreProofs -------------------------
(***************************************************************************)
(* What is proved of the program store, for every start and size of        *)
(* memory, all line numbers and all texts of lines.                        *)
(*                                                                         *)
(* The invariant, IInv, says where the lines are without following a       *)
(* pointer: from the start of memory to the end marker text lies behind    *)
(* text, each up to its [EOL], with ascending numbers (Text), and the next *)
(* line pointers of all of them are right (Linked).  The search, the block *)
(* moves and the chaining are shown to do what they should to such a       *)
(* memory in this order: walks along pointers; lines, and lines that are   *)
(* moved; one block of lines moved with or without a new line before it;   *)
(* the search; the chaining; a deletion, an insertion and both together.   *)
(***************************************************************************)
EXTENDS ProgramStore, WellFoundedInduction, TLAPS

-----------------------------------------------------------------------------
(* Induction over the natural numbers, for sets of them.                   *)

Less == {p \in Nat \X Nat : p[1] < p[2]}

\* A set of numbers that holds zero and every successor of its elements holds them all.
LEMMA NatSetInduction ==
  ASSUME NEW T, 0 \in T, \A k \in Nat : k \in T => k + 1 \in T
  PROVE  Nat \subseteq T
<1> DEFINE Rest == {k \in Nat : k \notin T}
<1> SUFFICES ASSUME Rest # {} PROVE FALSE
  OBVIOUS
<1>1. IsWellFoundedOn(Less, Nat)
  BY NatLessThanWellFounded DEF OpToRel, Less
<1>2. Rest \subseteq Nat
  OBVIOUS
<1> HIDE DEF Rest
<1>3. \E x \in Rest : \A y \in Rest : ~(<<y, x>> \in Less)
  BY <1>1, <1>2, WFMin, Zenon
<1>4. PICK x \in Rest : \A y \in Rest : ~(<<y, x>> \in Less)
  BY <1>3
<1>5. x \in Nat /\ x # 0 /\ x \notin T
  BY DEF Rest
<1>6. x - 1 \in Nat /\ x - 1 < x /\ (x - 1) + 1 = x
  BY <1>5
<1>7. x - 1 \notin T
  BY <1>5, <1>6
<1>8. x - 1 \in Rest
  BY <1>6, <1>7 DEF Rest
<1>9. <<x - 1, x>> \in Less
  BY <1>5, <1>6 DEF Less
<1> QED
  BY <1>4, <1>8, <1>9

-----------------------------------------------------------------------------
(* Walks.                                                                  *)

\* w holds, for each cell, the cells that Walk passes from there on.
IsWalk(w, next, low) ==
  \A b \in low..Top : w[b] = IF next[b] \in (b + 1)..Top THEN {b} \cup w[next[b]] ELSE {b}

\* A walk leads upwards and memory is finite, so the recursion of Walk has a solution.
LEMMA WalkExists ==
  ASSUME NEW next
  PROVE  \E w \in [Cells -> SUBSET Cells] : IsWalk(w, next, Smeml)
<1> DEFINE n == Top - Smeml
           T == {k \in Nat : k <= n =>
                   \E w \in [(Top - k)..Top -> SUBSET Cells] : IsWalk(w, next, Top - k)}
<1>0. Smeml \in Nat /\ Top \in Nat /\ n \in Nat /\ Top - n = Smeml
  BY ProgramStoreAssumption
<1>1. 0 \in T
  <2> DEFINE w == [b \in Top..Top |-> {b}]
  <2>1. w \in [(Top - 0)..Top -> SUBSET Cells]
    BY <1>0, ProgramStoreAssumption DEF Cells
  <2>2. IsWalk(w, next, Top - 0)
    BY <1>0 DEF IsWalk
  <2> HIDE DEF w
  <2> QED BY <2>1, <2>2
<1>2. ASSUME NEW k \in Nat, k \in T PROVE k + 1 \in T
  <2> HIDE DEF n
  <2> SUFFICES ASSUME k + 1 <= n
               PROVE  \E w \in [(Top - (k + 1))..Top -> SUBSET Cells] : IsWalk(w, next, Top - (k + 1))
    OBVIOUS
  <2>1. PICK v \in [(Top - k)..Top -> SUBSET Cells] : IsWalk(v, next, Top - k)
    BY <1>0, <1>2
  <2> DEFINE z == Top - (k + 1)
             e == IF next[z] \in (z + 1)..Top THEN {z} \cup v[next[z]] ELSE {z}
             w == [b \in z..Top |-> IF b = z THEN e ELSE v[b]]
  <2>2. z \in Cells /\ z \in Int /\ Top - k = z + 1
    BY <1>0 DEF Cells, n
  <2> HIDE DEF z
  <2>3. v \in [(z + 1)..Top -> SUBSET Cells]
    BY <2>1, <2>2
  <2>4. e \in SUBSET Cells
    BY <2>2, <2>3
  <2>5. w[z] = e /\ \A b \in (z + 1)..Top : w[b] = v[b]
    <3> HIDE DEF e
    <3>1. z \in z..Top /\ \A b \in (z + 1)..Top : b \in z..Top /\ b # z
      BY <1>0, <2>2 DEF Cells
    <3> QED BY <3>1
  <2>6. w \in [z..Top -> SUBSET Cells]
    <3> HIDE DEF e
    <3>1. \A b \in z..Top : b # z => b \in (z + 1)..Top
      BY <1>0, <2>2
    <3> QED BY <2>3, <2>4, <3>1
  <2> HIDE DEF w
  <2>7. ASSUME NEW b \in z..Top
        PROVE  w[b] = IF next[b] \in (b + 1)..Top THEN {b} \cup w[next[b]] ELSE {b}
    <3>1. CASE b = z
      <4>1. next[z] \in (z + 1)..Top => w[next[z]] = v[next[z]]
        BY <2>5
      <4> QED BY <2>5, <3>1, <4>1
    <3>2. CASE b # z
      <4>1. b \in (z + 1)..Top
        BY <1>0, <2>2, <3>2
      <4>2. next[b] \in (b + 1)..Top => next[b] \in (z + 1)..Top
        BY <1>0, <2>2, <4>1
      <4>3. next[b] \in (b + 1)..Top => w[next[b]] = v[next[b]]
        BY <2>5, <4>2
      <4>4. v[b] = IF next[b] \in (b + 1)..Top THEN {b} \cup v[next[b]] ELSE {b}
        BY <2>1, <2>2, <4>1 DEF IsWalk
      <4> QED BY <2>5, <4>1, <4>3, <4>4
    <3> QED BY <3>1, <3>2
  <2>8. IsWalk(w, next, z)
    BY <2>7 DEF IsWalk
  <2> QED BY <2>6, <2>8 DEF z
<1> HIDE DEF T
<1>3. Nat \subseteq T
  BY <1>1, <1>2, NatSetInduction
<1>4. n \in T
  BY <1>0, <1>3
<1> QED BY <1>0, <1>4 DEF T, Cells

\* Walk obeys its recursion.
LEMMA WalkStep ==
  ASSUME NEW next
  PROVE  \E w : IsWalk(w, next, Smeml) /\ \A a : Walk(next, a) = w[a]
<1> DEFINE body(w) == [b \in Cells |-> LET to == next[b]
                                       IN  IF to \in (b + 1)..Top THEN {b} \cup w[to] ELSE {b}]
           walk    == CHOOSE w : w = body(w)
<1>1. PICK w \in [Cells -> SUBSET Cells] : IsWalk(w, next, Smeml)
  BY WalkExists
<1>2. w = body(w)
  BY <1>1 DEF IsWalk, Cells
<1>3. walk = body(walk)
  BY <1>2
<1>4. \A a : Walk(next, a) = walk[a]
  BY DEF Walk
<1>5. IsWalk(walk, next, Smeml)
  <2>1. \A b \in Cells : walk[b] = body(walk)[b]
    BY <1>3
  <2> HIDE DEF walk
  <2> QED BY <2>1 DEF IsWalk, Cells
<1> QED BY <1>4, <1>5

\* Following next leads from each cell of S to the next larger one, up to end.
Ladder(next, S, end) ==
  /\ S \subseteq Cells /\ end \in S /\ next[end] \notin (end + 1)..Top
  /\ \A b \in S : b <= end
  /\ \A b \in S : b # end => /\ next[b] \in S /\ b < next[b]
                             /\ \A c \in S : c <= b \/ next[b] <= c

\* What the assumption on the constants says of cells.
LEMMA CellFacts ==
  /\ Smeml \in Nat /\ Smeml >= 1 /\ Top \in Nat /\ Smeml < Top
  /\ Cells = Smeml..Top
  BY ProgramStoreAssumption DEF Cells

\* A walk up a ladder passes all of it that lies above.
LEMMA WalkIs ==
  ASSUME NEW next, NEW S, NEW end, Ladder(next, S, end), NEW a \in S
  PROVE  Walk(next, a) = {b \in S : a <= b}
<1>1. PICK w : IsWalk(w, next, Smeml) /\ \A b : Walk(next, b) = w[b]
  BY WalkStep, Zenon
<1> DEFINE T == {k \in Nat : \A b \in S : Top - k <= b => w[b] = {c \in S : b <= c}}
<1>0. /\ S \subseteq Cells /\ end \in S /\ next[end] \notin (end + 1)..Top
      /\ \A b \in S : b <= end
      /\ \A b \in S : b # end => /\ next[b] \in S /\ b < next[b]
                                 /\ \A c \in S : c <= b \/ next[b] <= c
  BY DEF Ladder
<1>2. \A b \in Cells : w[b] = IF next[b] \in (b + 1)..Top THEN {b} \cup w[next[b]] ELSE {b}
  BY <1>1 DEF IsWalk, Cells
<1>9. S \subseteq Int /\ \A b \in S : b \in Cells /\ b \in Int /\ Smeml <= b /\ b <= Top
  BY <1>0, CellFacts
<1>3. w[end] = {c \in S : end <= c}
  <2>1. w[end] = {end}
    BY <1>0, <1>2
  <2>2. \A c \in S : end <= c => c = end
    BY <1>0, CellFacts
  <2> QED BY <1>0, <2>1, <2>2, CellFacts
<1>4. ASSUME NEW b \in S, b # end, w[next[b]] = {c \in S : next[b] <= c}
      PROVE  w[b] = {c \in S : b <= c}
  <2>1. next[b] \in S /\ b < next[b] /\ \A c \in S : c <= b \/ next[b] <= c
    BY <1>0, <1>4
  <2>2. b \in Cells /\ next[b] \in (b + 1)..Top
    <3>1. next[b] \in Int /\ b \in Int /\ next[b] <= Top /\ b \in Cells
      BY <1>9, <2>1
    <3> QED BY <2>1, <3>1, CellFacts
  <2>3. w[b] = {b} \cup {c \in S : next[b] <= c}
    BY <1>2, <1>4, <2>2
  <2>4. \A c \in S : b <= c <=> (c = b \/ next[b] <= c)
    BY <1>0, <2>1, <2>2, CellFacts
  <2> QED BY <2>3, <2>4
<1>5. 0 \in T
  <2>1. \A b \in S : Top - 0 <= b => b = end
    BY <1>0, CellFacts
  <2> QED BY <1>3, <2>1
<1>6. ASSUME NEW k \in Nat, k \in T PROVE k + 1 \in T
  <2> SUFFICES ASSUME NEW b \in S, Top - (k + 1) <= b PROVE w[b] = {c \in S : b <= c}
    OBVIOUS
  <2>1. CASE b = end
    BY <1>3, <2>1
  <2>2. CASE b # end
    <3>1. next[b] \in S /\ Top - k <= next[b]
      <4>1. next[b] \in S /\ b < next[b]
        BY <1>0, <2>2
      <4>2. next[b] \in Int /\ b \in Int
        BY <1>9, <4>1
      <4> QED BY <4>1, <4>2, CellFacts
    <3>2. w[next[b]] = {c \in S : next[b] <= c}
      BY <1>6, <3>1
    <3> QED BY <1>4, <2>2, <3>2
  <2> QED BY <2>1, <2>2
<1>7. Nat \subseteq T
  <2> HIDE DEF T
  <2> QED BY <1>5, <1>6, NatSetInduction
<1>8. a \in Cells /\ Top - (Top - a) <= a /\ Top - a \in Nat
  BY <1>0, CellFacts
<1> QED BY <1>1, <1>7, <1>8

\* The line at a ends below z.
LineAt(m, a, z) ==
  /\ a + 2 < z /\ z - 1 <= Top
  /\ m[z - 1] = Eol
  /\ \A b \in (a + 2)..(z - 2) : m[b] # Eol

\* The cell behind a line's [EOL] is found.
LEMMA AfterLineIs ==
  ASSUME NEW m, NEW a \in Int, NEW z \in Int, LineAt(m, a, z)
  PROVE  AfterLine(m, a) = z
<1> DEFINE ends(b) == m[b] = Eol /\ \A c \in (a + 2)..(b - 1) : m[c] # Eol
           b0 == CHOOSE b \in (a + 2)..Top : ends(b)
<1>0. Top \in Int
  BY CellFacts
<1>1. z - 1 \in (a + 2)..Top /\ ends(z - 1)
  BY <1>0 DEF LineAt
<1>2. \E b \in (a + 2)..Top : ends(b)
  BY <1>1
<1>3. b0 \in (a + 2)..Top /\ ends(b0)
  <2> HIDE DEF ends
  <2> QED BY <1>2
<1> HIDE DEF b0
<1>4. b0 = z - 1
  <2>1. ~(b0 < z - 1)
    BY <1>0, <1>1, <1>3
  <2>2. ~(z - 1 < b0)
    BY <1>0, <1>1, <1>3
  <2> QED BY <1>0, <1>1, <1>3, <2>1, <2>2
<1>5. AfterLine(m, a) = 1 + b0
  BY <1>2 DEF AfterLine, b0
<1> QED BY <1>4, <1>5

\* The text of the line at a.
Body(m, a) == [i \in 1..(AfterLine(m, a) - a - 2) |-> m[a + 1 + i]]

\* The line at x in p, which ends below w, is the line at a in m, which ends below z.
Twins(p, x, w, m, a, z) ==
  /\ LineAt(p, x, w) /\ AfterLine(p, x) = w /\ AfterLine(m, a) = z
  /\ p[x + 1] = m[a + 1] /\ Body(p, x) = Body(m, a)

\* A line is a line wherever it is moved to.
LEMMA SameLine ==
  ASSUME NEW m, NEW p, NEW a \in Int, NEW z \in Int, NEW j \in Int,
         LineAt(m, a, z), z + j - 1 <= Top,
         \A b \in (a + 1)..(z - 1) : p[b + j] = m[b]
  PROVE  Twins(p, a + j, z + j, m, a, z)
<1>0. Top \in Int
  BY CellFacts
<1>1. LineAt(p, a + j, z + j)
  <2>1. p[z - 1 + j] = m[z - 1] /\ z - 1 + j = z + j - 1
    BY <1>0 DEF LineAt
  <2>2. ASSUME NEW b \in (a + j + 2)..(z + j - 2) PROVE p[b] # Eol
    <3>1. b - j \in (a + 2)..(z - 2) /\ b - j \in (a + 1)..(z - 1) /\ b - j + j = b
      OBVIOUS
    <3>2. p[b - j + j] = m[b - j] /\ m[b - j] # Eol
      BY <3>1 DEF LineAt
    <3> QED BY <3>1, <3>2
  <2> QED BY <1>0, <2>1, <2>2 DEF LineAt
<1>2. AfterLine(p, a + j) = z + j /\ AfterLine(m, a) = z
  BY <1>1, AfterLineIs
<1>3. p[a + j + 1] = m[a + 1]
  <2>1. a + 1 \in (a + 1)..(z - 1) /\ a + 1 + j = a + j + 1
    BY DEF LineAt
  <2> QED BY <2>1
<1>4. Body(p, a + j) = Body(m, a)
  <2>1. z + j - (a + j) - 2 = z - a - 2
    OBVIOUS
  <2>2. \A i \in 1..(z - a - 2) : p[a + j + 1 + i] = m[a + 1 + i]
    <3> TAKE i \in 1..(z - a - 2)
    <3>1. a + 1 + i \in (a + 1)..(z - 1) /\ a + 1 + i + j = a + j + 1 + i
      OBVIOUS
    <3> QED BY <3>1
  <2> QED BY <1>2, <2>1, <2>2 DEF Body
<1> QED BY <1>1, <1>2, <1>3, <1>4 DEF Twins

-----------------------------------------------------------------------------
(* The text of a program.                                                  *)

\* The lines at L follow each other by their [EOL]s up to the end marker, in
\* the order of their numbers, whatever their next line pointers say.
Text(m, L, end) ==
  /\ m \in [Cells -> Int] /\ L \subseteq Cells /\ end \in Cells
  /\ m[end] = Eol /\ Smeml \in L \cup {end}
  /\ \A a \in L : /\ a < end /\ m[a] # Eol /\ m[a + 1] \in Numbers
                  /\ AfterLine(m, a) \in L \cup {end}
                  /\ LineAt(m, a, AfterLine(m, a))
                  /\ \A c \in L \cup {end} : c <= a \/ AfterLine(m, a) <= c
  /\ \A a, b \in L : a < b => m[a + 1] < m[b + 1]

\* The pointers of the lines below a are right.
Linked(m, L, a) == \A b \in L : b < a => m[b] = AfterLine(m, b)

\* The numbers of the lines at L with their texts.
Lines(m, L) == {<<m[a + 1], Body(m, a)>> : a \in L}

\* Where a line of a program lies.
LEMMA TextFacts ==
  ASSUME NEW m, NEW L, NEW end, Text(m, L, end), NEW a \in L
  PROVE  /\ a \in Int /\ a >= Smeml /\ end \in Int /\ end <= Top
         /\ AfterLine(m, a) \in Int /\ a + 2 < AfterLine(m, a) /\ AfterLine(m, a) <= end
         /\ \A b \in (a + 1)..(AfterLine(m, a) - 1) : b \in Cells /\ b \notin L \cup {end}
         /\ Numbers \subseteq Int /\ m[a + 1] \in Int
<1>0. /\ L \subseteq Cells /\ end \in Cells /\ a < end /\ m[a + 1] \in Numbers
      /\ AfterLine(m, a) \in L \cup {end} /\ LineAt(m, a, AfterLine(m, a))
      /\ \A c \in L \cup {end} : c <= a \/ AfterLine(m, a) <= c
      /\ \A c \in L : c < end
  BY DEF Text
<1>1. Numbers \subseteq Int
  BY ProgramStoreAssumption
<1> DEFINE z == AfterLine(m, a)
<1>2. z \in Int /\ a \in Int /\ end \in Int /\ a >= Smeml /\ end <= Top /\ z <= end
  <2> HIDE DEF z
  <2>1. z \in L \cup {end}
    BY <1>0 DEF z
  <2>2. a \in Cells /\ z \in Cells
    BY <1>0, <2>1
  <2>3. z = end \/ z < end
    BY <1>0, <2>1
  <2> QED BY <1>0, <2>2, <2>3, CellFacts
<1>3. a + 2 < z
  BY <1>0 DEF LineAt
<1> HIDE DEF z
<1>4. \A b \in (a + 1)..(z - 1) : b \in Cells /\ b \notin L \cup {end}
  <2> TAKE b \in (a + 1)..(z - 1)
  <2>1. b \in Cells
    BY <1>2, CellFacts
  <2>2. ~(b <= a \/ z <= b)
    BY <1>2
  <2> QED BY <1>0, <2>1, <2>2 DEF z
<1> QED BY <1>0, <1>1, <1>2, <1>3, <1>4 DEF z

-----------------------------------------------------------------------------
(* Moving a block of lines.                                                *)

\* Lines below a cell that only text behind it changes.
LEMMA LowLine ==
  ASSUME NEW m, NEW L, NEW end, Text(m, L, end), NEW a \in L \cup {end}, NEW p,
         \A b \in Cells : b < a => p[b] = m[b],
         NEW x \in L, x < a
  PROVE  /\ AfterLine(p, x) = AfterLine(m, x) /\ LineAt(p, x, AfterLine(m, x))
         /\ p[x] = m[x] /\ p[x + 1] = m[x + 1] /\ Body(p, x) = Body(m, x)
         /\ AfterLine(m, x) <= a
<1> DEFINE z == AfterLine(m, x)
<1>1. /\ x \in Int /\ z \in Int /\ end \in Int /\ end <= Top /\ x + 2 < z
      /\ \A b \in (x + 1)..(z - 1) : b \in Cells
  BY TextFacts
<1>2. LineAt(m, x, z) /\ (a <= x \/ z <= a) /\ x \in Cells /\ a \in Cells
  BY DEF Text
<1>3. a \in Int /\ a <= Top
  BY <1>2, CellFacts
<1> HIDE DEF z
<1>4. z <= a
  BY <1>1, <1>2, <1>3
<1> DEFINE j == 0
<1>5. j \in Int /\ x + j = x /\ z + j = z /\ z + j - 1 <= Top
  BY <1>1, <1>3, <1>4, CellFacts
<1>6. \A b \in (x + 1)..(z - 1) : p[b + j] = m[b]
  <2> TAKE b \in (x + 1)..(z - 1)
  <2>1. b \in Cells /\ b < a /\ b + j = b
    BY <1>1, <1>3, <1>4
  <2> QED BY <2>1
<1> HIDE DEF j
<1>7. Twins(p, x + j, z + j, m, x, z)
  BY <1>1, <1>2, <1>5, <1>6, SameLine
<1>8. p[x + 1] = m[x + 1]
  BY <1>5, <1>7 DEF Twins
<1>9. p[x] = m[x]
  BY <1>2
<1> QED BY <1>4, <1>5, <1>7, <1>8, <1>9 DEF z, Twins

\* Lines of a block that is moved by j.
LEMMA HighLine ==
  ASSUME NEW m, NEW L, NEW end, Text(m, L, end), NEW c \in L \cup {end}, NEW p,
         NEW j \in Int, end + j <= Top, \A b \in c..end : p[b + j] = m[b],
         NEW x \in L, c <= x
  PROVE  /\ AfterLine(p, x + j) = AfterLine(m, x) + j /\ LineAt(p, x + j, AfterLine(m, x) + j)
         /\ p[x + j] = m[x] /\ p[x + j + 1] = m[x + 1] /\ Body(p, x + j) = Body(m, x)
<1> DEFINE z == AfterLine(m, x)
<1>1. /\ x \in Int /\ z \in Int /\ end \in Int /\ end <= Top /\ x + 2 < z /\ z <= end
  BY TextFacts
<1>2. LineAt(m, x, z) /\ c \in Cells
  BY DEF Text
<1>3. c \in Int /\ Top \in Int
  BY <1>2, CellFacts
<1> HIDE DEF z
<1>5. \A b \in (x + 1)..(z - 1) : p[b + j] = m[b]
  <2> TAKE b \in (x + 1)..(z - 1)
  <2>1. b \in c..end
    BY <1>1, <1>3
  <2> QED BY <2>1
<1>6. z + j - 1 <= Top
  BY <1>1, <1>3
<1>7. Twins(p, x + j, z + j, m, x, z)
  BY <1>1, <1>2, <1>5, <1>6, SameLine
<1>9. p[x + j] = m[x]
  <2>1. x \in c..end
    BY <1>1, <1>3
  <2> QED BY <2>1
<1> QED BY <1>7, <1>9 DEF z, Twins

Low(L, a)  == {b \in L : b < a}
High(L, c) == {b \in L : c <= b}

\* What lines up to a, a new line at a or none, and the lines from c on moved by j make up.
Spliced(L, a, c, j, new) == Low(L, a) \cup new \cup {b + j : b \in High(L, c)}

\* p is m with its lines from c on moved by j, and at a a new line of number n if there is room.
Splices(p, m, L, end, a, c, j, new) ==
  /\ p \in [Cells -> Int]
  /\ \A b \in Cells : b < a => p[b] = m[b]
  /\ \A b \in c..end : p[b + j] = m[b]
  /\ new \subseteq {a}
  /\ new = {} => c + j = a
  /\ new # {} => /\ AfterLine(p, a) = c + j /\ LineAt(p, a, c + j)
                 /\ p[a] # Eol /\ p[a + 1] \in Numbers
                 /\ \A b \in L : b < a => m[b + 1] < p[a + 1]
                 /\ \A b \in L : c <= b => p[a + 1] < m[b + 1]

\* The block moves keep a program a program, with the lines they should.
LEMMA SplicedText ==
  ASSUME NEW m, NEW L, NEW end, Text(m, L, end),
         NEW a \in L \cup {end}, NEW c \in L \cup {end}, a <= c,
         NEW j \in Int, a <= c + j, end + j <= Top,
         NEW new, NEW p, Splices(p, m, L, end, a, c, j, new)
  PROVE  LET K == Spliced(L, a, c, j, new) IN
         /\ Text(p, K, end + j)
         /\ a \in K \cup {end + j}
         /\ Linked(m, L, a) => Linked(p, K, a)
         /\ Lines(p, K) = Lines(m, Low(L, a)) \cup Lines(p, new) \cup Lines(m, High(L, c))
<1> DEFINE Lo == Low(L, a)
           Hi == High(L, c)
           Up == {b + j : b \in Hi}
           K == Spliced(L, a, c, j, new)
           e == end + j
<1>1. /\ p \in [Cells -> Int]
      /\ \A b \in Cells : b < a => p[b] = m[b]
      /\ \A b \in c..end : p[b + j] = m[b]
      /\ new \subseteq {a}
      /\ new = {} => c + j = a
      /\ new # {} => /\ AfterLine(p, a) = c + j /\ LineAt(p, a, c + j)
                     /\ p[a] # Eol /\ p[a + 1] \in Numbers
                     /\ \A b \in L : b < a => m[b + 1] < p[a + 1]
                     /\ \A b \in L : c <= b => p[a + 1] < m[b + 1]
  BY DEF Splices
<1>2. /\ L \subseteq Cells /\ end \in Cells /\ m[end] = Eol /\ Smeml \in L \cup {end}
      /\ \A x \in L : x < end
  BY DEF Text
<1>3. /\ \A x \in L : x \in Int /\ x >= Smeml /\ x <= Top
      /\ end \in Int /\ a \in Int /\ c \in Int /\ a >= Smeml /\ e \in Int
      /\ Smeml \in Int /\ Top \in Int /\ a <= end /\ c <= end
  BY <1>2, CellFacts
<1>4. K = Lo \cup new \cup Up
  BY DEF Spliced
<1>5. /\ \A x \in Lo : x \in L /\ x < a
      /\ \A x \in Hi : x \in L /\ c <= x
      /\ \A x \in L : x < a => x \in Lo
      /\ \A x \in L : c <= x => x \in Hi
  BY DEF Low, High
<1> HIDE DEF Lo, Hi, K, e
<1>6. a \in K \cup {e}
  <2>1. CASE new = {}
    <3>1. c + j = a
      BY <1>1, <2>1
    <3>2. CASE c = end
      BY <3>1, <3>2 DEF e
    <3>3. CASE c \in L
      <4>1. c \in Hi
        BY <1>3, <1>5, <3>3
      <4> QED BY <1>4, <3>1, <4>1
    <3> QED BY <3>2, <3>3
  <2>2. CASE new # {}
    BY <1>1, <1>4, <2>2
  <2> QED BY <2>1, <2>2
<1>7. e \in Cells /\ p[e] = Eol /\ a <= e
  <2>1. end \in c..end
    BY <1>3
  <2>2. p[e] = Eol
    BY <1>1, <1>2, <2>1 DEF e
  <2>3. e \in Int /\ Smeml <= e /\ e <= Top /\ a <= e
    BY <1>3 DEF e
  <2> QED BY <2>2, <2>3, CellFacts
<1>8. ASSUME NEW x \in Lo
      PROVE  /\ x \in Cells /\ x < a /\ p[x] = m[x] /\ m[x] # Eol
             /\ p[x + 1] = m[x + 1] /\ m[x + 1] \in Numbers /\ Body(p, x) = Body(m, x)
             /\ AfterLine(p, x) = AfterLine(m, x) /\ LineAt(p, x, AfterLine(p, x))
             /\ AfterLine(p, x) \in Lo \cup {a}
             /\ \A y \in Lo : y <= x \/ AfterLine(p, x) <= y
             /\ AfterLine(p, x) <= a
  <2>1. x \in L /\ x < a
    BY <1>5
  <2>2. /\ AfterLine(p, x) = AfterLine(m, x) /\ LineAt(p, x, AfterLine(m, x))
        /\ p[x] = m[x] /\ p[x + 1] = m[x + 1] /\ Body(p, x) = Body(m, x)
        /\ AfterLine(m, x) <= a
    BY <1>1, <2>1, LowLine
  <2>3. /\ m[x] # Eol /\ m[x + 1] \in Numbers /\ AfterLine(m, x) \in L \cup {end}
        /\ \A y \in L \cup {end} : y <= x \/ AfterLine(m, x) <= y
    BY <2>1 DEF Text
  <2>4. AfterLine(m, x) \in Int
    BY <2>1, TextFacts
  <2>5. AfterLine(m, x) \in Lo \cup {a}
    <3>1. CASE AfterLine(m, x) = a
      BY <3>1
    <3>2. CASE AfterLine(m, x) # a
      <4>1. AfterLine(m, x) < a
        BY <1>3, <2>2, <2>4, <3>2
      <4>2. AfterLine(m, x) \in L
        BY <1>3, <2>3, <4>1
      <4> QED BY <1>5, <4>1, <4>2
    <3> QED BY <3>1, <3>2
  <2> QED BY <1>2, <1>5, <2>1, <2>2, <2>3, <2>5
<1>9. ASSUME NEW x \in Hi
      PROVE  /\ x + j \in Cells /\ a <= x + j /\ c + j <= x + j /\ x + j < e /\ p[x + j] # Eol
             /\ p[x + j + 1] = m[x + 1] /\ m[x + 1] \in Numbers /\ Body(p, x + j) = Body(m, x)
             /\ AfterLine(p, x + j) = AfterLine(m, x) + j /\ LineAt(p, x + j, AfterLine(p, x + j))
             /\ AfterLine(p, x + j) \in Up \cup {e}
             /\ \A y \in Up \cup {e} : y <= x + j \/ AfterLine(p, x + j) <= y
  <2>1. x \in L /\ c <= x
    BY <1>5
  <2>2. /\ AfterLine(p, x + j) = AfterLine(m, x) + j /\ LineAt(p, x + j, AfterLine(m, x) + j)
        /\ p[x + j] = m[x] /\ p[x + j + 1] = m[x + 1] /\ Body(p, x + j) = Body(m, x)
    BY <1>1, <2>1, HighLine
  <2>3. /\ m[x] # Eol /\ m[x + 1] \in Numbers /\ AfterLine(m, x) \in L \cup {end}
        /\ \A y \in L \cup {end} : y <= x \/ AfterLine(m, x) <= y
    BY <2>1 DEF Text
  <2>4. AfterLine(m, x) \in Int /\ x < AfterLine(m, x)
    BY <2>1, TextFacts
  <2>5. AfterLine(m, x) + j \in Up \cup {e}
    <3>1. CASE AfterLine(m, x) = end
      BY <3>1 DEF e
    <3>2. CASE AfterLine(m, x) \in L
      <4>1. AfterLine(m, x) \in Hi
        BY <1>3, <1>5, <2>1, <2>4, <3>2
      <4> QED BY <4>1
    <3> QED BY <2>3, <3>1, <3>2
  <2>6. /\ x + j \in Int /\ a <= x + j /\ c + j <= x + j /\ x + j < e
    <3>1. x < end /\ x \in Int
      BY <1>2, <1>3, <2>1
    <3> QED BY <1>3, <2>1, <3>1 DEF e
  <2>7. x + j \in Cells
    BY <1>3, <1>7, <2>6, CellFacts
  <2>8. ASSUME NEW y \in Up \cup {e}
        PROVE  y <= x + j \/ AfterLine(m, x) + j <= y
    <3>1. PICK y0 \in L \cup {end} : y = y0 + j
      <4>1. CASE y = e
        BY <4>1 DEF e
      <4>2. CASE y \in Up
        BY <1>5, <4>2
      <4> QED BY <4>1, <4>2
    <3>2. y0 \in Int /\ x \in Int /\ (y0 <= x \/ AfterLine(m, x) <= y0)
      BY <1>3, <2>1, <2>3
    <3> QED BY <2>4, <3>1, <3>2
  <2> QED BY <2>2, <2>3, <2>5, <2>6, <2>7, <2>8
<1>10. ASSUME NEW x \in K
       PROVE  /\ x \in Cells /\ x < e /\ p[x] # Eol /\ p[x + 1] \in Numbers
              /\ AfterLine(p, x) \in K \cup {e} /\ LineAt(p, x, AfterLine(p, x))
              /\ \A y \in K \cup {e} : y <= x \/ AfterLine(p, x) <= y
  <2>1. CASE x \in Lo
    <3>1. /\ x \in Cells /\ x < e /\ p[x] # Eol /\ p[x + 1] \in Numbers
          /\ LineAt(p, x, AfterLine(p, x))
      <4>1. x \in Int /\ x < a
        BY <1>8, <2>1, CellFacts
      <4> QED BY <1>3, <1>7, <1>8, <2>1, <4>1
    <3>2. AfterLine(p, x) \in K \cup {e}
      BY <1>4, <1>6, <1>8, <2>1
    <3>3. ASSUME NEW y \in K \cup {e} PROVE y <= x \/ AfterLine(p, x) <= y
      <4>1. CASE y \in Lo
        BY <1>8, <2>1, <4>1
      <4>2. CASE y \notin Lo
        <5>1. a <= y
          <6>1. CASE y = e
            BY <1>7, <6>1
          <6>2. CASE y \in new
            BY <1>1, <1>3, <6>2
          <6>3. CASE y \in Up
            BY <1>9, <6>3
          <6> QED BY <1>4, <4>2, <6>1, <6>2, <6>3
        <5>2. y \in Int
          <6>1. CASE y = e
            BY <1>3, <6>1
          <6>2. CASE y \in new
            BY <1>1, <1>3, <6>2
          <6>3. CASE y \in Up
            BY <1>9, <6>3, CellFacts
          <6> QED BY <1>4, <4>2, <6>1, <6>2, <6>3
        <5>3. AfterLine(p, x) <= a /\ AfterLine(p, x) \in Int
          <6>1. \A b \in Lo \cup {a} : b \in Int
            BY <1>3, <1>5
          <6> QED BY <1>8, <2>1, <6>1
        <5> QED BY <1>3, <5>1, <5>2, <5>3
      <4> QED BY <4>1, <4>2
    <3> QED BY <3>1, <3>2, <3>3
  <2>2. CASE x \in new
    <3>1. x = a /\ new # {}
      BY <1>1, <2>2
    <3>2. /\ AfterLine(p, a) = c + j /\ LineAt(p, a, c + j)
          /\ p[a] # Eol /\ p[a + 1] \in Numbers
      BY <1>1, <3>1
    <3>3. a < c + j /\ c + j <= e
      BY <1>3, <3>2 DEF LineAt, e
    <3>4. c + j \in K \cup {e}
      <4>1. CASE c = end
        BY <4>1 DEF e
      <4>2. CASE c \in L
        <5>1. c \in Hi
          BY <1>3, <1>5, <4>2
        <5> QED BY <1>4, <5>1
      <4> QED BY <4>1, <4>2
    <3>5. ASSUME NEW y \in K \cup {e} PROVE y <= a \/ c + j <= y
      <4>1. CASE y = e
        BY <3>3, <4>1
      <4>2. CASE y \in new
        BY <1>1, <1>3, <4>2
      <4>3. CASE y \in Up
        BY <1>9, <4>3
      <4>4. CASE y \in Lo
        <5>1. y \in Int /\ y < a
          BY <1>3, <1>5, <4>4
        <5> QED BY <1>3, <5>1
      <4> QED BY <1>4, <4>1, <4>2, <4>3, <4>4
    <3>6. a \in Cells /\ a < e
      <4>1. a < e
        BY <1>3, <3>3
      <4> QED BY <1>2, <4>1
    <3> QED BY <3>1, <3>2, <3>4, <3>5, <3>6
  <2>3. CASE x \in Up
    <3>1. PICK x0 \in Hi : x = x0 + j
      BY <2>3
    <3>2. /\ x \in Cells /\ a <= x /\ x < e /\ p[x] # Eol /\ p[x + 1] \in Numbers
          /\ LineAt(p, x, AfterLine(p, x)) /\ AfterLine(p, x) \in K \cup {e}
          /\ \A y \in Up \cup {e} : y <= x \/ AfterLine(p, x) <= y
      BY <1>4, <1>9, <3>1
    <3>3. ASSUME NEW y \in K \cup {e} PROVE y <= x \/ AfterLine(p, x) <= y
      <4>1. CASE y \in Up \cup {e}
        BY <3>2, <4>1
      <4>2. CASE y \notin Up \cup {e}
        <5>1. y \in Int /\ y <= a
          <6>1. CASE y \in new
            BY <1>1, <1>3, <6>1
          <6>2. CASE y \in Lo
            <7>1. y \in Int /\ y < a
              BY <1>3, <1>5, <6>2
            <7> QED BY <1>3, <7>1
          <6> QED BY <1>4, <4>2, <6>1, <6>2
        <5>2. x \in Int
          BY <3>2, CellFacts
        <5> QED BY <1>3, <3>2, <5>1, <5>2
      <4> QED BY <4>1, <4>2
    <3> QED BY <3>2, <3>3
  <2> QED BY <1>4, <2>1, <2>2, <2>3
<1>11. ASSUME NEW x \in K, NEW y \in K, x < y
       PROVE  p[x + 1] < p[y + 1]
  <2>0. \A u, v \in L : u < v => m[u + 1] < m[v + 1]
    BY DEF Text
  <2>1. CASE x \in Lo /\ y \in Lo
    BY <1>5, <1>8, <1>11, <2>0, <2>1
  <2>2. CASE x \in Lo /\ y \in new
    BY <1>1, <1>5, <1>8, <2>2
  <2>3. CASE x \in Lo /\ y \in Up
    <3>1. PICK y0 \in Hi : y = y0 + j
      BY <2>3
    <3>2. x \in L /\ y0 \in L /\ x < y0
      <4>1. x \in L /\ x < a /\ y0 \in L /\ c <= y0
        BY <1>5, <2>3
      <4>2. x \in Int /\ y0 \in Int
        BY <1>3, <4>1
      <4> QED BY <1>3, <4>1, <4>2
    <3> QED BY <1>8, <1>9, <2>0, <2>3, <3>1, <3>2
  <2>4. CASE x \in new /\ y \in Up
    <3>1. PICK y0 \in Hi : y = y0 + j
      BY <2>4
    <3> QED BY <1>1, <1>5, <1>9, <2>4, <3>1
  <2>5. CASE x \in Up /\ y \in Up
    <3>1. PICK x0 \in Hi, y0 \in Hi : x = x0 + j /\ y = y0 + j
      BY <2>5
    <3>2. x0 \in L /\ y0 \in L /\ x0 \in Int /\ y0 \in Int
      BY <1>3, <1>5
    <3>3. x0 < y0
      BY <1>11, <3>1, <3>2
    <3> QED BY <1>9, <2>0, <3>1, <3>2, <3>3
  <2>6. ASSUME x \in new \cup Up, y \in Lo \cup new, ~(x \in new /\ y \in Up) PROVE FALSE
    <3>1. a <= x /\ x \in Int
      <4>1. CASE x \in new
        BY <1>1, <1>3, <4>1
      <4>2. CASE x \in Up
        <5>1. x \in Cells /\ a <= x
          BY <1>9, <4>2
        <5> QED BY <5>1, CellFacts
      <4> QED BY <2>6, <4>1, <4>2
    <3>2. y <= a /\ y \in Int
      <4>1. CASE y \in new
        BY <1>1, <1>3, <4>1
      <4>2. CASE y \in Lo
        <5>1. y \in Int /\ y < a
          BY <1>3, <1>5, <4>2
        <5> QED BY <1>3, <5>1
      <4> QED BY <2>6, <4>1, <4>2
    <3> QED BY <1>3, <1>11, <3>1, <3>2
  <2> QED BY <1>4, <2>1, <2>2, <2>3, <2>4, <2>5, <2>6
<1>12. Text(p, K, e)
  <2>1. Smeml \in K \cup {e}
    <3>1. CASE Smeml = a
      BY <1>6, <3>1
    <3>2. CASE Smeml # a
      <4>1. Smeml < a /\ Smeml # end
        BY <1>3, <3>2
      <4>2. Smeml \in Lo
        BY <1>2, <1>5, <4>1
      <4> QED BY <1>4, <4>2
    <3> QED BY <3>1, <3>2
  <2>2. K \subseteq Cells
    BY <1>10
  <2> QED BY <1>1, <1>7, <1>10, <1>11, <2>1, <2>2 DEF Text
<1>13. Linked(m, L, a) => Linked(p, K, a)
  <2> SUFFICES ASSUME Linked(m, L, a), NEW x \in K, x < a PROVE p[x] = AfterLine(p, x)
    BY DEF Linked
  <2>1. x \in Lo
    <3>1. CASE x \in new
      BY <1>1, <1>3, <3>1
    <3>2. CASE x \in Up
      <4>1. a <= x /\ x \in Cells
        BY <1>9, <3>2
      <4> QED BY <1>3, <4>1, CellFacts
    <3> QED BY <1>4, <3>1, <3>2
  <2>2. m[x] = AfterLine(m, x)
    BY <1>5, <2>1 DEF Linked
  <2> QED BY <1>8, <2>1, <2>2
<1>14. Lines(p, K) = Lines(m, Lo) \cup Lines(p, new) \cup Lines(m, Hi)
  <2>1. Lines(p, K) = Lines(p, Lo) \cup Lines(p, new) \cup Lines(p, Up)
    BY <1>4 DEF Lines
  <2>2. Lines(p, Lo) = Lines(m, Lo)
    <3>1. \A x \in Lo : <<p[x + 1], Body(p, x)>> = <<m[x + 1], Body(m, x)>>
      BY <1>8
    <3> QED BY <3>1 DEF Lines
  <2>3. Lines(p, Up) = Lines(m, Hi)
    <3>1. \A x \in Hi : <<p[x + j + 1], Body(p, x + j)>> = <<m[x + 1], Body(m, x)>>
      BY <1>9
    <3>2. Lines(p, Up) = {<<p[x + j + 1], Body(p, x + j)>> : x \in Hi}
      BY DEF Lines
    <3> QED BY <3>1, <3>2 DEF Lines
  <2> QED BY <2>1, <2>2, <2>3
<1> QED BY <1>6, <1>12, <1>13, <1>14 DEF K, Lo, Hi, e

-----------------------------------------------------------------------------
(* A program whose pointers are right.                                     *)

Program(m, L, end) == Text(m, L, end) /\ Linked(m, L, end)

\* Among some cells there is a first one,
LEMMA FirstIs ==
  ASSUME NEW S, S \subseteq Cells, S # {}
  PROVE  First(S) \in S /\ \A b \in S : First(S) <= b
<1>1. IsWellFoundedOn(Less, Nat)
  BY NatLessThanWellFounded DEF OpToRel, Less
<1>2. S \subseteq Nat
  BY CellFacts
<1>3. \E x \in S : \A y \in S : ~(<<y, x>> \in Less)
  BY <1>1, <1>2, WFMin, Zenon
<1>4. PICK x \in S : \A y \in S : ~(<<y, x>> \in Less)
  BY <1>3
<1>5. \A y \in S : x <= y
  <2> TAKE y \in S
  <2>1. x \in Nat /\ y \in Nat /\ ~(<<y, x>> \in Less)
    BY <1>2, <1>4
  <2> QED BY <2>1 DEF Less
<1>6. \E a \in S : \A b \in S : a <= b
  BY <1>5
<1> QED BY <1>6 DEF First

\* and a last one.
LEMMA LastIs ==
  ASSUME NEW S, S \subseteq Cells, S # {}
  PROVE  \E x \in S : \A b \in S : b <= x
<1> DEFINE T == {k \in Cells : \E b \in S : k = Smeml + Top - b}
<1>1. T \subseteq Cells /\ T # {}
  <2>1. PICK b \in S : TRUE
    OBVIOUS
  <2>2. Smeml + Top - b \in Cells
    BY CellFacts
  <2> QED BY <2>2
<1>2. \A b \in S : Smeml + Top - b \in T
  BY CellFacts
<1> DEFINE k == First(T)
<1>3. k \in T /\ \A i \in T : k <= i
  <2> HIDE DEF T
  <2> QED BY <1>1, FirstIs
<1> HIDE DEF k
<1>4. PICK x \in S : k = Smeml + Top - x
  BY <1>3
<1>5. \A b \in S : b <= x
  <2> TAKE b \in S
  <2>1. k <= Smeml + Top - b
    BY <1>2, <1>3
  <2>2. b \in Int /\ x \in Int
    BY CellFacts
  <2> QED BY <1>4, <2>1, <2>2, CellFacts
<1> QED BY <1>5

\* The pointers of a program lead along its lines to its end.
LEMMA ChainIs ==
  ASSUME NEW m, NEW L, NEW end, Program(m, L, end)
  PROVE  Walk(m, Smeml) = L \cup {end} /\ Chain(m) = L
<1> DEFINE S == L \cup {end}
<1>0. Text(m, L, end) /\ \A b \in L : m[b] = AfterLine(m, b)
  BY DEF Program, Linked, Text
<1>1. /\ L \subseteq Cells /\ end \in Cells /\ m[end] = 0 /\ Smeml \in S
      /\ \A b \in L : b < end /\ m[b] # 0 /\ AfterLine(m, b) \in S
                      /\ \A c \in S : c <= b \/ AfterLine(m, b) <= c
  BY <1>0 DEF Text, Eol
<1>2. end \in Int /\ \A b \in S : b \in Int /\ Smeml <= b
  BY <1>1, CellFacts
<1>3. Ladder(m, S, end)
  <2>1. m[end] \notin (end + 1)..Top
    BY <1>1, <1>2, CellFacts
  <2>2. \A b \in S : b <= end
    BY <1>1, <1>2
  <2>3. ASSUME NEW b \in S, b # end
        PROVE  m[b] \in S /\ b < m[b] /\ \A c \in S : c <= b \/ m[b] <= c
    <3>1. b \in L
      BY <2>3
    <3>2. b + 2 < AfterLine(m, b) /\ AfterLine(m, b) \in Int
      BY <1>0, <3>1, TextFacts
    <3>3. b < AfterLine(m, b)
      BY <1>2, <3>2
    <3> QED BY <1>0, <1>1, <3>1, <3>3
  <2> QED BY <1>1, <2>1, <2>2, <2>3 DEF Ladder
<1>4. Walk(m, Smeml) = {b \in S : Smeml <= b}
  <2> HIDE DEF S
  <2> QED BY <1>1, <1>3, WalkIs
<1>5. Walk(m, Smeml) = S
  BY <1>2, <1>4
<1>6. Chain(m) = L
  BY <1>1, <1>5 DEF Chain, Eol
<1> QED BY <1>5, <1>6

\* The search finds the line of number n, or the one it would come before.
LEMMA SearchIs ==
  ASSUME NEW m, NEW L, NEW end, Program(m, L, end), NEW n \in Int
  PROVE  /\ Search(m, n) \in L \cup {end}
         /\ \A b \in L : b < Search(m, n) => m[b + 1] < n
         /\ \A b \in L : Search(m, n) <= b => m[b + 1] >= n
         /\ Found(m, Search(m, n), n) => Search(m, n) \in L
         /\ Search(m, n) \in L => (Found(m, Search(m, n), n) <=> m[Search(m, n) + 1] = n)
         /\ Search(m, n) \notin L => ~Found(m, Search(m, n), n)
<1> DEFINE S == {b \in Walk(m, Smeml) : m[b] = Eol \/ m[b + 1] >= n}
           a == Search(m, n)
<1>0. Text(m, L, end)
  BY DEF Program
<1>1. /\ L \subseteq Cells /\ end \in Cells /\ m[end] = Eol
      /\ \A b \in L : m[b] # Eol /\ b < end
      /\ \A b, c \in L : b < c => m[b + 1] < m[c + 1]
  BY <1>0 DEF Text
<1>2. \A b \in L : b \in Int /\ m[b + 1] \in Int
  BY <1>0, TextFacts
<1>3. Walk(m, Smeml) = L \cup {end}
  BY ChainIs
<1>4. S \subseteq Cells /\ end \in S
  BY <1>1, <1>3
<1>5. a = First(S)
  BY DEF Search
<1>6. a \in S /\ \A b \in S : a <= b
  <2> HIDE DEF S, a
  <2> QED BY <1>4, <1>5, FirstIs
<1>7. a \in L \cup {end} /\ (m[a] = Eol \/ m[a + 1] >= n) /\ a \in Int
  BY <1>1, <1>3, <1>4, <1>6, CellFacts
<1>8. ASSUME NEW b \in L, b < a PROVE m[b + 1] < n
  <2>1. b \notin S
    <3> HIDE DEF S, a
    <3> QED BY <1>2, <1>6, <1>7, <1>8
  <2>2. ~(m[b + 1] >= n)
    BY <1>3, <2>1
  <2> QED BY <1>2, <2>2
<1> HIDE DEF a
<1>9. ASSUME NEW b \in L, a <= b PROVE m[b + 1] >= n
  <2>1. a \in L
    BY <1>1, <1>2, <1>7, <1>9, CellFacts
  <2>2. m[a + 1] >= n /\ m[a + 1] \in Int
    BY <1>1, <1>2, <1>7, <2>1
  <2>3. CASE a = b
    BY <2>2, <2>3
  <2>4. CASE a # b
    <3>1. a < b
      BY <1>2, <1>7, <1>9, <2>4
    <3>2. m[a + 1] < m[b + 1]
      BY <1>1, <2>1, <3>1
    <3> QED BY <1>2, <2>2, <3>2
  <2> QED BY <2>3, <2>4
<1>10. /\ Found(m, a, n) => a \in L
       /\ a \in L => (Found(m, a, n) <=> m[a + 1] = n)
       /\ a \notin L => ~Found(m, a, n)
  BY <1>1, <1>7 DEF Found
<1> QED BY <1>7, <1>8, <1>9, <1>10 DEF a

\* What only sets the pointers of lines, or forgets what lies behind the end, keeps the text.
LEMMA SameText ==
  ASSUME NEW m, NEW L, NEW end, Text(m, L, end), NEW p \in [Cells -> Int],
         \A b \in Cells : b <= end /\ b \notin L => p[b] = m[b],
         \A b \in L : p[b] # Eol
  PROVE  /\ Text(p, L, end) /\ Lines(p, L) = Lines(m, L)
         /\ \A x \in L : AfterLine(p, x) = AfterLine(m, x) /\ p[x + 1] = m[x + 1]
<1>1. /\ L \subseteq Cells /\ end \in Cells /\ m[end] = Eol /\ Smeml \in L \cup {end}
      /\ \A x \in L : x < end
  BY DEF Text
<1>2. end \in Int /\ end <= Top
  BY <1>1, CellFacts
<1>3. p[end] = Eol
  BY <1>1, <1>2
<1>4. ASSUME NEW x \in L
      PROVE  Twins(p, x, AfterLine(m, x), m, x, AfterLine(m, x))
  <2> DEFINE z == AfterLine(m, x)
             j == 0
  <2>1. /\ x \in Int /\ z \in Int /\ x + 2 < z /\ z <= end
        /\ \A b \in (x + 1)..(z - 1) : b \in Cells /\ b \notin L \cup {end}
    BY TextFacts
  <2>2. LineAt(m, x, z)
    BY DEF Text
  <2> HIDE DEF z
  <2>3. j \in Int /\ x + j = x /\ z + j = z /\ z + j - 1 <= Top
    BY <1>2, <2>1, CellFacts
  <2>4. \A b \in (x + 1)..(z - 1) : p[b + j] = m[b]
    <3> TAKE b \in (x + 1)..(z - 1)
    <3>1. b \in Cells /\ b \notin L /\ b <= end /\ b + j = b
      BY <1>2, <2>1
    <3> QED BY <3>1
  <2> HIDE DEF j
  <2>5. Twins(p, x + j, z + j, m, x, z)
    BY <2>1, <2>2, <2>3, <2>4, SameLine
  <2> QED BY <2>3, <2>5 DEF z
<1>5. \A x \in L : /\ AfterLine(p, x) = AfterLine(m, x) /\ LineAt(p, x, AfterLine(m, x))
                   /\ p[x + 1] = m[x + 1] /\ Body(p, x) = Body(m, x)
  BY <1>4 DEF Twins
<1>6. Text(p, L, end)
  <2>1. \A x \in L : /\ m[x + 1] \in Numbers /\ AfterLine(m, x) \in L \cup {end}
                     /\ \A c \in L \cup {end} : c <= x \/ AfterLine(m, x) <= c
    BY DEF Text
  <2>2. \A x, y \in L : x < y => m[x + 1] < m[y + 1]
    BY DEF Text
  <2> QED BY <1>1, <1>3, <1>5, <2>1, <2>2 DEF Text
<1>7. Lines(p, L) = Lines(m, L)
  <2>1. \A x \in L : <<p[x + 1], Body(p, x)>> = <<m[x + 1], Body(m, x)>>
    BY <1>5
  <2> QED BY <2>1 DEF Lines
<1> QED BY <1>5, <1>6, <1>7

\* Chaining from a on makes the pointers right that were not right already.
LEMMA RechainedIs ==
  ASSUME NEW m, NEW L, NEW end, Text(m, L, end), NEW a \in L \cup {end}, Linked(m, L, a)
  PROVE  Program(Rechained(m, a), L, end) /\ Lines(Rechained(m, a), L) = Lines(m, L)
<1> DEFINE next == [b \in Cells |-> IF m[b] = Eol THEN Eol ELSE AfterLine(m, b)]
           S == {b \in L \cup {end} : a <= b}
           p == Rechained(m, a)
<1>1. /\ m \in [Cells -> Int] /\ L \subseteq Cells /\ end \in Cells /\ m[end] = Eol
      /\ \A x \in L : x < end /\ m[x] # Eol /\ AfterLine(m, x) \in L \cup {end}
                      /\ \A c \in L \cup {end} : c <= x \/ AfterLine(m, x) <= c
  BY DEF Text
<1>2. a \in Cells /\ a \in Int /\ a <= end /\ end \in Int /\ end >= 1
      /\ \A x \in L : x \in Int
  BY <1>1, CellFacts
<1>3. next[end] = 0 /\ \A x \in L : next[x] = AfterLine(m, x)
  BY <1>1 DEF Eol
<1>4. \A x \in L : AfterLine(m, x) \in Int /\ x < AfterLine(m, x) /\ AfterLine(m, x) # 0
  <2> TAKE x \in L
  <2> DEFINE z == AfterLine(m, x)
  <2>1. z \in Int /\ x + 2 < z /\ x >= Smeml
    BY TextFacts
  <2> HIDE DEF z
  <2>2. z \in Int /\ x < z /\ z # 0
    BY <1>2, <2>1, CellFacts
  <2> QED BY <2>2 DEF z
<1>5. Ladder(next, S, end)
  <2> HIDE DEF next
  <2>1. S \subseteq Cells /\ end \in S
    BY <1>1, <1>2
  <2>4. next[end] \notin (end + 1)..Top
    BY <1>2, <1>3
  <2>2. \A b \in S : b <= end
    BY <1>1, <1>2
  <2>3. ASSUME NEW b \in S, b # end
        PROVE  next[b] \in S /\ b < next[b] /\ \A c \in S : c <= b \/ next[b] <= c
    <3>1. b \in L /\ a <= b
      BY <2>3
    <3>2. a <= AfterLine(m, b)
      BY <1>2, <1>4, <3>1
    <3> QED BY <1>1, <1>3, <1>4, <3>1, <3>2
  <2> QED BY <2>1, <2>2, <2>3, <2>4 DEF Ladder
<1>6. Walk(next, a) = S
  <2>1. a \in S
    BY <1>2
  <2>2. Walk(next, a) = {b \in S : a <= b}
    <3> HIDE DEF next, S
    <3> QED BY <1>5, <2>1, WalkIs
  <2> QED BY <2>2
<1>7. p = [b \in Cells |-> IF b \in S THEN next[b] ELSE m[b]]
  BY <1>6 DEF Rechained
<1> HIDE DEF next, p
<1>8. \A b \in Cells : /\ b \notin S => p[b] = m[b]
                       /\ b \in S => p[b] = next[b]
  BY <1>7
<1>9. p \in [Cells -> Int]
  <2>1. \A b \in S : next[b] \in Int
    BY <1>3, <1>4
  <2> QED BY <1>1, <1>7, <2>1
<1>10. p[end] = m[end]
  BY <1>1, <1>2, <1>3, <1>8 DEF Eol
<1>11. \A b \in L : a <= b => p[b] = AfterLine(m, b)
  BY <1>1, <1>3, <1>8
<1>12. \A b \in L : b < a => p[b] = m[b]
  BY <1>1, <1>2, <1>8
<1>13. \A b \in L : p[b] # Eol
  BY <1>1, <1>2, <1>4, <1>11, <1>12 DEF Eol
<1>14. \A b \in Cells : b <= end /\ b \notin L => p[b] = m[b]
  BY <1>8, <1>10
<1>15. /\ Text(p, L, end) /\ Lines(p, L) = Lines(m, L)
       /\ \A x \in L : AfterLine(p, x) = AfterLine(m, x)
  BY <1>9, <1>13, <1>14, SameText
<1>16. Linked(p, L, end)
  <2> SUFFICES ASSUME NEW b \in L PROVE p[b] = AfterLine(p, b)
    BY DEF Linked
  <2>1. CASE a <= b
    BY <1>11, <1>15, <2>1
  <2>2. CASE b < a
    BY <1>12, <1>15, <2>2 DEF Linked
  <2> QED BY <1>2, <2>1, <2>2
<1> QED BY <1>15, <1>16 DEF Program, p

\* Nothing of the program lies behind its end.
LEMMA TrimmedIs ==
  ASSUME NEW m, NEW L, NEW end, Program(m, L, end)
  PROVE  Program(Trimmed(m, end + 1), L, end) /\ Lines(Trimmed(m, end + 1), L) = Lines(m, L)
<1> DEFINE p == Trimmed(m, end + 1)
<1>0. Text(m, L, end)
  BY DEF Program
<1>1. /\ m \in [Cells -> Int] /\ L \subseteq Cells /\ end \in Int
      /\ \A b \in L : b \in Int /\ b < end /\ m[b] # Eol
  BY <1>0, CellFacts DEF Text
<1>2. p \in [Cells -> Int]
  BY <1>1 DEF Trimmed, Forgotten
<1>3. \A b \in Cells : b <= end => p[b] = m[b]
  <2> TAKE b \in Cells
  <2>1. b \in Int
    BY CellFacts
  <2> QED BY <1>1, <2>1 DEF Trimmed
<1> HIDE DEF p
<1>4. \A b \in L : p[b] = m[b]
  BY <1>1, <1>3
<1>5. /\ Text(p, L, end) /\ Lines(p, L) = Lines(m, L)
      /\ \A x \in L : AfterLine(p, x) = AfterLine(m, x)
  BY <1>0, <1>1, <1>2, <1>3, <1>4, SameText
<1>6. Linked(p, L, end)
  BY <1>4, <1>5 DEF Program, Linked
<1> QED BY <1>5, <1>6 DEF Program, p

-----------------------------------------------------------------------------
(* Entering a line.                                                        *)

\* The line of number n would come at a; the pointers are right up to there.
Place(m, L, end, a, n) ==
  /\ Text(m, L, end) /\ a \in L \cup {end} /\ Linked(m, L, a)
  /\ \A b \in L : b < a => m[b + 1] < n
  /\ \A b \in L : a <= b => n < m[b + 1]

\* LAB_12B0 leaves the other lines, and a place for the line that went.
LEMMA DeletedIs ==
  ASSUME NEW m, NEW L, NEW end, Program(m, L, end), NEW a \in L
  PROVE  \E K : /\ Place(Deleted(m, a, end + 1), K, end + (a - m[a]), a, m[a + 1])
                /\ Lines(Deleted(m, a, end + 1), K) = Lines(m, L \ {a})
<1> DEFINE c == AfterLine(m, a)
           j == a - c
           p == Deleted(m, a, end + 1)
           K == Spliced(L, a, c, j, {})
<1>0. Text(m, L, end) /\ m[a] = c /\ Linked(m, L, a)
  BY TextFacts DEF Program, Linked, Text
<1>1. /\ m \in [Cells -> Int] /\ L \subseteq Cells /\ end \in Cells
      /\ c \in L \cup {end} /\ (\A b \in L \cup {end} : b <= a \/ c <= b)
      /\ \A x, y \in L : x < y => m[x + 1] < m[y + 1]
  BY <1>0 DEF Text
<1>2. /\ a \in Int /\ a >= Smeml /\ c \in Int /\ a + 2 < c /\ c <= end
      /\ end \in Int /\ end <= Top
  BY <1>0, TextFacts
<1>3. \A b \in L : b \in Int
  BY <1>1, CellFacts
<1> HIDE DEF c
<1>4. j \in Int /\ a <= c + j /\ c + j = a /\ end + j <= Top /\ end + j < end /\ a <= end + j
  BY <1>2, CellFacts
<1>5. p = [b \in Cells |-> IF b \in a..(end + j) THEN m[b - j] ELSE m[b]]
  <2>1. a + (end + 1) - c - 1 = end + j /\ \A b \in a..(end + j) : b - a + c = b - j
    BY <1>2
  <2>2. p = [b \in Cells |-> IF b \in a..(a + (end + 1) - c - 1) THEN m[b - a + c] ELSE m[b]]
    BY <1>0 DEF Deleted
  <2>3. \A b \in Cells : (IF b \in a..(a + (end + 1) - c - 1) THEN m[b - a + c] ELSE m[b])
                         = (IF b \in a..(end + j) THEN m[b - j] ELSE m[b])
    BY <2>1
  <2> HIDE DEF p, j
  <2> QED BY <2>2, <2>3
<1> HIDE DEF p
<1>6. Splices(p, m, L, end, a, c, j, {})
  <2>1. p \in [Cells -> Int]
    <3>1. \A b \in a..(end + j) : b - j \in Cells
      BY <1>2, CellFacts
    <3> HIDE DEF j
    <3> QED BY <1>1, <1>5, <3>1
  <2>2. \A b \in Cells : b < a => p[b] = m[b]
    <3>1. \A b \in Cells : b < a => b \notin a..(end + j)
      BY <1>2
    <3> HIDE DEF j
    <3> QED BY <1>5, <3>1
  <2>3. \A b \in c..end : p[b + j] = m[b]
    <3> TAKE b \in c..end
    <3> DEFINE d == b + j
    <3>1. d \in Cells /\ d \in a..(end + j) /\ d - j = b
      BY <1>2, CellFacts
    <3> HIDE DEF d, j
    <3>2. p[d] = m[d - j]
      BY <1>5, <3>1
    <3> QED BY <3>1, <3>2 DEF d
  <2> QED BY <1>4, <2>1, <2>2, <2>3 DEF Splices
<1> HIDE DEF j
<1>7. /\ Text(p, K, end + j) /\ a \in K \cup {end + j} /\ Linked(p, K, a)
      /\ Lines(p, K) = Lines(m, Low(L, a)) \cup Lines(p, {}) \cup Lines(m, High(L, c))
  <2>1. a <= c /\ a \in L \cup {end}
    BY <1>2
  <2>2. LET k == Spliced(L, a, c, j, {}) IN
          /\ Text(p, k, end + j) /\ a \in k \cup {end + j}
          /\ Linked(m, L, a) => Linked(p, k, a)
          /\ Lines(p, k) = Lines(m, Low(L, a)) \cup Lines(p, {}) \cup Lines(m, High(L, c))
    BY <1>0, <1>1, <1>4, <1>6, <2>1, SplicedText
  <2> QED BY <1>0, <2>2
<1>8. Lines(p, K) = Lines(m, L \ {a})
  <2>1. L \ {a} = Low(L, a) \cup High(L, c)
    <3>1. \A b \in L : b # a <=> (b < a \/ c <= b)
      BY <1>1, <1>2, <1>3
    <3> QED BY <3>1 DEF Low, High
  <2>2. Lines(m, L \ {a}) = Lines(m, Low(L, a)) \cup Lines(m, High(L, c))
    BY <2>1 DEF Lines
  <2> QED BY <1>7, <2>2 DEF Lines
<1>9. ASSUME NEW y \in K
      PROVE  (y < a => p[y + 1] < m[a + 1]) /\ (a <= y => m[a + 1] < p[y + 1])
  <2>1. CASE y \in Low(L, a)
    <3>1. y \in L /\ y < a
      BY <2>1 DEF Low
    <3>2. p[y + 1] = m[y + 1]
      <4>1. \A b \in Cells : b < a => p[b] = m[b]
        BY <1>6 DEF Splices
      <4> QED BY <1>0, <3>1, <4>1, LowLine
    <3> QED BY <1>1, <1>2, <1>3, <3>1, <3>2
  <2>2. CASE y \notin Low(L, a)
    <3>1. PICK x \in High(L, c) : y = x + j
      BY <2>2 DEF Spliced
    <3>2. x \in L /\ c <= x
      BY DEF High
    <3>3. p[x + j + 1] = m[x + 1]
      <4>1. \A b \in c..end : p[b + j] = m[b]
        BY <1>6 DEF Splices
      <4> QED BY <1>0, <1>1, <1>4, <3>2, <4>1, HighLine
    <3>4. a <= y /\ a < x /\ ~(y < a)
      BY <1>2, <1>3, <1>4, <3>1, <3>2
    <3> QED BY <1>1, <3>1, <3>2, <3>3, <3>4
  <2> QED BY <2>1, <2>2
<1>10. Place(p, K, end + j, a, m[a + 1])
  BY <1>7, <1>9 DEF Place
<1> QED BY <1>0, <1>8, <1>10 DEF p, j

\* What the assumption on the constants says of the text of a line.
LEMMA CodeFacts ==
  ASSUME NEW code \in Codes
  PROVE  /\ code \in Seq(Nat) /\ Len(code) \in Nat /\ Len(code) > 1 /\ code # <<>>
         /\ code[Len(code)] = Eol /\ \A i \in 1..Len(code) : code[i] \in Nat
         /\ \A i \in 1..(Len(code) - 1) : code[i] # Eol
<1>1. /\ code \in Seq(Nat) /\ Len(code) > 1 /\ code[Len(code)] = Eol
      /\ \A i \in 1..(Len(code) - 1) : code[i] \in Nat \ {Eol}
  BY ProgramStoreAssumption
<1>2. Len(code) \in Nat /\ \A i \in 1..Len(code) : code[i] \in Nat
  BY <1>1
<1>3. code # <<>>
  BY <1>1
<1> QED BY <1>1, <1>2, <1>3

\* LAB_12E6 adds the new line, whose pointer is not right yet.
LEMMA InsertedIs ==
  ASSUME NEW m, NEW L, NEW end, NEW a, NEW n \in Numbers, Place(m, L, end, a, n),
         NEW code \in Codes, end + (2 + Len(code)) <= Top
  PROVE  \E K : LET p == Inserted(m, a, end + 1, n, code)
                    e == end + (2 + Len(code))
                IN  /\ Text(p, K, e) /\ a \in K \cup {e} /\ Linked(p, K, a)
                    /\ Lines(p, K) = Lines(m, L) \cup {<<n, code>>}
<1> DEFINE k == Len(code)
           j == 2 + k
           p == Inserted(m, a, end + 1, n, code)
           K == Spliced(L, a, a, j, {a})
<1>0. /\ Text(m, L, end) /\ a \in L \cup {end} /\ Linked(m, L, a)
      /\ \A b \in L : b < a => m[b + 1] < n
      /\ \A b \in L : a <= b => n < m[b + 1]
  BY DEF Place
<1>1. m \in [Cells -> Int] /\ L \subseteq Cells /\ end \in Cells /\ \A b \in L : b < end
  BY <1>0 DEF Text
<1>2. /\ k \in Nat /\ k > 1 /\ code[k] = Eol /\ \A i \in 1..k : code[i] \in Nat
      /\ \A i \in 1..(k - 1) : code[i] # Eol
  BY CodeFacts
<1>3. /\ a \in Int /\ a >= Smeml /\ a <= end /\ end \in Int /\ end <= Top
      /\ a \in Cells /\ Smeml \in Int /\ Top \in Int /\ n \in Int
  <2>1. n \in Int
    BY ProgramStoreAssumption
  <2>2. a \in Cells /\ (a = end \/ a < end)
    BY <1>0, <1>1
  <2> QED BY <1>1, <2>1, <2>2, CellFacts
<1> HIDE DEF k
<1>4. j \in Nat /\ j > 3 /\ j - 2 = k /\ end + j <= Top /\ a + j \in Int
  <2>1. end + (2 + k) <= Top
    BY DEF k
  <2> QED BY <1>2, <1>3, <2>1
<1>5. p = [b \in Cells |->
             IF b = a THEN Rechain ELSE IF b = a + 1 THEN n
             ELSE IF b \in (a + 2)..(a + j - 1) THEN code[b - a - 1]
             ELSE IF b \in (a + j)..(end + j) THEN m[b - j] ELSE m[b]]
  <2>1. (end + 1) + j - 1 = end + j
    BY <1>3, <1>4
  <2>2. p = [b \in Cells |->
             IF b = a THEN Rechain ELSE IF b = a + 1 THEN n
             ELSE IF b \in (a + 2)..(a + j - 1) THEN code[b - a - 1]
             ELSE IF b \in (a + j)..((end + 1) + j - 1) THEN m[b - j] ELSE m[b]]
    BY DEF Inserted, k
  <2> HIDE DEF p, j
  <2> QED BY <2>1, <2>2
<1> HIDE DEF p, j
<1>6. a + 1 \in Cells /\ a + 1 # a /\ \A b \in (a + 2)..(end + j) : b \in Cells /\ b # a /\ b # a + 1
  BY <1>3, <1>4, CellFacts
<1>7. p[a] = Rechain /\ p[a + 1] = n
  BY <1>3, <1>5, <1>6
<1>8. \A i \in 1..k : p[a + 1 + i] = code[i]
  <2> TAKE i \in 1..k
  <2> DEFINE b == a + 1 + i
  <2>1. b \in (a + 2)..(a + j - 1) /\ b \in (a + 2)..(end + j) /\ b - a - 1 = i
    BY <1>2, <1>3, <1>4
  <2> HIDE DEF b
  <2>2. b \in Cells /\ b # a /\ b # a + 1
    BY <1>6, <2>1
  <2>3. p[b] = code[b - a - 1]
    BY <1>5, <2>1, <2>2
  <2> QED BY <2>1, <2>3 DEF b
<1>9. \A b \in a..end : p[b + j] = m[b]
  <2> TAKE b \in a..end
  <2> DEFINE d == b + j
  <2>1. /\ d \in (a + 2)..(end + j) /\ d \notin (a + 2)..(a + j - 1) /\ d \in (a + j)..(end + j)
        /\ d - j = b
    BY <1>3, <1>4
  <2> HIDE DEF d
  <2>2. d \in Cells /\ d # a /\ d # a + 1
    BY <1>6, <2>1
  <2>3. p[d] = m[d - j]
    BY <1>5, <2>1, <2>2
  <2> QED BY <2>1, <2>3 DEF d
<1>10. \A b \in Cells : b < a => p[b] = m[b]
  <2> TAKE b \in Cells
  <2> SUFFICES ASSUME b < a PROVE p[b] = m[b]
    OBVIOUS
  <2>1. b \in Int
    BY CellFacts
  <2>2. b # a /\ b # a + 1 /\ b \notin (a + 2)..(a + j - 1) /\ b \notin (a + j)..(end + j)
    BY <1>3, <1>4, <2>1
  <2> QED BY <1>5, <2>2
<1>11. LineAt(p, a, a + j)
  <2>1. a + 2 < a + j /\ a + j - 1 <= Top
    BY <1>3, <1>4
  <2>2. p[a + j - 1] = Eol
    <3>1. k \in 1..k /\ a + j - 1 = a + 1 + k
      BY <1>2, <1>3, <1>4
    <3> QED BY <1>2, <1>8, <3>1
  <2>3. ASSUME NEW b \in (a + 2)..(a + j - 2) PROVE p[b] # Eol
    <3> DEFINE i == b - a - 1
    <3>1. i \in 1..(k - 1) /\ i \in 1..k /\ a + 1 + i = b
      BY <1>2, <1>3, <1>4
    <3> HIDE DEF i
    <3> QED BY <1>2, <1>8, <3>1
  <2> DEFINE z == a + j
  <2>4. z - 1 = a + j - 1 /\ z - 2 = a + j - 2
    BY <1>3, <1>4
  <2> HIDE DEF z
  <2>5. a + 2 < z /\ z - 1 <= Top /\ p[z - 1] = Eol /\ \A b \in (a + 2)..(z - 2) : p[b] # Eol
    BY <2>1, <2>2, <2>3, <2>4 DEF z
  <2> QED BY <2>5 DEF LineAt, z
<1>12. AfterLine(p, a) = a + j
  BY <1>3, <1>4, <1>11, AfterLineIs
<1>13. Body(p, a) = code
  <2>1. AfterLine(p, a) - a - 2 = k
    BY <1>3, <1>4, <1>12
  <2>2. code = [i \in 1..k |-> code[i]]
    BY CodeFacts DEF k
  <2>3. Body(p, a) = [i \in 1..k |-> p[a + 1 + i]]
    BY <2>1 DEF Body
  <2> QED BY <1>8, <2>2, <2>3
<1>14. p \in [Cells -> Int]
  <2>1. ASSUME NEW b \in Cells PROVE p[b] \in Int
    <3>0. b \in Int
      BY CellFacts
    <3>1. CASE b < a
      BY <1>1, <1>10, <3>1
    <3>2. CASE b = a \/ b = a + 1
      BY <1>3, <1>7, <3>2 DEF Rechain
    <3>3. CASE b \in (a + 2)..(a + j - 1)
      <4> DEFINE i == b - a - 1
      <4>1. i \in 1..k /\ a + 1 + i = b
        BY <1>2, <1>3, <1>4, <3>3
      <4> HIDE DEF i
      <4> QED BY <1>2, <1>8, <4>1
    <3>4. CASE b \in (a + j)..(end + j)
      <4> DEFINE d == b - j
      <4>1. d \in a..end /\ d + j = b
        BY <1>3, <1>4, <3>4
      <4>2. d \in Cells
        BY <1>3, <4>1, CellFacts
      <4> HIDE DEF d
      <4> QED BY <1>1, <1>9, <4>1, <4>2
    <3>5. CASE b > end + j
      <4>1. b # a /\ b # a + 1 /\ b \notin (a + 2)..(a + j - 1) /\ b \notin (a + j)..(end + j)
        BY <1>3, <1>4, <3>0, <3>5
      <4>2. p[b] = m[b]
        BY <1>5, <4>1
      <4> QED BY <1>1, <4>2
    <3> QED BY <1>3, <1>4, <3>0, <3>1, <3>2, <3>3, <3>4, <3>5
  <2> QED BY <1>5, <2>1
<1>15. Splices(p, m, L, end, a, a, j, {a})
  BY <1>0, <1>7, <1>9, <1>10, <1>11, <1>12, <1>14 DEF Splices, Rechain, Eol
<1>16. /\ Text(p, K, end + j) /\ a \in K \cup {end + j} /\ Linked(p, K, a)
       /\ Lines(p, K) = Lines(m, Low(L, a)) \cup Lines(p, {a}) \cup Lines(m, High(L, a))
  <2> DEFINE c == a
  <2>0. a <= c /\ a <= c + j /\ c \in L \cup {end} /\ j \in Int
    BY <1>0, <1>3, <1>4
  <2> DEFINE fresh == {a}
  <2> HIDE DEF c, fresh
  <2>1. Splices(p, m, L, end, a, c, j, fresh)
    BY <1>15 DEF c, fresh
  <2>2. LET kk == Spliced(L, a, c, j, fresh) IN
          /\ Text(p, kk, end + j) /\ a \in kk \cup {end + j}
          /\ Linked(m, L, a) => Linked(p, kk, a)
          /\ Lines(p, kk) = Lines(m, Low(L, a)) \cup Lines(p, fresh) \cup Lines(m, High(L, c))
    BY <1>0, <1>4, <2>0, <2>1, SplicedText
  <2> QED BY <1>0, <2>2 DEF c, fresh
<1>17. Lines(p, K) = Lines(m, L) \cup {<<n, code>>}
  <2>1. L = Low(L, a) \cup High(L, a)
    <3>1. \A b \in L : b \in Int
      BY <1>1, CellFacts
    <3> QED BY <1>3, <3>1 DEF Low, High
  <2>2. Lines(m, L) = Lines(m, Low(L, a)) \cup Lines(m, High(L, a))
    BY <2>1 DEF Lines
  <2>3. Lines(p, {a}) = {<<n, code>>}
    BY <1>7, <1>13 DEF Lines
  <2> QED BY <1>16, <2>2, <2>3
<1> QED BY <1>16, <1>17 DEF p, j, k

\* The lines of R other than the one of number n, and that line if there is any text for it.
Typed(R, n, code) == {r \in R : r[1] # n} \cup (IF code = <<>> THEN {} ELSE {<<n, code>>})

\* One line has the number of the line at a, and none that of a line that is not found.
LEMMA OthersAre ==
  ASSUME NEW m, NEW L, NEW end, Text(m, L, end), NEW n
  PROVE  /\ \A a \in L : m[a + 1] = n => Lines(m, L \ {a}) = {r \in Lines(m, L) : r[1] # n}
         /\ (\A b \in L : m[b + 1] # n) => Lines(m, L) = {r \in Lines(m, L) : r[1] # n}
<1>1. /\ \A x \in L : x \in Int /\ m[x + 1] \in Int
      /\ \A x, y \in L : x < y => m[x + 1] < m[y + 1]
  BY TextFacts DEF Text
<1>2. ASSUME NEW a \in L, m[a + 1] = n
      PROVE  Lines(m, L \ {a}) = {r \in Lines(m, L) : r[1] # n}
  <2>1. \A b \in L : b # a <=> m[b + 1] # n
    <3> TAKE b \in L
    <3>1. b \in Int /\ a \in Int /\ m[b + 1] \in Int /\ m[a + 1] \in Int
      BY <1>1
    <3>2. b < a => m[b + 1] < m[a + 1]
      BY <1>1
    <3>3. a < b => m[a + 1] < m[b + 1]
      BY <1>1
    <3> QED BY <1>2, <3>1, <3>2, <3>3
  <2>2. \A b : <<m[b + 1], Body(m, b)>>[1] = m[b + 1]
    OBVIOUS
  <2> QED BY <2>1, <2>2 DEF Lines
<1>3. ASSUME \A b \in L : m[b + 1] # n
      PROVE  Lines(m, L) = {r \in Lines(m, L) : r[1] # n}
  BY <1>3 DEF Lines
<1> QED BY <1>2, <1>3

\* The steps of LAB_1295: m becomes m1, m1 becomes m2, and the ends go with them.
Enters(m, end, n, code, a, m1, end1, m2, end2) ==
  /\ a = Search(m, n)
  /\ m1 = IF Found(m, a, n) THEN Deleted(m, a, end) ELSE m
  /\ end1 = IF Found(m, a, n) THEN end - (m[a] - a) ELSE end
  /\ m2 = IF code = <<>> THEN m1 ELSE Inserted(m1, a, end1, n, code)
  /\ end2 = IF code = <<>> THEN end1 ELSE end1 + 2 + Len(code)
  /\ end2 - 1 <= Top

\* What LAB_1295 makes of a program.
LEMMA EnteredIs ==
  ASSUME NEW m, NEW L, NEW e \in Int, Program(m, L, e), NEW end, end = e + 1,
         NEW n \in Numbers, NEW code \in Codes \cup {<<>>},
         NEW a, NEW m1, NEW end1, NEW m2, NEW end2, Enters(m, end, n, code, a, m1, end1, m2, end2)
  PROVE  /\ end2 \in Nat
         /\ \E K : /\ Program(Trimmed(Rechained(m2, a), end2), K, end2 - 1)
                   /\ Lines(Trimmed(Rechained(m2, a), end2), K) = Typed(Lines(m, L), n, code)
<1> DEFINE q    == Rechained(m2, a)
           p    == Trimmed(q, end2)
           e1   == end1 - 1
           e2   == end2 - 1
<1>01. a = Search(m, n) /\ end2 - 1 <= Top
  BY DEF Enters
<1>02. m1 = IF Found(m, a, n) THEN Deleted(m, a, end) ELSE m
  BY DEF Enters
<1>03. end1 = IF Found(m, a, n) THEN end - (m[a] - a) ELSE end
  BY DEF Enters
<1>04. m2 = IF code = <<>> THEN m1 ELSE Inserted(m1, a, end1, n, code)
  BY DEF Enters
<1>05. end2 = IF code = <<>> THEN end1 ELSE end1 + 2 + Len(code)
  BY DEF Enters
<1>0. Program(m, L, e) /\ Text(m, L, e) /\ Linked(m, L, e) /\ n \in Int /\ e \in Int /\ end = e + 1
  BY ProgramStoreAssumption DEF Program
<1>1. L \subseteq Cells /\ \A x \in L : m[x] = AfterLine(m, x)
  BY <1>0 DEF Text, Linked
<1>2. /\ a \in L \cup {e}
      /\ \A b \in L : b < a => m[b + 1] < n
      /\ \A b \in L : a <= b => m[b + 1] >= n
      /\ Found(m, a, n) => a \in L
      /\ a \in L => (Found(m, a, n) <=> m[a + 1] = n)
      /\ a \notin L => ~Found(m, a, n)
  <2>1. a = Search(m, n)
    BY <1>01
  <2> QED BY <1>0, <2>1, SearchIs
<1>3. a \in Int /\ (\A b \in L : b \in Int /\ m[b + 1] \in Int)
  <2>1. e \in Cells
    BY <1>0 DEF Text
  <2>2. a \in Cells
    BY <1>1, <1>2, <2>1
  <2>4. \A b \in L : b \in Int
    BY <1>1, CellFacts
  <2>3. \A b \in L : m[b + 1] \in Int
    BY <1>0, TextFacts
  <2> QED BY <2>2, <2>3, <2>4, CellFacts
<1>4. \E K : Place(m1, K, e1, a, n) /\ Lines(m1, K) = {r \in Lines(m, L) : r[1] # n}
  <2>1. CASE Found(m, a, n)
    <3>1. a \in L /\ m[a + 1] = n /\ m[a] \in Int
      <4>1. a \in L /\ m[a + 1] = n
        BY <1>2, <2>1
      <4>2. AfterLine(m, a) \in Int
        BY <1>0, <4>1, TextFacts
      <4> QED BY <1>1, <4>1, <4>2
    <3>2. m1 = Deleted(m, a, e + 1) /\ e1 = e + (a - m[a])
      <4>1. m1 = Deleted(m, a, e + 1)
        BY <1>0, <1>02, <2>1
      <4>2. end1 = end - (m[a] - a)
        BY <1>03, <2>1
      <4>3. e1 = e + (a - m[a])
        <5>1. e1 = (e + 1) - (m[a] - a) - 1
          BY ONLY <4>2, end = e + 1
        <5> HIDE DEF e1
        <5> QED BY ONLY e \in Int, <1>3, <3>1, <5>1
      <4> HIDE DEF e1
      <4> QED BY <4>1, <4>3
    <3>3. \E K : /\ Place(Deleted(m, a, e + 1), K, e + (a - m[a]), a, m[a + 1])
                 /\ Lines(Deleted(m, a, e + 1), K) = Lines(m, L \ {a})
      <4>1. Program(m, L, e) /\ a \in L
        BY <1>0, <3>1
      <4> QED BY ONLY <4>1, DeletedIs, SMT
    <3>4. Lines(m, L \ {a}) = {r \in Lines(m, L) : r[1] # n}
      <4>1. Text(m, L, e) /\ a \in L /\ m[a + 1] = n
        BY <1>0, <3>1
      <4> QED BY ONLY <4>1, OthersAre, SMT
    <3> HIDE DEF e1
    <3> QED BY <3>1, <3>2, <3>3, <3>4
  <2>2. CASE ~Found(m, a, n)
    <3>1. m1 = m /\ e1 = e
      BY <1>0, <1>02, <1>03, <2>2
    <3>2. \A b \in L : m[b + 1] # n
      <4>1. ASSUME NEW b \in L, m[b + 1] = n PROVE FALSE
        <5>1. ~(b < a)
          BY <1>0, <1>2, <4>1
        <5>2. a <= b /\ b # a
          BY <1>2, <1>3, <2>2, <4>1, <5>1
        <5>3. a \in L
          <6>1. b < e /\ e \in Int
            BY <1>0 DEF Text
          <6>2. a # e
            BY <1>3, <5>2, <6>1
          <6> QED BY <1>2, <6>2
        <5>4. m[a + 1] < m[b + 1]
          <6>1. a < b
            BY <1>3, <5>2
          <6> QED BY <1>0, <5>3, <6>1 DEF Text
        <5>5. m[a + 1] >= n
          BY <1>2, <1>3, <5>3
        <5> QED BY <1>0, <1>3, <4>1, <5>3, <5>4, <5>5
      <4> QED BY <4>1
    <3>3. \A b \in L : a <= b => n < m[b + 1]
      BY <1>0, <1>2, <1>3, <3>2
    <3>4. Linked(m, L, a)
      BY <1>1 DEF Linked
    <3>5. Place(m, L, e, a, n)
      BY <1>0, <1>2, <3>3, <3>4 DEF Place
    <3>6. Lines(m, L) = {r \in Lines(m, L) : r[1] # n}
      BY <1>0, <3>2, OthersAre
    <3> HIDE DEF e1
    <3> QED BY <3>1, <3>5, <3>6
  <2> QED BY <2>1, <2>2
<1>5. end1 \in Int /\ end1 = e1 + 1
  <2>1. CASE Found(m, a, n)
    <3>1. a \in L
      BY <1>2, <2>1
    <3>2. AfterLine(m, a) \in Int
      BY <1>0, <3>1, TextFacts
    <3>3. m[a] \in Int
      BY <1>1, <3>1, <3>2
    <3> QED BY <1>0, <1>03, <1>3, <2>1, <3>3
  <2>2. CASE ~Found(m, a, n)
    BY <1>0, <1>03, <2>2
  <2> QED BY <2>1, <2>2
<1> HIDE DEF e1
<1>6. /\ end2 \in Int /\ end2 = e2 + 1
      /\ \E K : /\ Text(m2, K, e2) /\ a \in K \cup {e2} /\ Linked(m2, K, a)
                /\ Lines(m2, K) = Typed(Lines(m, L), n, code)
  <2>0. PICK K : Place(m1, K, e1, a, n) /\ Lines(m1, K) = {r \in Lines(m, L) : r[1] # n}
    BY <1>4
  <2>1. CASE code = <<>>
    <3>1. m2 = m1 /\ end2 = end1 /\ e2 = e1
      BY <1>04, <1>05, <1>5, <2>1 DEF e1
    <3>2. Text(m1, K, e1) /\ a \in K \cup {e1} /\ Linked(m1, K, a)
      BY <2>0 DEF Place
    <3>3. Lines(m1, K) = Typed(Lines(m, L), n, code)
      BY <2>0, <2>1 DEF Typed
    <3> HIDE DEF e2
    <3> QED BY <1>5, <3>1, <3>2, <3>3
  <2>2. CASE code # <<>>
    <3>1. code \in Codes /\ Len(code) \in Nat
      BY <2>2, CodeFacts
    <3>2. m2 = Inserted(m1, a, e1 + 1, n, code) /\ e2 = e1 + (2 + Len(code)) /\ end2 = e2 + 1 /\ end2 \in Int
      <4>1. m2 = Inserted(m1, a, end1, n, code) /\ end2 = end1 + 2 + Len(code)
        BY <1>04, <1>05, <2>2
      <4>2. m2 = Inserted(m1, a, e1 + 1, n, code)
        BY <1>5, <4>1
      <4>3. e1 \in Int
        BY <1>5 DEF e1
      <4>4. e2 = e1 + (2 + Len(code)) /\ end2 = e2 + 1 /\ end2 \in Int
        BY <1>5, <3>1, <4>1, <4>3
      <4> QED BY <4>2, <4>4
    <3>3. e2 <= Top
      BY <1>01
    <3> HIDE DEF e2
    <3>4. \E J : LET r == Inserted(m1, a, e1 + 1, n, code)
                     z == e1 + (2 + Len(code))
                 IN  /\ Text(r, J, z) /\ a \in J \cup {z} /\ Linked(r, J, a)
                     /\ Lines(r, J) = Lines(m1, K) \cup {<<n, code>>}
      <4>1. e1 + (2 + Len(code)) <= Top
        BY <3>2, <3>3
      <4> QED BY <2>0, <3>1, <4>1, InsertedIs
    <3>5. \A S : {r \in Lines(m, L) : r[1] # n} \cup {<<n, code>>} = Typed(Lines(m, L), n, code)
      BY <2>2 DEF Typed
    <3>6. Lines(m1, K) \cup {<<n, code>>} = Typed(Lines(m, L), n, code)
      BY <2>0, <3>5
    <3> QED BY <3>2, <3>4, <3>6
  <2> QED BY <2>1, <2>2
<1>7. PICK K : /\ Text(m2, K, e2) /\ a \in K \cup {e2} /\ Linked(m2, K, a)
               /\ Lines(m2, K) = Typed(Lines(m, L), n, code)
  BY <1>6
<1> HIDE DEF e2
<1>8. Program(q, K, e2) /\ Lines(q, K) = Typed(Lines(m, L), n, code)
  BY <1>7, RechainedIs
<1> HIDE DEF q
<1>9. Program(p, K, e2) /\ Lines(p, K) = Typed(Lines(m, L), n, code)
  <2>1. Program(Trimmed(q, e2 + 1), K, e2) /\ Lines(Trimmed(q, e2 + 1), K) = Lines(q, K)
    BY <1>8, TrimmedIs
  <2> QED BY <1>6, <1>8, <2>1
<1>10. end2 \in Nat
  <2>1. e2 \in Cells
    BY <1>7 DEF Text
  <2>2. e2 \in Nat
    BY <2>1, CellFacts
  <2> QED BY <1>6, <2>2
<1> QED BY <1>9, <1>10 DEF e2, p, q

-----------------------------------------------------------------------------
(* The invariant.                                                          *)

Fields == {"Sfncl", "Svarl", "Sstrl", "Sarryl", "Earryl"}

RegionsInOrder(r) ==
  /\ r \in [Fields -> Int]
  /\ Smeml < r.Sfncl /\ r.Sfncl <= r.Svarl /\ r.Svarl <= r.Sstrl
  /\ r.Sstrl <= r.Sarryl /\ r.Sarryl <= r.Earryl

\* The memory below Sfncl is a program, the regions behind it lie in their
\* order, and every pointer into the program is one that can be resumed at.
IInv ==
  /\ Program(mem, Chain(mem), regions.Sfncl - 1)
  /\ RegionsInOrder(regions)
  /\ PointersCurrent

\* The lines of a program are those its pointers lead to.
LEMMA Chained ==
  ASSUME NEW m, NEW L, NEW end, Program(m, L, end)
  PROVE  Program(m, Chain(m), end)
BY ChainIs

\* The regions are in order when all are empty,
LEMMA RegionsAre ==
  ASSUME NEW at \in Int, Smeml < at
  PROVE  RegionsInOrder(Regions(at)) /\ Regions(at).Sfncl = at
BY DEF Regions, RegionsInOrder, Fields

\* when one of them grows,
LEMMA GrownAre ==
  ASSUME NEW r, RegionsInOrder(r), NEW kind \in {"function", "variable", "string", "array"}
  PROVE  RegionsInOrder(Grown(r, kind)) /\ Grown(r, kind).Sfncl = r.Sfncl
<1>1. /\ r \in [Fields -> Int] /\ Smeml \in Int
      /\ Smeml < r.Sfncl /\ r.Sfncl <= r.Svarl /\ r.Svarl <= r.Sstrl
      /\ r.Sstrl <= r.Sarryl /\ r.Sarryl <= r.Earryl
  BY CellFacts DEF RegionsInOrder
<1> DEFINE g == Grown(r, kind)
<1>2. g = [x \in Fields |-> IF x \in Behind[kind] THEN r[x] + 1 ELSE r[x]]
  BY <1>1 DEF Grown
<1>3. /\ Behind["function"] = {"Svarl", "Sstrl", "Sarryl", "Earryl"}
      /\ Behind["variable"] = {"Sstrl", "Sarryl", "Earryl"}
      /\ Behind["string"] = {"Sarryl", "Earryl"}
      /\ Behind["array"] = {"Earryl"}
  BY DEF Behind
<1> HIDE DEF g
<1>4. g \in [Fields -> Int]
  BY <1>1, <1>2
<1>5. CASE kind = "function"
  <2>1. /\ g.Sfncl = r.Sfncl /\ g.Svarl = r.Svarl + 1 /\ g.Sstrl = r.Sstrl + 1
        /\ g.Sarryl = r.Sarryl + 1 /\ g.Earryl = r.Earryl + 1
    BY <1>2, <1>3, <1>5 DEF Fields
  <2> QED BY <1>1, <1>4, <2>1 DEF RegionsInOrder, Fields, g
<1>6. CASE kind = "variable"
  <2>1. /\ g.Sfncl = r.Sfncl /\ g.Svarl = r.Svarl /\ g.Sstrl = r.Sstrl + 1
        /\ g.Sarryl = r.Sarryl + 1 /\ g.Earryl = r.Earryl + 1
    BY <1>2, <1>3, <1>6 DEF Fields
  <2> QED BY <1>1, <1>4, <2>1 DEF RegionsInOrder, Fields, g
<1>7. CASE kind = "string"
  <2>1. /\ g.Sfncl = r.Sfncl /\ g.Svarl = r.Svarl /\ g.Sstrl = r.Sstrl
        /\ g.Sarryl = r.Sarryl + 1 /\ g.Earryl = r.Earryl + 1
    BY <1>2, <1>3, <1>7 DEF Fields
  <2> QED BY <1>1, <1>4, <2>1 DEF RegionsInOrder, Fields, g
<1>8. CASE kind = "array"
  <2>1. /\ g.Sfncl = r.Sfncl /\ g.Svarl = r.Svarl /\ g.Sstrl = r.Sstrl
        /\ g.Sarryl = r.Sarryl /\ g.Earryl = r.Earryl + 1
    BY <1>2, <1>3, <1>8 DEF Fields
  <2> QED BY <1>1, <1>4, <2>1 DEF RegionsInOrder, Fields, g
<1> QED BY <1>5, <1>6, <1>7, <1>8

\* and when a variable is looked for.
LEMMA NamedAre ==
  ASSUME NEW r, RegionsInOrder(r), NEW s \in Named(r)
  PROVE  RegionsInOrder(s) /\ s.Sfncl = r.Sfncl
<1>1. s = r \/ s = Grown(r, "variable") \/ s = Grown(r, "string")
  BY DEF Named
<1>2. RegionsInOrder(Grown(r, "variable")) /\ Grown(r, "variable").Sfncl = r.Sfncl
  BY GrownAre
<1>3. RegionsInOrder(Grown(r, "string")) /\ Grown(r, "string").Sfncl = r.Sfncl
  BY GrownAre
<1> QED BY <1>1, <1>2, <1>3

\* A line starts at the start of the program or behind the [EOL] of another line.
LEMMA BeforeLine ==
  ASSUME NEW m, NEW L, NEW end, Program(m, L, end), NEW a \in L
  PROVE  a - 1 \in Positions(m) \cup {Smeml - 1}
<1>1. /\ L \subseteq Cells /\ Smeml \in L \cup {end} /\ a < end
      /\ \A b \in L : /\ AfterLine(m, b) \in L \cup {end}
                      /\ \A c \in L \cup {end} : c <= b \/ AfterLine(m, b) <= c
  BY DEF Program, Text
<1>2. Text(m, L, end) /\ Chain(m) = L
  BY ChainIs DEF Program
<1>3. a \in Int /\ a >= Smeml /\ (\A b \in L : b \in Int) /\ Smeml \in Int /\ end \in Int
  BY <1>1, <1>2, CellFacts, TextFacts
<1>4. CASE a = Smeml
  BY <1>4
<1>5. CASE a # Smeml
  <2> DEFINE S == {b \in L : b < a}
  <2>1. S \subseteq Cells /\ S # {}
    <3>1. Smeml \in L /\ Smeml < a
      BY <1>1, <1>3, <1>5
    <3> QED BY <1>1, <3>1
  <2>2. \E x \in S : \A b \in S : b <= x
    <3> HIDE DEF S
    <3> QED BY <2>1, LastIs
  <2>3. PICK b \in S : \A c \in S : c <= b
    BY <2>2
  <2> DEFINE z == AfterLine(m, b)
  <2>4. b \in L /\ b < a /\ z \in L \cup {end} /\ z \in Int /\ b + 2 < z /\ b \in Int
    BY <1>1, <1>2, <2>3, TextFacts
  <2>5. z <= a
    <3>1. a <= b \/ z <= a
      BY <1>1, <2>4
    <3> QED BY <1>3, <2>4, <3>1
  <2>6. z \notin S
    <3>1. z \in S => z <= b
      BY <2>3
    <3> HIDE DEF S
    <3> QED BY <2>4, <3>1
  <2>7. z = a
    <3>1. CASE z = end
      BY <1>1, <1>3, <2>5, <3>1
    <3>2. CASE z \in L
      BY <1>3, <2>4, <2>5, <2>6, <3>2
    <3> QED BY <2>4, <3>1, <3>2
  <2>8. a - 1 \in (b + 2)..(AfterLine(m, b) - 1)
    <3> HIDE DEF z
    <3>1. a - 1 \in (b + 2)..(z - 1)
      BY <1>3, <2>4, <2>7
    <3> QED BY <3>1 DEF z
  <2> QED BY <1>2, <2>4, <2>8 DEF Positions
<1> QED BY <1>4, <1>5

\* Tokens lie in cells.
LEMMA PositionsAreCells ==
  ASSUME NEW m, NEW L, NEW end, Program(m, L, end)
  PROVE  Positions(m) \subseteq Cells
<1>1. Text(m, L, end) /\ Chain(m) = L
  BY ChainIs DEF Program
<1> SUFFICES ASSUME NEW a \in L, NEW p \in (a + 2)..(AfterLine(m, a) - 1) PROVE p \in Cells
  BY <1>1 DEF Positions
<1>2. /\ \A b \in (a + 1)..(AfterLine(m, a) - 1) : b \in Cells
      /\ a \in Int /\ AfterLine(m, a) \in Int
  BY <1>1, TextFacts
<1> QED BY <1>2

\* The invariant is stronger than what the runs check.
LEMMA InvImplies == IInv => TypeOK /\ ChainInOrder /\ PointersCurrent
<1> SUFFICES ASSUME IInv PROVE TypeOK /\ ChainInOrder /\ PointersCurrent
  OBVIOUS
<1> DEFINE L == Chain(mem)
           end == regions.Sfncl - 1
<1>1. Program(mem, L, end) /\ Text(mem, L, end) /\ RegionsInOrder(regions) /\ PointersCurrent
  BY DEF IInv, Program
<1>2. regions.Sfncl \in Int /\ regions.Sfncl = end + 1
  BY <1>1 DEF RegionsInOrder, Fields
<1>3. TypeOK
  <2>1. mem \in [Cells -> Int]
    BY <1>1 DEF Text
  <2>2. Positions(mem) \subseteq Cells
    BY <1>1, PositionsAreCells
  <2>3. (execs \cup {exec, Cpntrl, Dptrl}) \subseteq Pointers
    BY <1>1, <2>2 DEF PointersCurrent, Pointers
  <2> QED BY <1>1, <2>1, <2>3 DEF TypeOK, RegionsInOrder, Fields
<1>4. ChainInOrder
  <2> HIDE DEF L, end
  <2>1. /\ mem[end] = Eol /\ Smeml \in L \cup {end}
        /\ \A a \in L : AfterLine(mem, a) \in L \cup {end}
        /\ \A a, b \in L : a < b => mem[a + 1] < mem[b + 1]
    BY <1>1 DEF Text
  <2>2. L = {} => regions.Sfncl = Smeml + 1
    BY <1>2, <2>1
  <2>3. ASSUME NEW a \in L
        PROVE  /\ mem[a] = AfterLine(mem, a)
               /\ IF mem[a] \in L THEN mem[a + 1] < mem[mem[a] + 1] ELSE mem[a] = end
    <3>1. mem[a] = AfterLine(mem, a)
      BY <1>1 DEF Program, Text, Linked
    <3>2. a < AfterLine(mem, a)
      <4>1. a \in Int /\ AfterLine(mem, a) \in Int /\ a + 2 < AfterLine(mem, a)
        BY <1>1, TextFacts
      <4> QED BY <4>1
    <3> QED BY <2>1, <3>1, <3>2
  <2> QED BY <1>2, <2>1, <2>2, <2>3 DEF ChainInOrder, L, end
<1> QED BY <1>1, <1>3, <1>4

\* It holds of the empty program.
LEMMA InvInit == Init => IInv
<1> SUFFICES ASSUME Init PROVE IInv
  OBVIOUS
<1>1. /\ mem = [a \in Cells |-> IF a = Smeml THEN Eol ELSE Forgotten]
      /\ regions = Regions(Smeml + 1)
      /\ execs = {} /\ exec = 0 /\ Cpntrl = 0 /\ Dptrl = Smeml - 1
  BY DEF Init
<1>2. Program(mem, {}, Smeml)
  <2>1. Smeml \in Cells
    BY CellFacts
  <2>2. mem \in [Cells -> Int] /\ mem[Smeml] = Eol
    BY <1>1, <2>1 DEF Eol, Forgotten
  <2> QED BY <2>1, <2>2 DEF Program, Text, Linked
<1>3. RegionsInOrder(regions) /\ regions.Sfncl = Smeml + 1 /\ regions.Sfncl - 1 = Smeml
  <2>1. Smeml + 1 \in Int /\ Smeml < Smeml + 1 /\ (Smeml + 1) - 1 = Smeml
    BY CellFacts
  <2>2. RegionsInOrder(Regions(Smeml + 1)) /\ Regions(Smeml + 1).Sfncl = Smeml + 1
    BY <2>1, RegionsAre
  <2> QED BY <1>1, <2>1, <2>2
<1>4. Program(mem, Chain(mem), Smeml)
  BY <1>2, Chained
<1>5. PointersCurrent
  BY <1>1 DEF PointersCurrent
<1> QED BY <1>3, <1>4, <1>5 DEF IInv

\* What keeps the program and its end keeps the invariant if its pointers are good.
LEMMA KeptProgram ==
  ASSUME IInv, mem' = mem, RegionsInOrder(regions'), regions'.Sfncl = regions.Sfncl,
         (execs' \cup {exec', Cpntrl', Dptrl'}) \subseteq (Positions(mem) \cup {0, Smeml - 1})
  PROVE  IInv'
<1>1. PointersCurrent'
  BY DEF PointersCurrent
<1>2. Program(mem', Chain(mem'), regions'.Sfncl - 1)
  BY DEF IInv
<1> QED BY <1>1, <1>2 DEF IInv

\* Entering a line keeps the invariant, and changes the line of its number and no other.
LEMMA InvEnterLine ==
  ASSUME IInv, NEW n \in Numbers, NEW code \in Codes \cup {<<>>}, EnterLine(n, code)
  PROVE  /\ IInv'
         /\ Lines(mem', Chain(mem')) = Typed(Lines(mem, Chain(mem)), n, code)
<1> DEFINE end  == regions.Sfncl
           e    == end - 1
           a    == Search(mem, n)
           m1   == IF Found(mem, a, n) THEN Deleted(mem, a, end) ELSE mem
           end1 == IF Found(mem, a, n) THEN end - (mem[a] - a) ELSE end
           m2   == IF code = <<>> THEN m1 ELSE Inserted(m1, a, end1, n, code)
           end2 == IF code = <<>> THEN end1 ELSE end1 + 2 + Len(code)
<1>1. /\ exec = 0 /\ exec' = exec /\ end2 - 1 <= Top
      /\ Cleared(end2, 0) /\ mem' = Trimmed(Rechained(m2, a), end2)
  BY DEF EnterLine, Immediate
<1>2. end \in Int /\ e \in Int /\ end = e + 1 /\ Program(mem, Chain(mem), e)
  BY DEF IInv, RegionsInOrder, Fields
<1>3. Enters(mem, end, n, code, a, m1, end1, m2, end2)
  <2> HIDE DEF end, a
  <2>1. a = Search(mem, n)
    BY DEF a
  <2> QED BY <1>1, <2>1 DEF Enters
<1> HIDE DEF end, e, a, m1, end1, m2, end2
<1>13. end2 \in Nat
  BY ONLY <1>2, <1>3, n \in Numbers, code \in Codes \cup {<<>>}, EnteredIs, SMT
<1>14. \E K : /\ Program(Trimmed(Rechained(m2, a), end2), K, end2 - 1)
              /\ Lines(Trimmed(Rechained(m2, a), end2), K) = Typed(Lines(mem, Chain(mem)), n, code)
  BY ONLY <1>2, <1>3, n \in Numbers, code \in Codes \cup {<<>>}, EnteredIs, SMT
<1>4. PICK K : /\ Program(mem', K, end2 - 1)
               /\ Lines(mem', K) = Typed(Lines(mem, Chain(mem)), n, code)
  BY <1>1, <1>14
<1>5. end2 \in Int /\ Smeml < end2
  <2>1. end2 \in Nat
    BY <1>13
  <2>2. end2 - 1 \in Cells
    BY <1>4 DEF Program, Text
  <2> QED BY <2>1, <2>2, CellFacts
<1>6. RegionsInOrder(regions') /\ regions'.Sfncl = end2
  BY <1>1, <1>5, RegionsAre DEF Cleared
<1>7. Chain(mem') = K
  BY <1>4, ChainIs
<1>8. PointersCurrent'
  BY <1>1 DEF Cleared, PointersCurrent
<1>9. IInv'
  BY <1>4, <1>6, <1>7, <1>8 DEF IInv
<1> QED BY <1>4, <1>7, <1>9

\* NEW keeps the invariant, and leaves no line.
LEMMA InvNew ==
  ASSUME IInv, New
  PROVE  IInv' /\ Chain(mem') = {}
<1> DEFINE m == [mem EXCEPT ![Smeml] = Eol]
<1>1. /\ mem' = Trimmed(m, Smeml + 1) /\ exec' \in {0, Smeml - 1}
      /\ Cleared(Smeml + 1, exec')
  BY DEF New
<1>2. mem \in [Cells -> Int] /\ Smeml \in Cells /\ Smeml \in Int
  BY CellFacts DEF IInv, Program, Text
<1>3. Program(m, {}, Smeml)
  <2>1. m \in [Cells -> Int] /\ m[Smeml] = Eol
    BY <1>2 DEF Eol
  <2> HIDE DEF m
  <2> QED BY <1>2, <2>1 DEF Program, Text, Linked
<1> HIDE DEF m
<1>4. Program(mem', {}, Smeml)
  BY <1>1, <1>3, TrimmedIs
<1>5. Chain(mem') = {}
  BY <1>4, ChainIs
<1>6. RegionsInOrder(regions') /\ regions'.Sfncl = Smeml + 1 /\ regions'.Sfncl - 1 = Smeml
  <2>1. Smeml + 1 \in Int /\ Smeml < Smeml + 1 /\ (Smeml + 1) - 1 = Smeml
    BY CellFacts
  <2>2. RegionsInOrder(Regions(Smeml + 1)) /\ Regions(Smeml + 1).Sfncl = Smeml + 1
    BY <2>1, RegionsAre
  <2> QED BY <1>1, <2>1, <2>2 DEF Cleared
<1>7. PointersCurrent'
  BY <1>1 DEF Cleared, PointersCurrent
<1> QED BY <1>4, <1>5, <1>6, <1>7 DEF IInv

\* The steps that leave the program alone.
Others ==
  \/ \E n \in Numbers : Goto(n)
  \/ Clear \/ Run \/ Statement \/ Stop \/ RunOff \/ Error \/ Cont
  \/ Restore \/ Read
  \/ DefineFunction \/ RedefineFunction \/ FailToDefine \/ CreateVariable
  \/ UNCHANGED vars

\* They keep the invariant as well.
LEMMA InvOthers ==
  ASSUME IInv, Others
  PROVE  IInv' /\ mem' = mem
<1> DEFINE Good == Positions(mem) \cup {0, Smeml - 1}
<1>0. /\ Program(mem, Chain(mem), regions.Sfncl - 1) /\ RegionsInOrder(regions)
      /\ execs \subseteq Good /\ exec \in Good /\ Cpntrl \in Good /\ Dptrl \in Good
      /\ Positions(mem) \subseteq Good /\ 0 \in Good /\ Smeml - 1 \in Good
  BY DEF IInv, PointersCurrent
<1>1. ASSUME NEW n \in Numbers, Found(mem, Search(mem, n), n)
      PROVE  Search(mem, n) - 1 \in Good
  <2>1. n \in Int
    BY ProgramStoreAssumption
  <2>2. Search(mem, n) \in Chain(mem)
    BY <1>0, <1>1, <2>1, SearchIs
  <2> QED BY <1>0, <2>2, BeforeLine
<1>2. /\ RegionsInOrder(Regions(regions.Sfncl))
      /\ Regions(regions.Sfncl).Sfncl = regions.Sfncl
  BY <1>0, RegionsAre DEF RegionsInOrder, Fields
<1> HIDE DEF Good
<1> DEFINE Done ==
             /\ mem' = mem /\ RegionsInOrder(regions') /\ regions'.Sfncl = regions.Sfncl
             /\ (execs' \cup {exec', Cpntrl', Dptrl'}) \subseteq Good
<1> SUFFICES Done
  BY KeptProgram DEF Good
<1>3. ASSUME NEW n \in Numbers, Goto(n) PROVE Done
  BY <1>0, <1>1, <1>3 DEF Goto
<1>4. CASE Clear
  BY <1>0, <1>2, <1>4 DEF Clear, Cleared
<1>5. CASE Run
  BY <1>0, <1>2, <1>5 DEF Run, Cleared
<1>6. CASE Statement
  BY <1>0, <1>6 DEF Statement
<1>7. CASE Stop
  BY <1>0, <1>7 DEF Stop
<1>8. CASE RunOff \/ Error
  BY <1>0, <1>8 DEF RunOff, Error
<1>9. CASE Cont
  BY <1>0, <1>9 DEF Cont
<1>10. CASE Restore
  BY <1>0, <1>1, <1>10 DEF Restore
<1>11. CASE Read
  <2>1. regions' \in Named(regions)
    BY <1>11 DEF Read
  <2>2. RegionsInOrder(regions') /\ regions'.Sfncl = regions.Sfncl
    BY <1>0, <2>1, NamedAre
  <2> QED BY <1>0, <1>11, <2>2 DEF Read
<1>12. /\ RegionsInOrder(Grown(regions, "function"))
       /\ Grown(regions, "function").Sfncl = regions.Sfncl
  BY <1>0, GrownAre
<1>13. ASSUME NEW s \in Named(Grown(regions, "function"))
       PROVE  RegionsInOrder(s) /\ s.Sfncl = regions.Sfncl
  BY <1>12, NamedAre
<1>14. CASE DefineFunction
  <2>1. regions' \in Named(Grown(regions, "function"))
    BY <1>14 DEF DefineFunction
  <2>2. RegionsInOrder(regions') /\ regions'.Sfncl = regions.Sfncl
    BY <1>13, <2>1
  <2> QED BY <1>0, <1>14, <2>2 DEF DefineFunction
<1>15. CASE RedefineFunction
  <2>1. regions' \in Named(regions)
    BY <1>15 DEF RedefineFunction
  <2>2. RegionsInOrder(regions') /\ regions'.Sfncl = regions.Sfncl
    BY <1>0, <2>1, NamedAre
  <2> QED BY <1>0, <1>15, <2>2 DEF RedefineFunction
<1>16. CASE FailToDefine
  <2>1. regions' = Grown(regions, "function") \/ regions' \in Named(Grown(regions, "function"))
    BY <1>16 DEF FailToDefine
  <2>2. RegionsInOrder(regions') /\ regions'.Sfncl = regions.Sfncl
    BY <1>12, <1>13, <2>1
  <2> QED BY <1>0, <1>16, <2>2 DEF FailToDefine
<1>17. CASE CreateVariable
  <2>1. PICK kind \in {"variable", "string", "array"} : regions' = Grown(regions, kind)
    BY <1>17 DEF CreateVariable
  <2>2. RegionsInOrder(regions') /\ regions'.Sfncl = regions.Sfncl
    BY <1>0, <2>1, GrownAre
  <2> QED BY <1>0, <1>17, <2>2 DEF CreateVariable
<1>18. CASE UNCHANGED vars
  BY <1>0, <1>18 DEF vars
<1>19. Done
  <2> HIDE DEF Done
  <2> QED
    BY <1>3, <1>4, <1>5, <1>6, <1>7, <1>8, <1>9, <1>10, <1>11, <1>14, <1>15, <1>16,
             <1>17, <1>18 DEF Others
<1> QED BY <1>19

\* A step enters a line, deletes all of them or leaves the program alone.
LEMMA NextIs ==
  ASSUME [Next]_vars
  PROVE  \/ \E n \in Numbers, code \in Codes \cup {<<>>} : EnterLine(n, code)
         \/ New \/ Others
BY DEF Next, Others

\* Every step keeps the invariant.
LEMMA InvNext == IInv /\ [Next]_vars => IInv'
<1> SUFFICES ASSUME IInv, [Next]_vars PROVE IInv'
  OBVIOUS
<1>1. CASE \E n \in Numbers, code \in Codes \cup {<<>>} : EnterLine(n, code)
  BY <1>1, InvEnterLine
<1>2. CASE New
  BY <1>2, InvNew
<1>3. CASE Others
  BY <1>3, InvOthers
<1> QED BY <1>1, <1>2, <1>3, NextIs

\* Always, the memory below Sfncl is a program with right pointers, the regions
\* lie in their order and every pointer into the program can be resumed at.
THEOREM AlwaysSound == Spec => []IInv
<1>1. Init => IInv
  BY InvInit
<1>2. IInv /\ [Next]_vars => IInv'
  BY InvNext
<1> QED BY <1>1, <1>2, PTL DEF Spec

\* The cells are numbers, the regions of memory stay in their order behind the
\* program, and no pointer leaves memory, whatever is typed and run.
THEOREM TypeCorrect == Spec => []TypeOK
<1>1. IInv => TypeOK
  BY InvImplies
<1> QED BY <1>1, AlwaysSound, PTL

\* After any edits LAB_1325 has left every next line pointer at the line behind,
\* the numbers ascend and the end marker is the last cell below Sfncl.
THEOREM ChainAlwaysInOrder == Spec => []ChainInOrder
<1>1. IInv => ChainInOrder
  BY InvImplies
<1> QED BY <1>1, AlwaysSound, PTL

\* LAB_147A leaves no execute, continue, DATA or function pointer into text
\* that an edit has moved.
THEOREM PointersAlwaysCurrent == Spec => []PointersCurrent
<1>1. IInv => PointersCurrent
  BY InvImplies
<1> QED BY <1>1, AlwaysSound, PTL

-----------------------------------------------------------------------------
(* The refinement.                                                         *)

\* A set of numbered texts as a listing.
Contents(R) == [k \in {r[1] : r \in R} |-> CHOOSE t : <<k, t>> \in R]

\* A listing is a function,
LEMMA ContentsIsFunction ==
  ASSUME NEW R
  PROVE  Contents(R) = [k \in {r[1] : r \in R} |-> Contents(R)[k]]
<1> DEFINE D == {r[1] : r \in R}
           f == Contents(R)
<1>1. f = [k \in D |-> CHOOSE t : <<k, t>> \in R]
  BY DEF Contents
<1> HIDE DEF D, f
<1>2. f = [k \in D |-> f[k]]
  <2>1. \A k \in D : f[k] = CHOOSE t : <<k, t>> \in R
    BY <1>1
  <2> QED BY <1>1, <2>1, Zenon
<1> QED BY <1>2 DEF D, f

\* Each number has one text.
Numbered(R) ==
  /\ \A r \in R : r = <<r[1], r[2]>>
  /\ \A r, s \in R : r[1] = s[1] => r[2] = s[2]

\* which maps each number to its text.
LEMMA ContentsAre ==
  ASSUME NEW R, Numbered(R)
  PROVE  /\ DOMAIN Contents(R) = {r[1] : r \in R}
         /\ \A r \in R : Contents(R)[r[1]] = r[2]
<1>1. ASSUME NEW r \in R PROVE Contents(R)[r[1]] = r[2]
  <2> DEFINE k == r[1]
             t == CHOOSE t : <<k, t>> \in R
  <2>1. <<k, r[2]>> \in R
    BY DEF Numbered
  <2>2. <<k, t>> \in R
    BY <2>1
  <2>3. Contents(R)[k] = t
    BY DEF Contents
  <2> HIDE DEF t
  <2>4. t = r[2]
    <3> DEFINE s == <<k, t>>
    <3>1. s \in R /\ s[1] = r[1] /\ s[2] = t
      BY <2>2
    <3> HIDE DEF s
    <3> QED BY <3>1 DEF Numbered
  <2> QED BY <2>3, <2>4
<1> QED BY <1>1 DEF Contents

\* A listing without the line n, and with another one.
Without(f, n)    == [k \in DOMAIN f \ {n} |-> f[k]]
With(f, n, code) == [k \in DOMAIN f \cup {n} |-> IF k = n THEN code ELSE f[k]]

\* Typing a line changes a listing as the user expects.
LEMMA TypedContents ==
  ASSUME NEW R, Numbered(R), NEW n, NEW code
  PROVE  /\ Numbered(Typed(R, n, code))
         /\ code = <<>> => Contents(Typed(R, n, code)) = Without(Contents(R), n)
         /\ code # <<>> => Contents(Typed(R, n, code)) = With(Contents(R), n, code)
<1> DEFINE Q == Typed(R, n, code)
           new == <<n, code>>
<1>0. new[1] = n /\ new[2] = code /\ new = <<new[1], new[2]>>
  OBVIOUS
<1>1. Q = {r \in R : r[1] # n} \cup (IF code = <<>> THEN {} ELSE {new})
  BY DEF Typed
<1> HIDE DEF Q, new
<1>2. Numbered(Q)
  <2>1. \A r \in Q : r = <<r[1], r[2]>>
    BY <1>0, <1>1 DEF Numbered
  <2>2. ASSUME NEW r \in Q, NEW s \in Q, r[1] = s[1] PROVE r[2] = s[2]
    <3>1. CASE r[1] = n
      BY <1>1, <2>2, <3>1
    <3>2. CASE r[1] # n
      <4>1. r \in R /\ s \in R
        BY <1>0, <1>1, <2>2, <3>2
      <4> QED BY <2>2, <4>1 DEF Numbered
    <3> QED BY <3>1, <3>2
  <2> QED BY <2>1, <2>2 DEF Numbered
<1>3. /\ DOMAIN Contents(R) = {r[1] : r \in R}
      /\ \A r \in R : Contents(R)[r[1]] = r[2]
  BY ContentsAre
<1>4. /\ DOMAIN Contents(Q) = {r[1] : r \in Q}
      /\ \A r \in Q : Contents(Q)[r[1]] = r[2]
  BY <1>2, ContentsAre
<1>5. ASSUME NEW k \in DOMAIN Contents(R), k # n
      PROVE  k \in DOMAIN Contents(Q) /\ Contents(Q)[k] = Contents(R)[k]
  <2>1. PICK r \in R : k = r[1]
    BY <1>3
  <2>2. r \in Q
    BY <1>1, <1>5, <2>1
  <2> QED BY <1>3, <1>4, <2>1, <2>2
<1>6. Contents(Q) = [k \in DOMAIN Contents(Q) |-> Contents(Q)[k]]
  BY <1>4, ContentsIsFunction
<1>7. ASSUME code = <<>>
      PROVE  Contents(Q) = [k \in DOMAIN Contents(R) \ {n} |-> Contents(R)[k]]
  <2>1. DOMAIN Contents(Q) = DOMAIN Contents(R) \ {n}
    BY <1>1, <1>3, <1>4, <1>7
  <2> QED BY <1>5, <1>6, <2>1
<1>8. ASSUME code # <<>>
      PROVE  Contents(Q) =
               [k \in DOMAIN Contents(R) \cup {n} |-> IF k = n THEN code ELSE Contents(R)[k]]
  <2>1. new \in Q
    BY <1>1, <1>8
  <2>2. DOMAIN Contents(Q) = DOMAIN Contents(R) \cup {n}
    <3>1. \A k \in DOMAIN Contents(Q) : k \in DOMAIN Contents(R) \cup {n}
      BY <1>0, <1>1, <1>3, <1>4
    <3>2. n \in DOMAIN Contents(Q)
      BY <1>0, <1>4, <2>1
    <3> QED BY <1>5, <3>1, <3>2
  <2>3. Contents(Q)[n] = code
    BY <1>0, <1>4, <2>1
  <2> QED BY <1>5, <1>6, <2>2, <2>3
<1> QED BY <1>2, <1>7, <1>8 DEF Q, Without, With

\* What the user sees of the memory m.
ListedAt(m) ==
  LET lines == Chain(m)
      text(a) == [i \in 1..(m[a] - a - 2) |-> m[a + 1 + i]]
  IN  [n \in {m[a + 1] : a \in lines} |-> text(CHOOSE a \in lines : m[a + 1] = n)]

\* The listing of a memory that holds a program is that of its lines.
LEMMA ListedIs ==
  ASSUME NEW m, NEW L, NEW end, Program(m, L, end)
  PROVE  ListedAt(m) = Contents(Lines(m, L)) /\ Numbered(Lines(m, L))
<1> DEFINE R == Lines(m, L)
<1>1. Text(m, L, end) /\ Chain(m) = L /\ \A a \in L : m[a] = AfterLine(m, a)
  BY ChainIs DEF Program, Text, Linked
<1>2. ASSUME NEW a \in L, NEW b \in L, m[a + 1] = m[b + 1] PROVE a = b
  <2>1. /\ a \in Int /\ b \in Int /\ m[a + 1] \in Int /\ m[b + 1] \in Int
        /\ a < b => m[a + 1] < m[b + 1]
        /\ b < a => m[b + 1] < m[a + 1]
    <3>1. \A x, y \in L : x < y => m[x + 1] < m[y + 1]
      BY <1>1 DEF Text
    <3>2. a \in Int /\ m[a + 1] \in Int
      BY <1>1, TextFacts
    <3>3. b \in Int /\ m[b + 1] \in Int
      BY <1>1, TextFacts
    <3> QED BY <3>1, <3>2, <3>3
  <2> QED BY <1>2, <2>1
<1>3. \A a \in L : [i \in 1..(m[a] - a - 2) |-> m[a + 1 + i]] = Body(m, a)
  BY <1>1 DEF Body
<1>4. Numbered(R)
  <2>1. \A r \in R : \E a \in L : r = <<m[a + 1], Body(m, a)>>
    BY DEF Lines
  <2>2. \A a \in L : <<m[a + 1], Body(m, a)>>[1] = m[a + 1] /\ <<m[a + 1], Body(m, a)>>[2] = Body(m, a)
    OBVIOUS
  <2> HIDE DEF R
  <2>3. \A r \in R : r = <<r[1], r[2]>>
    BY <2>1, <2>2
  <2>4. ASSUME NEW r \in R, NEW s \in R, r[1] = s[1] PROVE r[2] = s[2]
    <3>1. PICK a \in L : r = <<m[a + 1], Body(m, a)>>
      BY <2>1
    <3>2. PICK b \in L : s = <<m[b + 1], Body(m, b)>>
      BY <2>1
    <3>3. a = b
      BY <1>2, <2>4, <3>1, <3>2
    <3> QED BY <3>1, <3>2, <3>3
  <2> QED BY <2>3, <2>4 DEF Numbered
<1>5. {r[1] : r \in R} = {m[a + 1] : a \in L}
  <2>1. \A a \in L : <<m[a + 1], Body(m, a)>> \in R
    BY DEF Lines
  <2>2. \A r \in R : \E a \in L : r = <<m[a + 1], Body(m, a)>>
    BY DEF Lines
  <2>3. \A a \in L : <<m[a + 1], Body(m, a)>>[1] = m[a + 1]
    OBVIOUS
  <2> HIDE DEF R
  <2>4. ASSUME NEW k \in {r[1] : r \in R} PROVE k \in {m[a + 1] : a \in L}
    BY <2>2, <2>3
  <2>5. ASSUME NEW k \in {m[a + 1] : a \in L} PROVE k \in {r[1] : r \in R}
    BY <2>1, <2>3
  <2> QED BY <2>4, <2>5
<1>6. ASSUME NEW k \in {m[a + 1] : a \in L}
      PROVE  LET c == CHOOSE a \in L : m[a + 1] = k
             IN  [i \in 1..(m[c] - c - 2) |-> m[c + 1 + i]] = Contents(R)[k]
  <2> DEFINE c == CHOOSE a \in L : m[a + 1] = k
  <2>1. c \in L /\ m[c + 1] = k
    OBVIOUS
  <2> HIDE DEF c
  <2>2. <<k, Body(m, c)>> \in R
    BY <2>1 DEF Lines
  <2> DEFINE r == <<k, Body(m, c)>>
  <2>3. r[1] = k /\ r[2] = Body(m, c) /\ r \in R
    BY <2>2
  <2> HIDE DEF r, R
  <2>4. Contents(R)[k] = Body(m, c)
    BY <1>4, <2>3, ContentsAre
  <2>5. [i \in 1..(m[c] - c - 2) |-> m[c + 1 + i]] = Body(m, c)
    BY <1>3, <2>1
  <2> QED BY <2>4, <2>5 DEF c
<1>7. ListedAt(m) = Contents(R)
  <2> HIDE DEF R
  <2>1. ListedAt(m) = [k \in {m[a + 1] : a \in L} |->
                         LET c == CHOOSE a \in L : m[a + 1] = k
                         IN  [i \in 1..(m[c] - c - 2) |-> m[c + 1 + i]]]
    BY <1>1 DEF ListedAt
  <2>2. ListedAt(m) = [k \in {m[a + 1] : a \in L} |-> Contents(R)[k]]
    BY <1>6, <2>1
  <2>3. Contents(R) = [k \in {m[a + 1] : a \in L} |-> Contents(R)[k]]
    BY <1>5, ContentsIsFunction
  <2> QED BY <2>2, <2>3
<1> QED BY <1>4, <1>7

\* Listed is the listing of the memory,
LEMMA ListedNow == Listed = ListedAt(mem)
BY DEF Listed, ListedAt

\* and so after a step.
LEMMA ListedNext == Listed' = ListedAt(mem')
BY DEF Listed, ListedAt

\* To the user, LAB_1295 types a line.
LEMMA EnteringTypes ==
  ASSUME IInv, NEW n \in Numbers, NEW code \in Codes \cup {<<>>}, EnterLine(n, code)
  PROVE  User!Typed(n, code)
<1> DEFINE R == Lines(mem, Chain(mem))
           e == regions.Sfncl - 1
           e2 == regions'.Sfncl - 1
<1>1. Program(mem, Chain(mem), e)
  BY DEF IInv
<1>2. Program(mem', Chain(mem'), e2) /\ Lines(mem', Chain(mem')) = Typed(R, n, code)
  BY InvEnterLine DEF IInv
<1> HIDE DEF e, e2
<1>3. Listed = Contents(R) /\ Numbered(R)
  BY <1>1, ListedIs, ListedNow
<1>4. Listed' = Contents(Typed(R, n, code))
  BY <1>2, ListedIs, ListedNext
<1> HIDE DEF R
<1>5. CASE code = <<>>
  <2>1. Listed' = Without(Listed, n)
    BY <1>3, <1>4, <1>5, TypedContents
  <2>2. User!Delete(n)
    BY <2>1 DEF Without, User!Delete
  <2> QED BY <1>5, <2>2 DEF User!Typed
<1>6. CASE code # <<>>
  <2>1. Listed' = With(Listed, n, code)
    BY <1>3, <1>4, <1>6, TypedContents
  <2>2. User!Replace(n, code)
    BY <2>1 DEF With, User!Replace
  <2> QED BY <1>6, <2>2 DEF User!Typed
<1> QED BY <1>5, <1>6

\* A memory without lines lists as nothing.
LEMMA EmptyListing ==
  ASSUME NEW m, Chain(m) = {}
  PROVE  ListedAt(m) = [n \in {} |-> <<>>]
BY DEF ListedAt

\* At first there is no line.
LEMMA InitLists == Init => User!Init
<1> SUFFICES ASSUME Init PROVE User!Init
  OBVIOUS
<1>1. Program(mem, {}, Smeml)
  <2>1. Smeml \in Cells
    BY CellFacts
  <2>2. mem \in [Cells -> Int] /\ mem[Smeml] = Eol
    BY <2>1 DEF Init, Eol, Forgotten
  <2> QED BY <2>1, <2>2 DEF Program, Text, Linked
<1>2. Chain(mem) = {}
  BY <1>1, ChainIs
<1>3. Listed = [n \in {} |-> <<>>]
  BY <1>2, EmptyListing, ListedNow
<1> QED BY <1>3 DEF User!Init

\* No step does anything to the listing but what the user may do.
LEMMA StepLists == IInv /\ [Next]_vars => [User!Next]_Listed
<1> SUFFICES ASSUME IInv, [Next]_vars PROVE User!Next \/ Listed' = Listed
  OBVIOUS
<1>1. ASSUME \E n \in Numbers, code \in Codes \cup {<<>>} : EnterLine(n, code)
      PROVE  User!Next
  <2>1. PICK n \in Numbers, code \in Codes \cup {<<>>} : EnterLine(n, code)
    BY <1>1
  <2>2. User!Typed(n, code)
    BY <2>1, EnteringTypes
  <2> QED BY <2>2 DEF User!Next
<1>2. ASSUME New PROVE User!Next
  <2>1. Chain(mem') = {}
    BY <1>2, InvNew
  <2>2. Listed' = [n \in {} |-> <<>>]
    BY <2>1, EmptyListing, ListedNext
  <2> QED BY <2>2 DEF User!Next, User!New
<1>3. ASSUME Others PROVE Listed' = Listed
  <2>1. mem' = mem
    BY <1>3, InvOthers
  <2> QED BY <2>1, ListedNow, ListedNext
<1> QED BY <1>1, <1>2, <1>3, NextIs

\* Typing lines, NEW and running the program do to the lines in memory what
\* Listing promises: LAB_1295 replaces or deletes the line of one number, and
\* nothing but it and NEW changes any line.
THEOREM ImplementsListing == Spec => ListsProgram
<1> DEFINE Types == \A n \in Numbers, code \in Codes \cup {<<>>} : EnterLine(n, code) => User!Typed(n, code)
<1>1. Init => User!Init
  BY InitLists
<1>2. IInv /\ [Next]_vars => [User!Next]_Listed
  BY StepLists
<1>3. IInv /\ [Next]_vars => [Types]_vars
  BY EnteringTypes
<1>4. Spec => [][Types]_vars
  <2> HIDE DEF Types
  <2> QED BY <1>3, AlwaysSound, PTL DEF Spec
<1>5. Spec => User!Spec
  BY <1>1, <1>2, AlwaysSound, PTL DEF Spec, User!Spec
<1> QED BY <1>4, <1>5 DEF ListsProgram

=============================================================================
