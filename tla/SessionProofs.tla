----------------------------- MODULE SessionProofs -----------------------------
EXTENDS Session, TLAPS, FiniteSetTheorems

(***************************************************************************)
(* Proofs about a session at the keyboard, for every number of keys and    *)
(* every life of the key kept by the Ctrl-C check.  GET may take a key     *)
(* from the queue or the one kept; that both come in order follows from    *)
(* one number, Floor: everything GET was given is not above it and         *)
(* everything on the queue is.  Reading a key (Reads) only raises it.      *)
(***************************************************************************)

\* The number of the youngest key that GET was given, or could still be given by ccbyte.
Floor == IF ccnull > 0 THEN ccbyte.n ELSE last

\* A queue in the order of the keys' numbers, all of them above f and up to n.
Waiting(q, n, f) ==
  /\ q \in Seq(KeyPress)
  /\ \A i \in DOMAIN q : f < q[i].n /\ q[i].n <= n
  /\ \A i, j \in DOMAIN q : i < j => q[i].n < q[j].n

KeyInv ==
  /\ down \subseteq Keys /\ fresh \subseteq down
  /\ noticed \in Nat /\ noticed + Cardinality(fresh) <= MaxKeys
  /\ Waiting(queue, noticed, Floor)
  /\ last \in 0..noticed /\ ccnull \in 0..Life /\ ccbyte \in KeyPress \cup {NoKey}
  /\ ccnull > 0 => last < ccbyte.n /\ ccbyte.n <= noticed

ModeInv ==
  mode \in {"line", "check", "statement"} /\ asking \in {"command", "input"} /\ typed \in BOOLEAN

IInv == KeyInv /\ ModeInv /\ focus \in Applets \cup {Menu}

-----------------------------------------------------------------------------
(* Keys on the queue.                                                      *)

\* There are at most five keys, so that any of them can be counted.
LEMMA KeysFinite ==
  ASSUME NEW S \in SUBSET Keys
  PROVE  IsFiniteSet(S) /\ Cardinality(S) \in Nat
<1>1. IsFiniteSet({"char"} \cup {"cr"} \cup {"ctrlC"} \cup {"applets"} \cup {"dead"})
  BY FS_Singleton, FS_Union
<1>2. S \subseteq {"char"} \cup {"cr"} \cup {"ctrlC"} \cup {"applets"} \cup {"dead"}
  BY SessionAssumption DEF SessionAssumption
<1>3. IsFiniteSet(S)
  BY <1>1, <1>2, FS_Subset
<1> QED
  BY <1>3, FS_CardinalityType

\* A scan puts the keys held behind those on the queue.
LEMMA ScanKeeps ==
  ASSUME KeyInv, NEW f \in 0..noticed, Waiting(queue, noticed, f), NEW q \in Scans
  PROVE  Waiting(q, noticed + Cardinality(fresh), f)
<1> DEFINE n == Cardinality(fresh)
<1>1. n \in Nat /\ noticed \in Nat /\ noticed + n <= MaxKeys /\ MaxKeys \in Nat
  BY KeysFinite, SessionAssumption DEF KeyInv, SessionAssumption
<1>2. PICK s \in SetToSeqs(fresh) : q = queue \o [i \in DOMAIN s |-> [n |-> noticed + i, key |-> s[i]]]
  BY DEF Scans
<1>3. s \in [1..n -> fresh]
  BY DEF SetToSeqs
<1> DEFINE new == [i \in DOMAIN s |-> [n |-> noticed + i, key |-> s[i]]]
<1>4. new = [i \in 1..n |-> [n |-> noticed + i, key |-> s[i]]]
  BY <1>3
<1>5. \A i \in 1..n : noticed + i \in 1..MaxKeys /\ s[i] \in Keys
  BY <1>1, <1>3 DEF KeyInv
<1>6. \A i \in 1..n : new[i] \in KeyPress /\ new[i].n = noticed + i
  BY <1>4, <1>5 DEF KeyPress
<1>7. new \in Seq(KeyPress) /\ Len(new) = n
  <2>1. new \in [1..n -> KeyPress]
    BY <1>4, <1>6
  <2> HIDE DEF new
  <2> QED
    BY <1>1, <2>1
<1>8. q = queue \o new
  BY <1>2
<1> HIDE DEF new, n
<1>9. queue \in Seq(KeyPress)
  BY DEF Waiting
<1>10. /\ q \in Seq(KeyPress) /\ Len(q) = Len(queue) + n
       /\ \A i \in 1..Len(q) : q[i] = IF i <= Len(queue) THEN queue[i] ELSE new[i - Len(queue)]
  BY <1>7, <1>8, <1>9
<1>11. \A i \in DOMAIN queue : /\ queue[i].n \in Int /\ f < queue[i].n /\ queue[i].n <= noticed
                               /\ \A j \in DOMAIN queue : i < j => queue[i].n < queue[j].n
  <2>1. \A i \in DOMAIN queue : queue[i] \in KeyPress
    BY <1>9
  <2>2. \A i \in DOMAIN queue : queue[i].n \in Int
    BY <2>1 DEF KeyPress
  <2> QED
    BY <2>2 DEF Waiting
<1>12. \A i \in 1..Len(q) :
         IF i <= Len(queue) THEN q[i].n = queue[i].n /\ i \in DOMAIN queue
         ELSE q[i].n = noticed + (i - Len(queue)) /\ i - Len(queue) \in 1..n
  <2> SUFFICES ASSUME NEW i \in 1..Len(q)
               PROVE  IF i <= Len(queue) THEN q[i].n = queue[i].n /\ i \in DOMAIN queue
                      ELSE q[i].n = noticed + (i - Len(queue)) /\ i - Len(queue) \in 1..n
    OBVIOUS
  <2>1. CASE i <= Len(queue)
    BY <1>9, <1>10, <2>1
  <2>2. CASE ~(i <= Len(queue))
    <3>1. i - Len(queue) \in 1..n
      BY <1>1, <1>9, <1>10, <2>2
    <3> QED
      BY <1>6, <1>10, <2>2, <3>1
  <2> QED
    BY <2>1, <2>2
<1>13. Len(queue) \in Nat /\ DOMAIN queue = 1..Len(queue) /\ DOMAIN q = 1..Len(q) /\ Len(q) \in Nat
  BY <1>9, <1>10
<1>14. \A i \in DOMAIN q : f < q[i].n /\ q[i].n <= noticed + n
  <2> SUFFICES ASSUME NEW i \in 1..Len(q) PROVE f < q[i].n /\ q[i].n <= noticed + n
    BY <1>13
  <2>1. CASE i <= Len(queue)
    <3>1. q[i].n = queue[i].n /\ i \in DOMAIN queue
      BY <1>12, <2>1
    <3>2. q[i].n \in Int /\ f < q[i].n /\ q[i].n <= noticed
      BY <1>11, <3>1
    <3> QED
      BY <1>1, <3>2
  <2>2. CASE ~(i <= Len(queue))
    <3>1. q[i].n = noticed + (i - Len(queue)) /\ i - Len(queue) \in 1..n
      BY <1>12, <2>2
    <3> QED
      BY <1>1, <1>13, <3>1
  <2> QED
    BY <2>1, <2>2
<1>15. \A i, j \in DOMAIN q : i < j => q[i].n < q[j].n
  BY <1>1, <1>11, <1>12, <1>13
<1> QED
  BY <1>10, <1>14, <1>15 DEF Waiting, n

\* Taking the head of a queue in order.
LEMMA TakenKeeps ==
  ASSUME NEW q, NEW n \in Nat, NEW f \in Nat, Waiting(q, n, f)
  PROVE  /\ Waiting(Taken(q), n, f)
         /\ \/ Got(q) = NoKey
            \/ Got(q) \in KeyPress /\ f < Got(q).n /\ Got(q).n <= n /\ Waiting(Taken(q), n, Got(q).n)
<1>1. q \in Seq(KeyPress)
  BY DEF Waiting
<1>2. CASE q = <<>>
  BY <1>2 DEF Taken, Got
<1>3. CASE q # <<>>
  <2>1. Len(q) \in Nat /\ Len(q) >= 1 /\ Head(q) = q[1] /\ q[1] \in KeyPress
    BY <1>1, <1>3
  <2>2. Taken(q) = Tail(q) /\ Got(q) = q[1]
    BY <1>3, <2>1 DEF Taken, Got
  <2>3. /\ Tail(q) \in Seq(KeyPress) /\ DOMAIN Tail(q) = 1..(Len(q) - 1)
        /\ \A i \in 1..(Len(q) - 1) : Tail(q)[i] = q[i + 1]
    BY <1>1, <1>3, <2>1
  <2>4. DOMAIN q = 1..Len(q)
    BY <1>1
  <2>5. \A i \in 1..(Len(q) - 1) : i + 1 \in DOMAIN q
    BY <2>1, <2>4
  <2>6. \A i \in DOMAIN Tail(q) : /\ f < Tail(q)[i].n /\ Tail(q)[i].n <= n /\ q[1].n < Tail(q)[i].n
    <3> SUFFICES ASSUME NEW i \in 1..(Len(q) - 1)
                 PROVE  f < q[i + 1].n /\ q[i + 1].n <= n /\ q[1].n < q[i + 1].n
      BY <2>3
    <3>1. i + 1 \in DOMAIN q /\ 1 \in DOMAIN q /\ 1 < i + 1
      BY <2>1, <2>4, <2>5
    <3> QED
      BY <3>1 DEF Waiting
  <2>7. \A i, j \in DOMAIN Tail(q) : i < j => Tail(q)[i].n < Tail(q)[j].n
    <3> SUFFICES ASSUME NEW i \in 1..(Len(q) - 1), NEW j \in 1..(Len(q) - 1), i < j
                 PROVE  q[i + 1].n < q[j + 1].n
      BY <2>3
    <3>1. i + 1 \in DOMAIN q /\ j + 1 \in DOMAIN q /\ i + 1 < j + 1
      BY <2>5
    <3> QED
      BY <3>1 DEF Waiting
  <2>8. f < q[1].n /\ q[1].n <= n
    <3>1. 1 \in DOMAIN q
      BY <2>1, <2>4
    <3> QED
      BY <3>1 DEF Waiting
  <2> QED
    BY <2>1, <2>2, <2>3, <2>6, <2>7, <2>8 DEF Waiting
<1> QED
  BY <1>2, <1>3

\* A lower floor is one, too.
LEMMA LowerFloor ==
  ASSUME NEW q, NEW n \in Nat, NEW f \in Nat, Waiting(q, n, f), NEW g \in 0..f
  PROVE  Waiting(q, n, g)
<1>1. \A i \in DOMAIN q : q[i].n \in Int
  <2>1. \A i \in DOMAIN q : q[i] \in KeyPress
    BY DEF Waiting
  <2> QED
    BY <2>1 DEF KeyPress
<1> QED
  BY <1>1 DEF Waiting

LEMMA FloorBounds ==
  ASSUME KeyInv
  PROVE  Floor \in 0..noticed /\ last \in 0..Floor
<1>1. ccnull > 0 => ccbyte.n \in Int /\ last < ccbyte.n /\ ccbyte.n <= noticed
  BY DEF KeyInv, KeyPress, NoKey
<1> QED
  BY <1>1 DEF KeyInv, Floor

-----------------------------------------------------------------------------
(* Reading a key.                                                          *)

\* A step read key, or none: it is younger than all that GET was given.
Reads(key) ==
  /\ down' = down /\ fresh' \subseteq fresh
  /\ noticed' \in Nat /\ noticed <= noticed' /\ noticed' + Cardinality(fresh') <= MaxKeys
  /\ Waiting(queue', noticed', Floor)
  /\ \/ key = NoKey
     \/ key \in KeyPress /\ Floor < key.n /\ key.n <= noticed' /\ Waiting(queue', noticed', key.n)

LEMMA ScanReads ==
  ASSUME KeyInv, NEW q \in Scans, queue' = Taken(q), UNCHANGED down,
         fresh' = {}, noticed' = noticed + Cardinality(fresh)
  PROVE  Reads(Got(q))
<1>1. Floor \in 0..noticed /\ noticed \in Nat /\ Waiting(queue, noticed, Floor)
  BY FloorBounds DEF KeyInv
<1>2. Waiting(q, noticed', Floor)
  BY <1>1, ScanKeeps
<1>3. Cardinality(fresh) \in Nat /\ Cardinality({}) = 0 /\ MaxKeys \in Nat
  BY KeysFinite, FS_EmptySet, SessionAssumption DEF KeyInv, SessionAssumption
<1>4. noticed' \in Nat /\ noticed <= noticed' /\ noticed' + Cardinality(fresh') <= MaxKeys
  BY <1>1, <1>3 DEF KeyInv
<1>5. Floor \in Nat
  BY <1>1
<1>6. /\ Waiting(queue', noticed', Floor)
      /\ \/ Got(q) = NoKey
         \/ /\ Got(q) \in KeyPress /\ Floor < Got(q).n /\ Got(q).n <= noticed'
            /\ Waiting(queue', noticed', Got(q).n)
  BY <1>2, <1>4, <1>5, TakenKeeps
<1> QED
  BY <1>4, <1>6 DEF Reads

\* Taking the head of the queue without a scan.
LEMMA QueueReads ==
  ASSUME KeyInv, queue' = Taken(queue), UNCHANGED <<down, fresh, noticed>>
  PROVE  Reads(Got(queue))
<1>1. Floor \in Nat /\ noticed \in Nat /\ Waiting(queue, noticed, Floor)
  BY FloorBounds DEF KeyInv
<1> QED
  BY <1>1, TakenKeeps DEF KeyInv, Reads

LEMMA VecInReads ==
  ASSUME KeyInv, NEW wait \in BOOLEAN, NEW r \in VEC_IN(wait), Read(r)
  PROVE  Reads(r.key)
<1>1. CASE wait \/ down # {}
  <2>1. PICK q \in Scans : r = [queue |-> Taken(q), scan |-> TRUE, key |-> Got(q)]
    BY <1>1 DEF VEC_IN
  <2> QED
    BY <2>1, ScanReads DEF Read
<1>2. CASE ~(wait \/ down # {})
  <2>1. r = [queue |-> Taken(queue), scan |-> FALSE, key |-> Got(queue)]
    BY <1>2 DEF VEC_IN
  <2> QED
    BY <2>1, QueueReads DEF Read
<1> QED
  BY <1>1, <1>2

\* What may become of the key kept for GET, and of what GET was given.
Keeps(key) ==
  \/ ccnull' \in {0, ccnull} /\ UNCHANGED <<ccbyte, last>>
  \/ ccnull > 0 /\ ccnull' = ccnull - 1 /\ UNCHANGED <<ccbyte, last>>
  \/ key # NoKey /\ ccbyte' = key /\ ccnull' = Life /\ UNCHANGED last
  \/ key # NoKey /\ last' = key.n /\ ccnull' = 0 /\ UNCHANGED ccbyte
  \/ ccnull > 0 /\ last' = ccbyte.n /\ ccnull' = 0 /\ UNCHANGED ccbyte

LEMMA KeyKept ==
  ASSUME KeyInv, NEW key, Reads(key), Keeps(key)
  PROVE  KeyInv'
<1>1. /\ Floor \in 0..noticed /\ last \in 0..Floor /\ noticed' \in Nat /\ noticed <= noticed'
      /\ noticed \in Nat /\ Life \in Nat \ {0}
  BY FloorBounds, SessionAssumption DEF Reads, KeyInv, SessionAssumption
<1>2. ccnull > 0 => ccbyte.n = Floor /\ ccbyte.n \in Int /\ last < ccbyte.n
  BY DEF KeyInv, KeyPress, NoKey, Floor
<1>3. key # NoKey => /\ key \in KeyPress /\ key.n \in Int /\ Floor < key.n /\ key.n <= noticed'
                     /\ Waiting(queue', noticed', key.n)
  BY DEF Reads, KeyPress
<1>4. Waiting(queue', noticed', Floor)
  BY DEF Reads
<1>5. ccnull \in 0..Life /\ ccbyte \in KeyPress \cup {NoKey}
  BY DEF KeyInv
<1>6. /\ Waiting(queue', noticed', Floor')
      /\ last' \in 0..noticed' /\ ccnull' \in 0..Life /\ ccbyte' \in KeyPress \cup {NoKey}
      /\ ccnull' > 0 => last' < ccbyte'.n /\ ccbyte'.n <= noticed'
  <2>1. CASE ccnull' \in {0, ccnull} /\ UNCHANGED <<ccbyte, last>>
    <3>1. Floor' \in 0..Floor
      BY <1>1, <1>5, <2>1 DEF Floor
    <3> QED
      BY <1>1, <1>2, <1>4, <1>5, <2>1, <3>1, LowerFloor
  <2>2. CASE ccnull > 0 /\ ccnull' = ccnull - 1 /\ UNCHANGED <<ccbyte, last>>
    <3>1. Floor' \in 0..Floor
      BY <1>1, <1>2, <1>5, <2>2 DEF Floor
    <3> QED
      BY <1>1, <1>2, <1>4, <1>5, <2>2, <3>1, LowerFloor
  <2>3. CASE key # NoKey /\ ccbyte' = key /\ ccnull' = Life /\ UNCHANGED last
    <3>1. Floor' = key.n
      BY <1>1, <2>3 DEF Floor
    <3> QED
      BY <1>1, <1>3, <2>3, <3>1
  <2>4. CASE key # NoKey /\ last' = key.n /\ ccnull' = 0 /\ UNCHANGED ccbyte
    <3>1. Floor' = key.n
      BY <2>4 DEF Floor
    <3> QED
      BY <1>1, <1>3, <1>5, <2>4, <3>1
  <2>5. CASE ccnull > 0 /\ last' = ccbyte.n /\ ccnull' = 0 /\ UNCHANGED ccbyte
    <3>1. Floor' = Floor
      BY <1>2, <2>5 DEF Floor
    <3> QED
      BY <1>1, <1>2, <1>4, <1>5, <2>5, <3>1
  <2> QED
    BY <2>1, <2>2, <2>3, <2>4, <2>5 DEF Keeps
<1> QED
  BY <1>6 DEF KeyInv, Reads

-----------------------------------------------------------------------------
(* The steps.                                                              *)

\* The focus goes back to the menu.
LEMMA LeaveStep == IInv /\ Leave => ModeInv' /\ focus' = Menu /\ \A key : Keeps(key)
BY DEF IInv, ModeInv, Leave, Keeps, basic

LEMMA SameBasic == ModeInv /\ UNCHANGED basic => ModeInv' /\ \A key : Keeps(key)
BY DEF ModeInv, basic, Keeps

\* A byte is a key.
LEMMA BytesAreKeys ==
  ASSUME NEW r, IsByte(r)
  PROVE  r.key # NoKey
BY DEF IsByte, TranslateKeyToChar, NoKey

LEMMA EditLineStep == IInv /\ EditLine => IInv'
<1> SUFFICES ASSUME IInv, EditLine PROVE IInv'
  OBVIOUS
<1>1. PICK r \in VEC_IN(TRUE) :
        /\ Read(r)
        /\ IF Leaves(r) THEN Leave
           ELSE /\ UNCHANGED <<focus, ccbyte, last>>
                /\ CASE ~IsByte(r)       -> UNCHANGED <<mode, asking, typed, ccnull>>
                     [] r.key.key = "cr" -> IF asking = "command" THEN CommandLine ELSE InputLine
                     [] OTHER            -> /\ typed' = (typed \/ r.key.key = "char")
                                            /\ UNCHANGED <<mode, asking, ccnull>>
  BY DEF EditLine
<1>2. Reads(r.key)
  BY <1>1, VecInReads DEF IInv
<1>3. CASE Leaves(r)
  BY <1>1, <1>2, <1>3, LeaveStep, KeyKept DEF IInv
<1>4. CASE ~Leaves(r)
  <2>1. ModeInv' /\ ccnull' \in {0, ccnull}
    BY <1>1, <1>4 DEF IInv, ModeInv, CommandLine, InputLine, Command
  <2>2. Keeps(r.key)
    BY <1>1, <1>4, <2>1 DEF Keeps
  <2> QED
    BY <1>1, <1>2, <1>4, <2>1, <2>2, KeyKept DEF IInv
<1> QED
  BY <1>3, <1>4

LEMMA CheckStep == IInv /\ Check => IInv'
<1> SUFFICES ASSUME IInv, Check PROVE IInv'
  OBVIOUS
<1>1. PICK r \in VEC_IN(FALSE) :
        /\ Read(r)
        /\ IF Leaves(r) THEN Leave ELSE Checked(r) /\ UNCHANGED <<focus, last>>
  BY DEF Check
<1>2. Reads(r.key)
  BY <1>1, VecInReads DEF IInv
<1>3. CASE Leaves(r)
  BY <1>1, <1>2, <1>3, LeaveStep, KeyKept DEF IInv
<1>4. CASE ~Leaves(r)
  <2>1. ModeInv'
    BY <1>1, <1>4 DEF IInv, ModeInv, Checked, Command
  <2>2. Keeps(r.key)
    <3>1. ccnull \in Nat
      BY DEF IInv, KeyInv
    <3> QED
      BY <1>1, <1>4, <3>1, BytesAreKeys DEF Keeps, Checked
  <2> QED
    BY <1>1, <1>2, <1>4, <2>1, <2>2, KeyKept DEF IInv
<1> QED
  BY <1>3, <1>4

LEMMA GetStep == IInv /\ Get => IInv'
<1> SUFFICES ASSUME IInv, Get PROVE IInv'
  OBVIOUS
<1>1. PICK r \in VEC_IN(FALSE) :
        /\ Read(r)
        /\ IF Leaves(r) THEN Leave
           ELSE INGET(r) /\ mode' = "check" /\ UNCHANGED <<focus, asking, typed, ccbyte>>
  BY DEF Get
<1>2. Reads(r.key)
  BY <1>1, VecInReads DEF IInv
<1>3. CASE Leaves(r)
  BY <1>1, <1>2, <1>3, LeaveStep, KeyKept DEF IInv
<1>4. CASE ~Leaves(r)
  <2>1. ModeInv'
    BY <1>1, <1>4 DEF IInv, ModeInv
  <2>2. Keeps(r.key)
    BY <1>1, <1>4, BytesAreKeys DEF Keeps, INGET
  <2> QED
    BY <1>1, <1>2, <1>4, <2>1, <2>2, KeyKept DEF IInv
<1> QED
  BY <1>3, <1>4

LEMMA SameKeys == KeyInv /\ UNCHANGED keyboard => Reads(NoKey)
BY DEF KeyInv, keyboard, Reads

LEMMA StatementStep == IInv /\ Statement => IInv'
<1> SUFFICES ASSUME IInv, Statement PROVE IInv'
  OBVIOUS
<1>1. ModeInv' /\ ccnull' \in {0, ccnull}
  BY DEF IInv, ModeInv, Statement, Command
<1>2. Keeps(NoKey) /\ Reads(NoKey)
  BY <1>1, SameKeys DEF Keeps, Statement, IInv
<1> QED
  BY <1>1, <1>2, KeyKept DEF IInv, Statement

LEMMA GetcharStep == IInv /\ Getchar => IInv'
<1> SUFFICES ASSUME IInv, Getchar PROVE IInv'
  OBVIOUS
<1>1. CASE \E q \in Scans : queue = <<>> /\ Scanned(q) /\ UNCHANGED <<down, focus, basic>>
  <2>1. PICK q \in Scans : Scanned(q) /\ UNCHANGED <<down, focus, basic>>
    BY <1>1
  <2>2. KeyInv'
    <3>1. Floor \in 0..noticed /\ noticed \in Nat /\ Waiting(queue, noticed, Floor)
      BY FloorBounds DEF IInv, KeyInv
    <3>2. Waiting(queue', noticed', Floor)
      BY <2>1, <3>1, ScanKeeps DEF Scanned, IInv
    <3>3. Cardinality(fresh) \in Nat /\ Cardinality({}) = 0 /\ MaxKeys \in Nat
      BY KeysFinite, FS_EmptySet, SessionAssumption DEF IInv, KeyInv, SessionAssumption
    <3>4. Reads(NoKey)
      BY <2>1, <3>1, <3>2, <3>3 DEF Scanned, IInv, KeyInv, Reads
    <3> QED
      BY <2>1, <3>4, SameBasic, KeyKept DEF IInv
  <2> QED
    BY <2>1, <2>2, SameBasic DEF IInv
<1>2. CASE /\ queue # <<>> /\ queue' = Tail(queue) /\ UNCHANGED <<down, fresh, noticed>>
           /\ Leave \/ UNCHANGED <<focus, basic>>
  <2>1. Reads(Got(queue))
    BY <1>2, QueueReads DEF Taken, IInv
  <2>2. ModeInv' /\ focus' \in Applets \cup {Menu} /\ Keeps(Got(queue))
    BY <1>2, LeaveStep, SameBasic DEF IInv
  <2> QED
    BY <2>1, <2>2, KeyKept DEF IInv
<1> QED
  BY <1>1, <1>2 DEF Getchar

LEMMA SystemStep == IInv /\ System => IInv'
<1> SUFFICES ASSUME IInv, System PROVE IInv'
  OBVIOUS
<1>1. PICK q \in Scans :
        /\ fresh' = {} /\ noticed' = noticed + Cardinality(fresh)
        /\ queue' = Taken(q) /\ UNCHANGED down
        /\ Leave \/ UNCHANGED <<focus, basic>>
  BY DEF System
<1>2. Reads(Got(q))
  BY <1>1, ScanReads DEF IInv
<1>3. ModeInv' /\ focus' \in Applets \cup {Menu} /\ Keeps(Got(q))
  BY <1>1, LeaveStep, SameBasic DEF IInv
<1> QED
  BY <1>2, <1>3, KeyKept DEF IInv

\* The user presses and releases keys; there are no more than the bound says.
LEMMA UserStep == IInv /\ (\E k \in Keys : Press(k) \/ Release(k)) => IInv'
<1> SUFFICES ASSUME IInv, NEW k \in Keys, Press(k) \/ Release(k) PROVE IInv'
  OBVIOUS
<1>1. ModeInv' /\ focus' \in Applets \cup {Menu}
  BY SameBasic DEF IInv, Press, Release
<1>2. /\ down' \subseteq Keys /\ fresh' \subseteq down' /\ noticed' = noticed /\ queue' = queue
      /\ UNCHANGED basic
  BY DEF IInv, KeyInv, Press, Release
<1>3. noticed' + Cardinality(fresh') <= MaxKeys
  <2>1. /\ IsFiniteSet(fresh) /\ Cardinality(fresh) \in Nat /\ noticed \in Nat /\ MaxKeys \in Nat
        /\ noticed + Cardinality(fresh) <= MaxKeys
    BY KeysFinite, SessionAssumption DEF IInv, KeyInv, SessionAssumption
  <2>2. CASE Press(k)
    <3>1. k \notin fresh /\ fresh' = fresh \cup {k} /\ noticed + Cardinality(fresh) < MaxKeys
      BY <2>2 DEF Press, IInv, KeyInv
    <3>2. Cardinality(fresh') = Cardinality(fresh) + 1
      BY <2>1, <3>1, FS_AddElement
    <3> QED
      BY <1>2, <2>1, <3>1, <3>2
  <2>3. CASE Release(k)
    <3>1. Cardinality(fresh') <= Cardinality(fresh) /\ Cardinality(fresh') \in Nat
      BY <1>2, <2>1, <2>3, FS_Subset, KeysFinite DEF Release
    <3> QED
      BY <1>2, <2>1, <3>1
  <2> QED
    BY <2>2, <2>3
<1>4. KeyInv'
  BY <1>2, <1>3 DEF IInv, KeyInv, Waiting, Floor, basic
<1> QED
  BY <1>1, <1>4 DEF IInv

LEMMA FocusSteps == IInv /\ (WrapperSetFocus \/ HelloSetFocus \/ ReaderSetFocus) => IInv'
<1> SUFFICES ASSUME IInv, WrapperSetFocus \/ HelloSetFocus \/ ReaderSetFocus PROVE IInv'
  OBVIOUS
<1>1. UNCHANGED keyboard /\ Keeps(NoKey) /\ ModeInv' /\ focus' \in Applets
  BY DEF IInv, ModeInv, Keeps, basic, WrapperSetFocus, HelloSetFocus, ReaderSetFocus, SetFocus, Applets
<1>2. KeyInv'
  BY <1>1, SameKeys, KeyKept DEF IInv
<1> QED
  BY <1>1, <1>2 DEF IInv

-----------------------------------------------------------------------------
(* The theorems.                                                           *)

LEMMA InitInv == Init => IInv
<1> SUFFICES ASSUME Init PROVE IInv
  OBVIOUS
<1>1. Cardinality({}) = 0 /\ MaxKeys \in Nat /\ Life \in Nat
  BY FS_EmptySet, SessionAssumption DEF SessionAssumption
<1>2. Waiting(queue, noticed, Floor)
  BY DEF Init, Waiting
<1>3. KeyInv
  BY <1>1, <1>2 DEF Init, KeyInv
<1>4. ModeInv
  BY DEF Init, ModeInv
<1>5. focus \in Applets \cup {Menu}
  BY DEF Init
<1> QED
  BY <1>3, <1>4, <1>5 DEF IInv

LEMMA NextInv == IInv /\ [Next]_vars => IInv'
<1>1. IInv /\ UNCHANGED vars => IInv'
  <2> SUFFICES ASSUME IInv, UNCHANGED vars PROVE IInv'
    OBVIOUS
  <2>1. UNCHANGED focus /\ UNCHANGED keyboard /\ UNCHANGED basic
    BY DEF vars
  <2> QED
    BY <2>1, SameBasic, SameKeys, KeyKept DEF IInv
<1> QED
  BY <1>1, EditLineStep, CheckStep, GetStep, StatementStep, GetcharStep, SystemStep, UserStep, FocusSteps
  DEF Next

LEMMA Invariance == Spec => []IInv
BY InitInv, NextInv, PTL DEF Spec

(***************************************************************************)
(* The session stays well typed, for every number of keys: the queue holds *)
(* only keys that were noticed, the byte kept for GET lives no longer than *)
(* it should (EhBASIC.asm lines 7166-7176).                                *)
(***************************************************************************)
THEOREM TypeCorrect == Spec => []TypeOK
<1>1. IInv => TypeOK
  <2> SUFFICES ASSUME IInv PROVE TypeOK
    OBVIOUS
  <2>1. Cardinality(fresh) \in Nat /\ MaxKeys \in Nat
    BY KeysFinite, SessionAssumption DEF IInv, KeyInv, SessionAssumption
  <2>2. noticed \in 0..MaxKeys /\ last \in 0..MaxKeys
    BY <2>1 DEF IInv, KeyInv
  <2> QED
    BY <2>2 DEF IInv, KeyInv, ModeInv, Waiting, TypeOK
<1> QED
  BY <1>1, Invariance, PTL

(***************************************************************************)
(* GET delivers keys in the order they were typed and none twice, whether  *)
(* they come from the queue or from the byte that the Ctrl-C check kept,   *)
(* for every number of keys and every life of that byte (EhBASIC.asm lines *)
(* 7159-7196).                                                             *)
(***************************************************************************)
THEOREM GetsInOrderAlways == Spec => []GetsInOrder
<1>1. IInv => GetsInOrder
  <2> SUFFICES ASSUME IInv PROVE GetsInOrder
    OBVIOUS
  <2>1. last \in 0..Floor /\ Floor \in Int
    BY FloorBounds DEF IInv, KeyInv
  <2>2. \A i \in DOMAIN queue : Floor < queue[i].n /\ queue[i].n \in Int
    <3>1. \A i \in DOMAIN queue : queue[i] \in KeyPress
      BY DEF IInv, KeyInv, Waiting
    <3> QED
      BY <3>1 DEF IInv, KeyInv, Waiting, KeyPress
  <2>3. ccnull > 0 => Floor = ccbyte.n /\ last < ccbyte.n
    BY DEF IInv, KeyInv, Floor
  <2> QED
    BY <2>1, <2>2, <2>3 DEF GetsInOrder
<1> QED
  BY <1>1, Invariance, PTL

================================================================================
