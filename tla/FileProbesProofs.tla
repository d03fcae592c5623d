--------------------------- MODULE FileProbesProofs ---------------------------
EXTENDS FileProbes, TLAPS, FiniteSetTheorems

(***************************************************************************)
(* Proofs about the two file probes, for every set of slots and every      *)
(* capacity of the clipboard.  A verdict is a count of failed checks, so   *)
(* most of the work is to say when a case leaves that count where it was:  *)
(* NamespacePasses and RefusedPasses do, and for each firmware that        *)
(* differs from the contract a lemma names the case that cannot pass.      *)
(***************************************************************************)

Folders == Slots \cup Empty \cup {OutOfRange}
Flags == {"zero", "0x40", "other"}
SomeStock == SUBSET Stock
Api == [folder : Folders, flags : Flags, result : Int]
Res ==
  [missing : SomeStock, checks : Nat, failures : Nat,
   alphaWord : Int, alphaWordFlags : Flags, noFiles : Int, noFilesFlags : Flags,
   invalid : Int, invalidFlags : Flags]
Case == [api : Api, res : Res]

-----------------------------------------------------------------------------
(* The firmware's part.                                                    *)

LEMMA Indices ==
  /\ Folders \subseteq Nat /\ OutOfRange \in Folders /\ OutOfRange \notin Slots \cup Empty
  /\ {AlphaWord, AlphaQuiz, Calculator, 0} \subseteq Folders
  /\ AlphaWord # AlphaQuiz /\ AlphaWord # Calculator /\ AlphaQuiz # Calculator
  /\ AlphaWord # 0 /\ AlphaQuiz # 0 /\ Calculator # 0
<1>1. AlphaWord # AlphaQuiz /\ AlphaWord # Calculator /\ AlphaQuiz # Calculator
  <2>2. \A a, b : Cardinality({a, b}) <= 2
    <3> SUFFICES ASSUME NEW a, NEW b PROVE Cardinality({a, b}) <= 2
      OBVIOUS
    <3>1. IsFiniteSet({a}) /\ Cardinality({a}) = 1
      BY FS_Singleton
    <3>2. {a, b} = {a} \cup {b}
      OBVIOUS
    <3>3. Cardinality({a} \cup {b}) = IF b \in {a} THEN Cardinality({a}) ELSE Cardinality({a}) + 1
      BY <3>1, FS_AddElement
    <3> QED
      BY <3>1, <3>2, <3>3
  <2>3. Cardinality({AlphaWord, AlphaQuiz, Calculator}) = 3
    BY FileProbesAssumption DEF FileProbesAssumption, Stock
  <2>4. AlphaWord = AlphaQuiz => {AlphaWord, AlphaQuiz, Calculator} = {AlphaWord, Calculator}
    OBVIOUS
  <2>5. AlphaWord = Calculator => {AlphaWord, AlphaQuiz, Calculator} = {AlphaWord, AlphaQuiz}
    OBVIOUS
  <2>6. AlphaQuiz = Calculator => {AlphaWord, AlphaQuiz, Calculator} = {AlphaWord, AlphaQuiz}
    OBVIOUS
  <2>7. \A a, b : Cardinality({a, b}) # 3
    BY <2>2
  <2>8. AlphaWord # AlphaQuiz
    BY <2>3, <2>4, <2>7, Zenon
  <2>9. AlphaWord # Calculator
    BY <2>3, <2>5, <2>7, Zenon
  <2>10. AlphaQuiz # Calculator
    BY <2>3, <2>6, <2>7, Zenon
  <2> QED
    BY <2>8, <2>9, <2>10
<1> QED
  BY <1>1, FileProbesAssumption DEF FileProbesAssumption, Stock, Folders

\* With the three stock applets there.
LEMMA AllThere ==
  ASSUME installed = Stock
  PROVE  /\ Runtime = Slots /\ Selectable = WithFiles \cup {AlphaWord}
         /\ AlphaWord \in Selectable /\ AlphaQuiz \in Selectable
         /\ Calculator \notin Selectable /\ 0 \notin Selectable /\ Selectable \subseteq Slots
         /\ Calculator \in Slots /\ Selectable \subseteq Accepted
         /\ folderQuirk \notin {"any_namespace", "any_slot"} => Accepted = Selectable
         /\ folderQuirk = "any_namespace" => Accepted = Slots
         /\ folderQuirk = "any_slot" => Accepted = Selectable \cup Empty
<1>1. /\ Runtime = Slots /\ Selectable = WithFiles \cup {AlphaWord}
      /\ AlphaWord \in Selectable /\ AlphaQuiz \in Selectable
      /\ Calculator \notin Selectable /\ 0 \notin Selectable /\ Selectable \subseteq Slots
      /\ Calculator \in Slots
  BY Indices, FileProbesAssumption DEF FileProbesAssumption, Runtime, Selectable, Stock
<1>2. Stock \ installed = {}
  OBVIOUS
<1> QED
  BY <1>1, <1>2 DEF Accepted

\* The indices that are accepted, but by a firmware that takes any namespace.
LEMMA AcceptedIndices ==
  ASSUME installed = Stock, folderQuirk # "any_namespace"
  PROVE  /\ Accepted \subseteq Slots \cup Empty
         /\ Calculator \notin Accepted /\ OutOfRange \notin Accepted /\ 0 \notin Accepted
<1>1. Accepted \subseteq Selectable \cup Empty
  BY AllThere
<1>2. Calculator \in Slots /\ 0 \in Slots /\ Slots \cap Empty = {} /\ OutOfRange \notin Slots \cup Empty
  BY AllThere, FileProbesAssumption DEF FileProbesAssumption
<1> QED
  BY <1>1, <1>2, AllThere

LEMMA SetFolderTyped ==
  ASSUME NEW s \in Api, NEW i \in Folders
  PROVE  /\ FileSetFolder(s, i) \in Api
         /\ FileSetFolder(s, i).result >= 0 => FileSetFolder(s, i).result \in Folders
<1> DEFINE index == IF folderQuirk = "any_index" /\ i \notin Slots \cup Empty THEN 0 ELSE i
           status == IF index \in Accepted THEN 0
                     ELSE IF index \in Runtime THEN NO_FILE_NAMESPACE ELSE INVALID_APPLET
<1>1. index \in Folders /\ status \in Int
  BY Indices DEF INVALID_APPLET, NO_FILE_NAMESPACE
<1>2. FileSetFolder(s, i) =
        IF status < 0
        THEN [folder |-> IF folderQuirk = "moves_on_error" THEN i ELSE s.folder,
              flags  |-> IF folderQuirk = "keeps_flags_on_error" THEN s.flags ELSE "zero",
              result |-> status]
        ELSE [folder |-> IF folderQuirk = "does_not_move" THEN s.folder ELSE index,
              flags  |-> IF folderQuirk = "no_flags_on_success" THEN s.flags ELSE HeaderFlags(index),
              result |-> IF folderQuirk = "returns_no_folder" THEN 0 ELSE s.folder]
  BY DEF FileSetFolder
<1>3. s.folder \in Folders /\ s.flags \in Flags /\ "zero" \in Flags
  BY DEF Api, Flags
<1>4. HeaderFlags(index) \in Flags
  BY DEF Flags, HeaderFlags
<1>5. Folders \subseteq Int /\ 0 \in Folders
  BY Indices
<1> HIDE DEF index, status
<1>6. CASE status < 0
  <2> DEFINE fo == IF folderQuirk = "moves_on_error" THEN i ELSE s.folder
             fl == IF folderQuirk = "keeps_flags_on_error" THEN s.flags ELSE "zero"
  <2>1. fo \in Folders /\ fl \in Flags
    BY <1>3
  <2>2. FileSetFolder(s, i) = [folder |-> fo, flags |-> fl, result |-> status]
    BY <1>2, <1>6
  <2> HIDE DEF fo, fl
  <2> QED
    BY <1>1, <1>6, <2>1, <2>2 DEF Api
<1>7. CASE ~(status < 0)
  <2> DEFINE fo == IF folderQuirk = "does_not_move" THEN s.folder ELSE index
             fl == IF folderQuirk = "no_flags_on_success" THEN s.flags ELSE HeaderFlags(index)
             re == IF folderQuirk = "returns_no_folder" THEN 0 ELSE s.folder
  <2>1. fo \in Folders /\ fl \in Flags /\ re \in Folders
    BY <1>1, <1>3, <1>4, <1>5
  <2>2. FileSetFolder(s, i) = [folder |-> fo, flags |-> fl, result |-> re]
    BY <1>2, <1>7
  <2> HIDE DEF fo, fl, re
  <2> QED
    BY <1>5, <2>1, <2>2 DEF Api
<1> QED
  BY <1>6, <1>7

\* A call that is accepted, on a firmware with all three applets.
LEMMA Selects ==
  ASSUME installed = Stock, NEW s \in Api, NEW i \in Accepted
  PROVE  FileSetFolder(s, i) =
           [folder |-> IF folderQuirk = "does_not_move" THEN s.folder ELSE i,
            flags  |-> IF folderQuirk = "no_flags_on_success" THEN s.flags ELSE HeaderFlags(i),
            result |-> IF folderQuirk = "returns_no_folder" THEN 0 ELSE s.folder]
<1>1. i \in Slots \cup Empty
  BY AllThere, AcceptedIndices
<1> QED
  BY <1>1 DEF FileSetFolder

\* A call that is refused.
LEMMA Refuses ==
  ASSUME installed = Stock, NEW s \in Api, NEW i \in Folders, i \notin Accepted, folderQuirk # "any_index"
  PROVE  FileSetFolder(s, i) =
           [folder |-> IF folderQuirk = "moves_on_error" THEN i ELSE s.folder,
            flags  |-> IF folderQuirk = "keeps_flags_on_error" THEN s.flags ELSE "zero",
            result |-> IF i \in Slots THEN NO_FILE_NAMESPACE ELSE INVALID_APPLET]
BY AllThere DEF FileSetFolder, NO_FILE_NAMESPACE, INVALID_APPLET

-----------------------------------------------------------------------------
(* Counting the checks.                                                    *)

LEMMA CheckCounts ==
  ASSUME NEW r \in Res, NEW c \in BOOLEAN
  PROVE  /\ check(r, c) \in Res
         /\ check(r, c).checks = r.checks + 1
         /\ check(r, c).failures = IF c THEN r.failures ELSE r.failures + 1
<1> DEFINE f == IF c THEN r.failures ELSE r.failures + 1
<1>1. check(r, c) = [r EXCEPT !.checks = r.checks + 1, !.failures = f]
  <2>1. CASE c
    BY <2>1 DEF check
  <2>2. CASE ~c
    BY <2>2 DEF check
  <2> QED
    BY <2>1, <2>2
<1>2. f \in Nat
  BY DEF Res
<1> HIDE DEF f
<1> DEFINE n == r.checks + 1
           j == [r EXCEPT !.checks = n]
           k == [j EXCEPT !.failures = f]
<1>3. k \in Res /\ k.checks = n /\ k.failures = f
  <2>1. n \in Nat
    BY DEF Res
  <2> HIDE DEF n
  <2>2. j \in Res /\ j.checks = n
    BY <2>1 DEF Res
  <2> HIDE DEF j
  <2> QED
    BY <1>2, <2>2 DEF Res
<1>4. check(r, c) \in Res /\ check(r, c).checks = n /\ check(r, c).failures = f
  BY <1>1, <1>3
<1> QED
  BY <1>4, Zenon DEF f

\* No more failures than checks, and no failure is taken back.
Counts(r, x, most) ==
  /\ x.checks <= r.checks /\ r.checks <= x.checks + most
  /\ x.failures <= r.failures /\ r.failures - x.failures <= r.checks - x.checks

NamespacePasses(x, index, bit) ==
  LET set  == FileSetFolder(With(x.api, Sentinel), index)
      back == FileSetFolder(set, set.result)
  IN  set.result >= 0 /\ (set.flags = "0x40" <=> bit) /\ back.result = index

LEMMA NamespaceGood ==
  ASSUME NEW x \in Case, NEW index \in {AlphaWord, AlphaQuiz}, NEW bit \in BOOLEAN
  PROVE  LET y == NamespaceCase(x, index, bit)
         IN  /\ y.api \in Api /\ y.res \in Res /\ y.result \in Int /\ y.flags \in Flags
             /\ Counts(y.res, x.res, 3)
             /\ y.res.failures = x.res.failures <=> NamespacePasses(x, index, bit)
             /\ NamespacePasses(x, index, bit) =>
                  LET set == FileSetFolder(With(x.api, Sentinel), index)
                  IN  y.api = FileSetFolder(set, set.result)
<1> DEFINE set  == FileSetFolder(With(x.api, Sentinel), index)
           back == FileSetFolder(set, set.result)
           c1 == set.result >= 0
           c2 == ((set.flags = "0x40") = bit)
           c3 == back.result = index
           ra == check(x.res, c1)
           rb == check(ra, c2)
           rc == check(rb, c3)
<1>1. With(x.api, Sentinel) \in Api
  BY DEF With, Sentinel, Case, Api, Flags
<1>2. set \in Api
  BY <1>1, Indices, SetFolderTyped
<1>3. c1 => set.result \in Folders
  BY <1>1, Indices, SetFolderTyped
<1>4. c1 => back \in Api
  BY <1>2, <1>3, SetFolderTyped
<1>5. c1 \in BOOLEAN /\ c2 \in BOOLEAN /\ c3 \in BOOLEAN /\ x.res \in Res
  BY DEF Case
<1>6. NamespacePasses(x, index, bit) <=> c1 /\ c2 /\ c3
  BY DEF NamespacePasses
<1>7. NamespaceCase(x, index, bit) =
        IF set.result < 0 THEN [api |-> set, res |-> rb, result |-> set.result, flags |-> set.flags]
        ELSE [api |-> back, res |-> rc, result |-> set.result, flags |-> set.flags]
  BY DEF NamespaceCase
<1>8. (set.result < 0 <=> ~c1) /\ set.result \in Int /\ set.flags \in Flags
  BY <1>2 DEF Api
<1> HIDE DEF set, back, c1, c2, c3
<1>9. ra \in Res /\ ra.checks = x.res.checks + 1
      /\ ra.failures = IF c1 THEN x.res.failures ELSE x.res.failures + 1
  BY <1>5, CheckCounts
<1> HIDE DEF ra
<1>10. rb \in Res /\ rb.checks = ra.checks + 1
       /\ rb.failures = IF c2 THEN ra.failures ELSE ra.failures + 1
  BY <1>5, <1>9, CheckCounts
<1> HIDE DEF rb
<1>11. rc \in Res /\ rc.checks = rb.checks + 1
       /\ rc.failures = IF c3 THEN rb.failures ELSE rb.failures + 1
  BY <1>5, <1>10, CheckCounts
<1> HIDE DEF rc
<1>12. x.res.checks \in Nat /\ x.res.failures \in Nat
  BY <1>5 DEF Res
<1>13. CASE c1
  <2>1. NamespaceCase(x, index, bit) = [api |-> back, res |-> rc, result |-> set.result, flags |-> set.flags]
    BY <1>7, <1>8, <1>13
  <2>2. Counts(rc, x.res, 3)
    BY <1>9, <1>10, <1>11, <1>12 DEF Counts
  <2>3. rc.failures = x.res.failures <=> c2 /\ c3
    BY <1>9, <1>10, <1>11, <1>12, <1>13
  <2> QED
    BY <1>4, <1>6, <1>8, <1>11, <1>13, <2>1, <2>2, <2>3 DEF back, set
<1>14. CASE ~c1
  <2>1. NamespaceCase(x, index, bit) = [api |-> set, res |-> rb, result |-> set.result, flags |-> set.flags]
    BY <1>7, <1>8, <1>14
  <2>2. Counts(rb, x.res, 3)
    BY <1>9, <1>10, <1>12 DEF Counts
  <2>3. rb.failures # x.res.failures
    BY <1>9, <1>10, <1>12, <1>14
  <2> QED
    BY <1>2, <1>6, <1>8, <1>10, <1>14, <2>1, <2>2, <2>3
<1> QED
  BY <1>13, <1>14

RefusedPasses(x, index, status) ==
  LET anchor  == FileSetFolder(x.api, AlphaQuiz)
      refused == FileSetFolder(With(anchor, Sentinel), index)
      back    == FileSetFolder(refused, anchor.result)
  IN  anchor.result >= 0 /\ refused.result = status /\ refused.flags = "zero" /\ back.result = AlphaQuiz

LEMMA RefusedGood ==
  ASSUME NEW x \in Case, NEW index \in Folders, NEW status \in Int
  PROVE  LET y == RefusedCase(x, index, status)
         IN  /\ y.api \in Api /\ y.res \in Res /\ y.result \in Int /\ y.flags \in Flags
             /\ Counts(y.res, x.res, 4)
             /\ y.res.failures = x.res.failures <=> RefusedPasses(x, index, status)
             /\ RefusedPasses(x, index, status) =>
                  LET anchor  == FileSetFolder(x.api, AlphaQuiz)
                      refused == FileSetFolder(With(anchor, Sentinel), index)
                  IN  y.api = FileSetFolder(refused, anchor.result)
<1> DEFINE anchor  == FileSetFolder(x.api, AlphaQuiz)
           refused == FileSetFolder(With(anchor, Sentinel), index)
           back    == FileSetFolder(refused, anchor.result)
           c1 == anchor.result >= 0
           c2 == refused.result = status
           c3 == refused.flags = "zero"
           c4 == back.result = AlphaQuiz
           ra == check(x.res, c1)
           rb == check(ra, c2)
           rc == check(rb, c3)
           rd == check(rc, c4)
<1>1. anchor \in Api /\ (c1 => anchor.result \in Folders)
  BY Indices, SetFolderTyped DEF Case
<1>2. With(anchor, Sentinel) \in Api
  BY <1>1 DEF With, Sentinel, Api, Flags
<1>3. refused \in Api
  BY <1>2, SetFolderTyped
<1>4. c1 => back \in Api
  BY <1>1, <1>3, SetFolderTyped
<1>5. c1 \in BOOLEAN /\ c2 \in BOOLEAN /\ c3 \in BOOLEAN /\ c4 \in BOOLEAN /\ x.res \in Res
  BY DEF Case
<1>6. RefusedPasses(x, index, status) <=> c1 /\ c2 /\ c3 /\ c4
  BY DEF RefusedPasses
<1>7. RefusedCase(x, index, status) =
        IF anchor.result < 0 THEN [api |-> anchor, res |-> ra, result |-> Unset, flags |-> "zero"]
        ELSE [api |-> back, res |-> rd, result |-> refused.result, flags |-> refused.flags]
  BY DEF RefusedCase
<1>8. /\ anchor.result < 0 <=> ~c1
      /\ refused.result \in Int /\ refused.flags \in Flags /\ Unset \in Int /\ "zero" \in Flags
  BY <1>1, <1>3 DEF Api, Unset, Flags
<1> HIDE DEF anchor, refused, back, c1, c2, c3, c4
<1>9. ra \in Res /\ ra.checks = x.res.checks + 1
      /\ ra.failures = IF c1 THEN x.res.failures ELSE x.res.failures + 1
  BY <1>5, CheckCounts
<1> HIDE DEF ra
<1>10. rb \in Res /\ rb.checks = ra.checks + 1
       /\ rb.failures = IF c2 THEN ra.failures ELSE ra.failures + 1
  BY <1>5, <1>9, CheckCounts
<1> HIDE DEF rb
<1>11. rc \in Res /\ rc.checks = rb.checks + 1
       /\ rc.failures = IF c3 THEN rb.failures ELSE rb.failures + 1
  BY <1>5, <1>10, CheckCounts
<1> HIDE DEF rc
<1>12. rd \in Res /\ rd.checks = rc.checks + 1
       /\ rd.failures = IF c4 THEN rc.failures ELSE rc.failures + 1
  BY <1>5, <1>11, CheckCounts
<1> HIDE DEF rd
<1>13. x.res.checks \in Nat /\ x.res.failures \in Nat
  BY <1>5 DEF Res
<1>14. CASE c1
  <2>1. RefusedCase(x, index, status) =
          [api |-> back, res |-> rd, result |-> refused.result, flags |-> refused.flags]
    BY <1>7, <1>8, <1>14
  <2>2. Counts(rd, x.res, 4)
    BY <1>9, <1>10, <1>11, <1>12, <1>13 DEF Counts
  <2>3. rd.failures = x.res.failures <=> c2 /\ c3 /\ c4
    BY <1>9, <1>10, <1>11, <1>12, <1>13, <1>14
  <2> QED
    BY <1>4, <1>6, <1>8, <1>12, <1>14, <2>1, <2>2, <2>3 DEF back, refused, anchor
<1>15. CASE ~c1
  <2>1. RefusedCase(x, index, status) = [api |-> anchor, res |-> ra, result |-> Unset, flags |-> "zero"]
    BY <1>7, <1>8, <1>15
  <2>2. Counts(ra, x.res, 4)
    BY <1>9, <1>13 DEF Counts
  <2>3. ra.failures # x.res.failures
    BY <1>9, <1>13, <1>15
  <2> QED
    BY <1>1, <1>6, <1>8, <1>9, <1>15, <2>1, <2>2, <2>3
<1> QED
  BY <1>14, <1>15

-----------------------------------------------------------------------------
(* Which case passes on which firmware.                                    *)

LEMMA WithTyped ==
  ASSUME NEW s \in Api
  PROVE  With(s, Sentinel) \in Api /\ With(s, Sentinel).folder = s.folder /\ With(s, Sentinel).flags = "0x40"
BY DEF With, Sentinel, Api, Flags

\* From a folder that can be selected again, the contract is kept and the folder restored.
LEMMA NamespaceKept ==
  ASSUME installed = Stock, folderQuirk \in {"none", "any_slot"}, NEW x \in Case, x.api.folder \in Accepted,
         NEW index \in {AlphaWord, AlphaQuiz}
  PROVE  /\ NamespacePasses(x, index, index = AlphaWord)
         /\ LET set == FileSetFolder(With(x.api, Sentinel), index)
            IN  FileSetFolder(set, set.result).folder = x.api.folder
<1> DEFINE w    == With(x.api, Sentinel)
           set  == FileSetFolder(w, index)
           back == FileSetFolder(set, set.result)
           f    == x.api.folder
<1>1. w \in Api /\ w.folder = f
  BY WithTyped DEF Case
<1>2. index \in Accepted /\ index \in Folders /\ f \in Nat
  BY AllThere, Indices DEF Case, Api
<1> HIDE DEF w, f
<1>3. set = [folder |-> index, flags |-> HeaderFlags(index), result |-> f] /\ set \in Api
  BY <1>1, <1>2, Selects, SetFolderTyped
<1>4. set.result = f /\ set.folder = index /\ set.flags = HeaderFlags(index)
  BY <1>3
<1> HIDE DEF set
<1>5. f \in Accepted
  BY DEF f
<1>6. back = [folder |-> f, flags |-> HeaderFlags(f), result |-> index]
  BY <1>3, <1>4, <1>5, Selects
<1>7. back.result = index /\ back.folder = f
  BY <1>6
<1>8. set.flags = "0x40" <=> index = AlphaWord
  BY <1>4, Indices DEF HeaderFlags
<1>9. set.result >= 0
  BY <1>2, <1>4
<1> HIDE DEF back
<1> QED
  BY <1>7, <1>8, <1>9 DEF NamespacePasses, back, set, w, f

LEMMA RefusedKept ==
  ASSUME installed = Stock, folderQuirk \in {"none", "any_slot"}, NEW x \in Case, x.api.folder \in Accepted,
         NEW index \in Folders, index \notin Accepted
  PROVE  /\ RefusedPasses(x, index, IF index \in Slots THEN NO_FILE_NAMESPACE ELSE INVALID_APPLET)
         /\ LET anchor  == FileSetFolder(x.api, AlphaQuiz)
                refused == FileSetFolder(With(anchor, Sentinel), index)
            IN  FileSetFolder(refused, anchor.result).folder = x.api.folder
<1> DEFINE anchor  == FileSetFolder(x.api, AlphaQuiz)
           w       == With(anchor, Sentinel)
           refused == FileSetFolder(w, index)
           back    == FileSetFolder(refused, anchor.result)
           f       == x.api.folder
           status  == IF index \in Slots THEN NO_FILE_NAMESPACE ELSE INVALID_APPLET
<1>1. x.api \in Api /\ AlphaQuiz \in Accepted /\ AlphaQuiz \in Folders /\ f \in Nat
  BY AllThere, Indices DEF Case, Api
<1>2. anchor = [folder |-> AlphaQuiz, flags |-> HeaderFlags(AlphaQuiz), result |-> f] /\ anchor \in Api
  BY <1>1, Selects, SetFolderTyped
<1>3. anchor.result = f /\ anchor.folder = AlphaQuiz
  BY <1>2
<1>4. f \in Accepted
  OBVIOUS
<1> HIDE DEF anchor, f
<1>5. w \in Api /\ w.folder = AlphaQuiz
  BY <1>2, <1>3, WithTyped
<1> HIDE DEF w
<1>6. refused = [folder |-> AlphaQuiz, flags |-> "zero", result |-> status] /\ refused \in Api
  BY <1>5, Refuses, SetFolderTyped
<1>7. refused.result = status /\ refused.flags = "zero" /\ refused.folder = AlphaQuiz
  BY <1>6
<1> HIDE DEF refused, status
<1>8. back = [folder |-> f, flags |-> HeaderFlags(f), result |-> AlphaQuiz]
  BY <1>3, <1>4, <1>6, <1>7, Selects
<1>9. back.result = AlphaQuiz /\ back.folder = f
  BY <1>8
<1>10. anchor.result >= 0
  BY <1>1, <1>3
<1> HIDE DEF back
<1> QED
  BY <1>7, <1>9, <1>10 DEF RefusedPasses, back, refused, w, anchor, f, status

\* From any other folder the first case cannot go back.
LEMMA NotRestored ==
  ASSUME installed = Stock, folderQuirk \in {"none", "any_slot"}, NEW x \in Case, x.api.folder \notin Accepted
  PROVE  ~NamespacePasses(x, AlphaWord, TRUE)
<1> DEFINE w    == With(x.api, Sentinel)
           set  == FileSetFolder(w, AlphaWord)
           f    == x.api.folder
<1>1. w \in Api /\ w.folder = f /\ f \in Folders /\ f \notin Accepted
  BY WithTyped DEF Case, Api
<1>2. AlphaWord \in Accepted /\ AlphaWord \in Folders /\ AlphaWord \in Nat
  BY AllThere, Indices
<1> HIDE DEF w, f
<1>3. set = [folder |-> AlphaWord, flags |-> HeaderFlags(AlphaWord), result |-> f] /\ set \in Api
  BY <1>1, <1>2, Selects, SetFolderTyped
<1>4. set.result = f
  BY <1>3
<1> HIDE DEF set
<1>5. FileSetFolder(set, f).result = IF f \in Slots THEN NO_FILE_NAMESPACE ELSE INVALID_APPLET
  BY <1>1, <1>3, Refuses
<1>6. FileSetFolder(set, f).result # AlphaWord
  BY <1>2, <1>5 DEF NO_FILE_NAMESPACE, INVALID_APPLET
<1> QED
  BY <1>4, <1>6 DEF NamespacePasses, set, w

\* What a call can return: an error, or the folder that was selected, if it says so.
LEMMA Results ==
  ASSUME NEW s \in Api, NEW i \in Folders
  PROVE  \/ FileSetFolder(s, i).result \in {NO_FILE_NAMESPACE, INVALID_APPLET}
         \/ FileSetFolder(s, i).result = IF folderQuirk = "returns_no_folder" THEN 0 ELSE s.folder
BY DEF FileSetFolder, NO_FILE_NAMESPACE, INVALID_APPLET

\* The states between the calls of a case.
LEMMA NamespaceCalls ==
  ASSUME NEW x \in Case, NEW index \in {AlphaWord, AlphaQuiz}, NEW bit \in BOOLEAN,
         NamespacePasses(x, index, bit)
  PROVE  LET set == FileSetFolder(With(x.api, Sentinel), index)
         IN  /\ With(x.api, Sentinel) \in Api /\ set \in Api /\ set.result \in Folders
             /\ index = IF folderQuirk = "returns_no_folder" THEN 0 ELSE set.folder
<1> DEFINE w   == With(x.api, Sentinel)
           set == FileSetFolder(w, index)
<1>1. w \in Api /\ index \in Folders /\ index \in Nat
  BY WithTyped, Indices DEF Case
<1>2. set \in Api /\ set.result >= 0 /\ set.result \in Folders
  BY <1>1, SetFolderTyped DEF NamespacePasses
<1>3. FileSetFolder(set, set.result).result = index
  BY DEF NamespacePasses
<1> HIDE DEF w, set
<1>4. index = IF folderQuirk = "returns_no_folder" THEN 0 ELSE set.folder
  <2>1. \/ index \in {NO_FILE_NAMESPACE, INVALID_APPLET}
        \/ index = IF folderQuirk = "returns_no_folder" THEN 0 ELSE set.folder
    BY <1>2, <1>3, Results, Zenon
  <2> QED
    BY <1>1, <2>1 DEF NO_FILE_NAMESPACE, INVALID_APPLET
<1> QED
  BY <1>1, <1>2, <1>4 DEF set, w

LEMMA RefusedCalls ==
  ASSUME NEW x \in Case, NEW index \in Folders, NEW status \in Int, RefusedPasses(x, index, status)
  PROVE  LET anchor  == FileSetFolder(x.api, AlphaQuiz)
             refused == FileSetFolder(With(anchor, Sentinel), index)
         IN  /\ With(anchor, Sentinel) \in Api /\ refused \in Api
             /\ With(anchor, Sentinel).flags = "0x40"
             /\ AlphaQuiz = IF folderQuirk = "returns_no_folder" THEN 0 ELSE refused.folder
<1> DEFINE anchor  == FileSetFolder(x.api, AlphaQuiz)
           w       == With(anchor, Sentinel)
           refused == FileSetFolder(w, index)
<1>1. AlphaQuiz \in Folders /\ AlphaQuiz \in Nat
  BY Indices
<1>2. anchor \in Api /\ anchor.result \in Folders
  BY <1>1, SetFolderTyped DEF RefusedPasses, Case
<1>3. w \in Api /\ w.flags = "0x40"
  BY <1>2, WithTyped
<1>4. refused \in Api
  BY <1>3, SetFolderTyped
<1>5. FileSetFolder(refused, anchor.result).result = AlphaQuiz
  BY DEF RefusedPasses
<1> HIDE DEF anchor, w, refused
<1>6. AlphaQuiz = IF folderQuirk = "returns_no_folder" THEN 0 ELSE refused.folder
  <2>1. \/ AlphaQuiz \in {NO_FILE_NAMESPACE, INVALID_APPLET}
        \/ AlphaQuiz = IF folderQuirk = "returns_no_folder" THEN 0 ELSE refused.folder
    BY <1>2, <1>4, <1>5, Results, Zenon
  <2> QED
    BY <1>1, <2>1 DEF NO_FILE_NAMESPACE, INVALID_APPLET
<1> QED
  BY <1>3, <1>4, <1>6 DEF refused, w, anchor

\* A firmware that gives no flags, or no folder, back is caught by the first two cases.
LEMMA NoFlagsCaught ==
  ASSUME installed = Stock, folderQuirk = "no_flags_on_success", NEW x \in Case
  PROVE  ~NamespacePasses(x, AlphaQuiz, FALSE)
<1> DEFINE w == With(x.api, Sentinel)
<1>1. w \in Api /\ w.flags = "0x40" /\ AlphaQuiz \in Accepted
  BY WithTyped, AllThere DEF Case
<1> HIDE DEF w
<1>2. FileSetFolder(w, AlphaQuiz).flags = "0x40"
  BY <1>1, Selects
<1> QED
  BY <1>2 DEF NamespacePasses, w

LEMMA NoFolderCaught ==
  ASSUME folderQuirk = "returns_no_folder", NEW x \in Case
  PROVE  ~NamespacePasses(x, AlphaWord, TRUE)
BY NamespaceCalls, Indices

\* One that does not move cannot be in two folders at once.
LEMMA NoMoveCaught ==
  ASSUME installed = Stock, folderQuirk = "does_not_move", NEW x \in Case, NamespacePasses(x, AlphaWord, TRUE),
         NEW y \in Case, NamespacePasses(y, AlphaQuiz, FALSE),
         LET set == FileSetFolder(With(x.api, Sentinel), AlphaWord)
         IN  y.api = FileSetFolder(set, set.result)
  PROVE  FALSE
<1>1. \A s \in Api, i \in Folders : FileSetFolder(s, i).folder = s.folder
  BY DEF FileSetFolder
<1>2. \A z \in Case : z.api \in Api /\ With(z.api, Sentinel) \in Api /\ With(z.api, Sentinel).folder = z.api.folder
  BY WithTyped DEF Case
<1> DEFINE wx == With(x.api, Sentinel)
           sx == FileSetFolder(wx, AlphaWord)
           wy == With(y.api, Sentinel)
           sy == FileSetFolder(wy, AlphaQuiz)
<1>3. wx \in Api /\ sx \in Api /\ sx.result \in Folders /\ sx.folder = AlphaWord
  BY NamespaceCalls
<1>4. wy \in Api /\ sy \in Api /\ sy.folder = AlphaQuiz
  BY NamespaceCalls
<1>5. y.api = FileSetFolder(sx, sx.result)
  OBVIOUS
<1>6. wy.folder = y.api.folder /\ sy.folder = wy.folder
  BY <1>1, <1>2, <1>4, Indices
<1> HIDE DEF wx, sx, wy, sy
<1>7. y.api.folder = AlphaWord
  BY <1>1, <1>3, <1>5
<1> QED
  BY <1>4, <1>6, <1>7, Indices

\* The others are caught by a call that must be refused.
LEMMA MovesCaught ==
  ASSUME installed = Stock, folderQuirk = "moves_on_error", NEW x \in Case
  PROVE  ~RefusedPasses(x, Calculator, NO_FILE_NAMESPACE)
<1> SUFFICES ASSUME RefusedPasses(x, Calculator, NO_FILE_NAMESPACE) PROVE FALSE
  OBVIOUS
<1> DEFINE w       == With(FileSetFolder(x.api, AlphaQuiz), Sentinel)
           refused == FileSetFolder(w, Calculator)
<1>1. Calculator \in Folders /\ Calculator \notin Accepted
  BY Indices, AcceptedIndices
<1>2. w \in Api /\ AlphaQuiz = refused.folder
  BY <1>1, RefusedCalls DEF NO_FILE_NAMESPACE
<1> HIDE DEF w
<1>3. refused.folder = Calculator
  BY <1>1, <1>2, Refuses
<1> QED
  BY <1>2, <1>3, Indices

LEMMA KeepsFlagsCaught ==
  ASSUME installed = Stock, folderQuirk = "keeps_flags_on_error", NEW x \in Case
  PROVE  ~RefusedPasses(x, Calculator, NO_FILE_NAMESPACE)
<1> SUFFICES ASSUME RefusedPasses(x, Calculator, NO_FILE_NAMESPACE) PROVE FALSE
  OBVIOUS
<1> DEFINE w       == With(FileSetFolder(x.api, AlphaQuiz), Sentinel)
           refused == FileSetFolder(w, Calculator)
<1>1. Calculator \in Folders /\ Calculator \notin Accepted
  BY Indices, AcceptedIndices
<1>2. w \in Api /\ w.flags = "0x40"
  BY <1>1, RefusedCalls DEF NO_FILE_NAMESPACE
<1>3. refused.flags = "zero"
  BY DEF RefusedPasses
<1> HIDE DEF w
<1>4. refused.flags = "0x40"
  BY <1>1, <1>2, Refuses
<1> QED
  BY <1>3, <1>4

LEMMA AnyNamespaceCaught ==
  ASSUME installed = Stock, folderQuirk = "any_namespace", NEW x \in Case
  PROVE  ~RefusedPasses(x, Calculator, NO_FILE_NAMESPACE)
<1> SUFFICES ASSUME RefusedPasses(x, Calculator, NO_FILE_NAMESPACE) PROVE FALSE
  OBVIOUS
<1> DEFINE w       == With(FileSetFolder(x.api, AlphaQuiz), Sentinel)
           refused == FileSetFolder(w, Calculator)
<1>1. Calculator \in Folders /\ Calculator \in Slots /\ Accepted = Slots
  BY Indices, AllThere
<1>2. w \in Api
  BY <1>1, RefusedCalls DEF NO_FILE_NAMESPACE
<1>3. refused.result = NO_FILE_NAMESPACE
  BY DEF RefusedPasses
<1> HIDE DEF w
<1>4. refused.result = w.folder
  BY <1>1 DEF FileSetFolder
<1>5. w.folder \in Nat
  BY <1>2, Indices DEF Api
<1> QED
  BY <1>3, <1>4, <1>5 DEF NO_FILE_NAMESPACE

LEMMA AnyIndexCaught ==
  ASSUME installed = Stock, folderQuirk = "any_index", NEW x \in Case
  PROVE  ~RefusedPasses(x, OutOfRange, INVALID_APPLET)
<1> SUFFICES ASSUME RefusedPasses(x, OutOfRange, INVALID_APPLET) PROVE FALSE
  OBVIOUS
<1> DEFINE w       == With(FileSetFolder(x.api, AlphaQuiz), Sentinel)
           refused == FileSetFolder(w, OutOfRange)
<1>1. OutOfRange \notin Slots \cup Empty /\ 0 \in Slots /\ Runtime = Slots /\ 0 \notin Accepted
  BY Indices, AllThere, AcceptedIndices, FileProbesAssumption DEF FileProbesAssumption
<1>2. refused.result = INVALID_APPLET
  BY DEF RefusedPasses
<1> HIDE DEF w
<1>3. refused.result = NO_FILE_NAMESPACE
  BY <1>1 DEF FileSetFolder, NO_FILE_NAMESPACE, INVALID_APPLET
<1> QED
  BY <1>2, <1>3 DEF NO_FILE_NAMESPACE, INVALID_APPLET

-----------------------------------------------------------------------------
(* A run of the FileSetFolder probe.                                       *)

\* Noting what a call returned changes no count.
LEMMA Noted ==
  ASSUME NEW r \in Res, NEW v \in Int, NEW f \in Flags
  PROVE  /\ LET n == [r EXCEPT !.alphaWord = v, !.alphaWordFlags = f]
            IN  n \in Res /\ n.checks = r.checks /\ n.failures = r.failures
         /\ LET n == [r EXCEPT !.noFiles = v, !.noFilesFlags = f]
            IN  n \in Res /\ n.checks = r.checks /\ n.failures = r.failures
         /\ LET n == [r EXCEPT !.invalid = v, !.invalidFlags = f]
            IN  n \in Res /\ n.checks = r.checks /\ n.failures = r.failures
<1>1. LET n == [r EXCEPT !.alphaWord = v, !.alphaWordFlags = f]
      IN  n \in Res /\ n.checks = r.checks /\ n.failures = r.failures
  BY DEF Res
<1>2. LET n == [r EXCEPT !.noFiles = v, !.noFilesFlags = f]
      IN  n \in Res /\ n.checks = r.checks /\ n.failures = r.failures
  BY DEF Res
<1>3. LET n == [r EXCEPT !.invalid = v, !.invalidFlags = f]
      IN  n \in Res /\ n.checks = r.checks /\ n.failures = r.failures
  BY DEF Res
<1> QED
  BY <1>1, <1>2, <1>3

\* When a case passes, and the state of the API behind it.
WordPasses(x)    == NamespacePasses(x, AlphaWord, TRUE)
QuizPasses(x)    == NamespacePasses(x, AlphaQuiz, FALSE)
NoFilesPasses(x) == RefusedPasses(x, Calculator, NO_FILE_NAMESPACE)
InvalidPasses(x) == RefusedPasses(x, OutOfRange, INVALID_APPLET)

NamespaceBack(x, index) ==
  LET set == FileSetFolder(With(x.api, Sentinel), index)
  IN  FileSetFolder(set, set.result)
RefusedBack(x, index) ==
  LET anchor  == FileSetFolder(x.api, AlphaQuiz)
      refused == FileSetFolder(With(anchor, Sentinel), index)
  IN  FileSetFolder(refused, anchor.result)

LEMMA AlphaWordGood ==
  ASSUME NEW x \in Case
  PROVE  LET z == run_alpha_word_case(x)
         IN  /\ z \in Case /\ Counts(z.res, x.res, 3)
             /\ z.res.failures = x.res.failures <=> WordPasses(x)
             /\ WordPasses(x) => z.api = NamespaceBack(x, AlphaWord)
<1> DEFINE y == NamespaceCase(x, AlphaWord, TRUE)
           n == [y.res EXCEPT !.alphaWord = y.result, !.alphaWordFlags = y.flags]
<1>1. /\ y.api \in Api /\ y.res \in Res /\ y.result \in Int /\ y.flags \in Flags
      /\ Counts(y.res, x.res, 3) /\ (y.res.failures = x.res.failures <=> WordPasses(x))
      /\ WordPasses(x) => y.api = NamespaceBack(x, AlphaWord)
  BY NamespaceGood DEF WordPasses, NamespaceBack
<1>2. run_alpha_word_case(x) = [api |-> y.api, res |-> n]
  BY DEF run_alpha_word_case
<1> HIDE DEF y
<1>3. n \in Res /\ n.checks = y.res.checks /\ n.failures = y.res.failures
  BY <1>1, Noted
<1> HIDE DEF n
<1>4. [api |-> y.api, res |-> n] \in Case
  BY <1>1, <1>3 DEF Case
<1>5. Counts(n, x.res, 3)
  BY <1>1, <1>3 DEF Counts
<1> QED
  BY <1>1, <1>2, <1>3, <1>4, <1>5

LEMMA AlphaQuizGood ==
  ASSUME NEW x \in Case
  PROVE  LET z == run_alpha_quiz_case(x)
         IN  /\ z \in Case /\ Counts(z.res, x.res, 3)
             /\ z.res.failures = x.res.failures <=> QuizPasses(x)
             /\ QuizPasses(x) => z.api = NamespaceBack(x, AlphaQuiz)
<1> DEFINE y == NamespaceCase(x, AlphaQuiz, FALSE)
<1>1. /\ y.api \in Api /\ y.res \in Res /\ y.result \in Int /\ y.flags \in Flags
      /\ Counts(y.res, x.res, 3) /\ (y.res.failures = x.res.failures <=> QuizPasses(x))
      /\ QuizPasses(x) => y.api = NamespaceBack(x, AlphaQuiz)
  BY NamespaceGood DEF QuizPasses, NamespaceBack
<1>2. run_alpha_quiz_case(x) = [api |-> y.api, res |-> y.res]
  BY DEF run_alpha_quiz_case
<1> HIDE DEF y
<1>3. [api |-> y.api, res |-> y.res] \in Case
  BY <1>1 DEF Case
<1> QED
  BY <1>1, <1>2, <1>3

LEMMA NoFilesGood ==
  ASSUME NEW x \in Case
  PROVE  LET z == run_no_file_namespace_case(x)
         IN  /\ z \in Case /\ Counts(z.res, x.res, 4)
             /\ z.res.failures = x.res.failures <=> NoFilesPasses(x)
             /\ NoFilesPasses(x) => z.api = RefusedBack(x, Calculator)
<1> DEFINE y == RefusedCase(x, Calculator, NO_FILE_NAMESPACE)
           n == [y.res EXCEPT !.noFiles = y.result, !.noFilesFlags = y.flags]
<1>1. Calculator \in Folders /\ NO_FILE_NAMESPACE \in Int
  BY Indices DEF NO_FILE_NAMESPACE
<1>2. /\ y.api \in Api /\ y.res \in Res /\ y.result \in Int /\ y.flags \in Flags
      /\ Counts(y.res, x.res, 4) /\ (y.res.failures = x.res.failures <=> NoFilesPasses(x))
      /\ NoFilesPasses(x) => y.api = RefusedBack(x, Calculator)
  BY <1>1, RefusedGood DEF NoFilesPasses, RefusedBack
<1>3. run_no_file_namespace_case(x) = [api |-> y.api, res |-> n]
  BY DEF run_no_file_namespace_case
<1> HIDE DEF y
<1>4. n \in Res /\ n.checks = y.res.checks /\ n.failures = y.res.failures
  BY <1>2, Noted
<1> HIDE DEF n
<1>5. [api |-> y.api, res |-> n] \in Case
  BY <1>2, <1>4 DEF Case
<1>6. Counts(n, x.res, 4)
  BY <1>2, <1>4 DEF Counts
<1> QED
  BY <1>2, <1>3, <1>4, <1>5, <1>6

LEMMA InvalidGood ==
  ASSUME NEW x \in Case
  PROVE  LET z == run_invalid_index_case(x)
         IN  /\ z \in Case /\ Counts(z.res, x.res, 4)
             /\ z.res.failures = x.res.failures <=> InvalidPasses(x)
             /\ InvalidPasses(x) => z.api = RefusedBack(x, OutOfRange)
<1> DEFINE y == RefusedCase(x, OutOfRange, INVALID_APPLET)
           n == [y.res EXCEPT !.invalid = y.result, !.invalidFlags = y.flags]
<1>1. OutOfRange \in Folders /\ INVALID_APPLET \in Int
  BY Indices DEF INVALID_APPLET
<1>2. /\ y.api \in Api /\ y.res \in Res /\ y.result \in Int /\ y.flags \in Flags
      /\ Counts(y.res, x.res, 4) /\ (y.res.failures = x.res.failures <=> InvalidPasses(x))
      /\ InvalidPasses(x) => y.api = RefusedBack(x, OutOfRange)
  BY <1>1, RefusedGood DEF InvalidPasses, RefusedBack
<1>3. run_invalid_index_case(x) = [api |-> y.api, res |-> n]
  BY DEF run_invalid_index_case
<1> HIDE DEF y
<1>4. n \in Res /\ n.checks = y.res.checks /\ n.failures = y.res.failures
  BY <1>2, Noted
<1> HIDE DEF n
<1>5. [api |-> y.api, res |-> n] \in Case
  BY <1>2, <1>4 DEF Case
<1>6. Counts(n, x.res, 4)
  BY <1>2, <1>4 DEF Counts
<1> QED
  BY <1>2, <1>3, <1>4, <1>5, <1>6

\* Four cases in a row count what each of them does.
LEMMA CasesCount ==
  ASSUME NEW x \in Case
  PROVE  LET x1 == run_alpha_word_case(x)
             x2 == run_alpha_quiz_case(x1)
             x3 == run_no_file_namespace_case(x2)
             x4 == run_invalid_index_case(x3)
         IN  /\ {x1, x2, x3, x4} \subseteq Case
             /\ Counts(x4.res, x.res, 14)
             /\ x4.res.failures = x.res.failures <=>
                  WordPasses(x) /\ QuizPasses(x1) /\ NoFilesPasses(x2) /\ InvalidPasses(x3)
<1> DEFINE x1 == run_alpha_word_case(x)
           x2 == run_alpha_quiz_case(x1)
           x3 == run_no_file_namespace_case(x2)
           x4 == run_invalid_index_case(x3)
<1>1. x1 \in Case /\ Counts(x1.res, x.res, 3) /\ (x1.res.failures = x.res.failures <=> WordPasses(x))
  BY AlphaWordGood
<1> HIDE DEF x1
<1>2. x2 \in Case /\ Counts(x2.res, x1.res, 3) /\ (x2.res.failures = x1.res.failures <=> QuizPasses(x1))
  BY <1>1, AlphaQuizGood
<1> HIDE DEF x2
<1>3. x3 \in Case /\ Counts(x3.res, x2.res, 4) /\ (x3.res.failures = x2.res.failures <=> NoFilesPasses(x2))
  BY <1>2, NoFilesGood
<1> HIDE DEF x3
<1>4. x4 \in Case /\ Counts(x4.res, x3.res, 4) /\ (x4.res.failures = x3.res.failures <=> InvalidPasses(x3))
  BY <1>3, InvalidGood
<1> HIDE DEF x4
<1>5. \A y \in Case : y.res.checks \in Nat /\ y.res.failures \in Nat
  BY DEF Case, Res
<1>6. Counts(x4.res, x.res, 14)
  BY <1>1, <1>2, <1>3, <1>4, <1>5 DEF Counts
<1>7. x4.res.failures = x.res.failures <=>
        /\ x1.res.failures = x.res.failures /\ x2.res.failures = x1.res.failures
        /\ x3.res.failures = x2.res.failures /\ x4.res.failures = x3.res.failures
  <2>1. /\ x.res.failures <= x1.res.failures /\ x1.res.failures <= x2.res.failures
        /\ x2.res.failures <= x3.res.failures /\ x3.res.failures <= x4.res.failures
    BY <1>1, <1>2, <1>3, <1>4 DEF Counts
  <2>2. \A k, l, m, n, o \in Nat :
          k <= l /\ l <= m /\ m <= n /\ n <= o => (o = k <=> l = k /\ m = l /\ n = m /\ o = n)
    OBVIOUS
  <2> QED
    BY <1>1, <1>2, <1>3, <1>4, <1>5, <2>1, <2>2
<1>8. x4.res.failures = x.res.failures <=>
        WordPasses(x) /\ QuizPasses(x1) /\ NoFilesPasses(x2) /\ InvalidPasses(x3)
  BY <1>1, <1>2, <1>3, <1>4, <1>7
<1>9. {x1, x2, x3, x4} \subseteq Case
  BY <1>1, <1>2, <1>3, <1>4
<1> QED
  BY <1>6, <1>8, <1>9, Zenon DEF x1, x2, x3, x4

LEMMA ResetTyped ==
  /\ reset_results \in Res /\ reset_results.checks = 0 /\ reset_results.failures = 0
  /\ reset_results.missing = {}
BY DEF reset_results, Res, Flags, Unset, SomeStock

\* The state from which the cases start, when all three stock applets are there.
Start(f) == [api |-> [folder |-> f, flags |-> "zero", result |-> 0],
             res |-> [reset_results EXCEPT !.missing = {}]]

LEMMA StartGood ==
  ASSUME NEW f \in Folders
  PROVE  /\ Start(f) \in Case /\ Start(f).api.folder = f
         /\ Start(f).res.checks = 0 /\ Start(f).res.failures = 0
<1> DEFINE r == [reset_results EXCEPT !.missing = {}]
<1>1. r \in Res /\ r.checks = 0 /\ r.failures = 0
  BY ResetTyped DEF Res, SomeStock
<1> HIDE DEF r
<1>2. [folder |-> f, flags |-> "zero", result |-> 0] \in Api
  BY DEF Api, Flags
<1>3. Start(f) = [api |-> [folder |-> f, flags |-> "zero", result |-> 0], res |-> r]
  BY DEF Start, r
<1> QED
  BY <1>1, <1>2, <1>3 DEF Case

\* The verdict of a run, and what a run without a failure leaves behind.
LEMMA RunVerdict ==
  ASSUME installed = Stock, folderQuirk \in FolderQuirk, NEW f \in Folders
  PROVE  LET x1 == run_alpha_word_case(Start(f))
             x2 == run_alpha_quiz_case(x1)
             x3 == run_no_file_namespace_case(x2)
             x4 == run_invalid_index_case(x3)
         IN  /\ x4 \in Case /\ x4.res.checks <= 14 /\ x4.res.failures <= x4.res.checks
             /\ x4.res.failures = 0 <=> folderQuirk \in {"none", "any_slot"} /\ f \in Accepted
             /\ x4.res.failures = 0 => x4.api.folder = f
<1> DEFINE x  == Start(f)
           x1 == run_alpha_word_case(x)
           x2 == run_alpha_quiz_case(x1)
           x3 == run_no_file_namespace_case(x2)
           x4 == run_invalid_index_case(x3)
<1>1. x \in Case /\ x.api.folder = f /\ x.res.checks = 0 /\ x.res.failures = 0
  BY StartGood
<1>2. /\ {x1, x2, x3, x4} \subseteq Case /\ Counts(x4.res, x.res, 14)
      /\ x4.res.failures = x.res.failures <=>
           WordPasses(x) /\ QuizPasses(x1) /\ NoFilesPasses(x2) /\ InvalidPasses(x3)
  BY <1>1, CasesCount
<1>3. /\ WordPasses(x) => x1.api = NamespaceBack(x, AlphaWord)
      /\ QuizPasses(x1) => x2.api = NamespaceBack(x1, AlphaQuiz)
      /\ NoFilesPasses(x2) => x3.api = RefusedBack(x2, Calculator)
      /\ InvalidPasses(x3) => x4.api = RefusedBack(x3, OutOfRange)
  <2>1. x \in Case /\ x1 \in Case /\ x2 \in Case /\ x3 \in Case
    BY <1>1, <1>2
  <2>2. WordPasses(x) => x1.api = NamespaceBack(x, AlphaWord)
    BY <2>1, AlphaWordGood
  <2>3. QuizPasses(x1) => x2.api = NamespaceBack(x1, AlphaQuiz)
    BY <2>1, AlphaQuizGood
  <2>4. NoFilesPasses(x2) => x3.api = RefusedBack(x2, Calculator)
    BY <2>1, NoFilesGood
  <2>5. InvalidPasses(x3) => x4.api = RefusedBack(x3, OutOfRange)
    BY <2>1, InvalidGood
  <2> QED
    BY <2>2, <2>3, <2>4, <2>5
<1> HIDE DEF x, x1, x2, x3, x4
<1>4. x4 \in Case /\ x4.res.checks <= 14 /\ x4.res.failures <= x4.res.checks
      /\ (x4.res.failures = 0 <=> WordPasses(x) /\ QuizPasses(x1) /\ NoFilesPasses(x2) /\ InvalidPasses(x3))
  BY <1>1, <1>2 DEF Counts, Case, Res
<1>5. ASSUME folderQuirk \in {"none", "any_slot"}, f \in Accepted
      PROVE  /\ WordPasses(x) /\ QuizPasses(x1) /\ NoFilesPasses(x2) /\ InvalidPasses(x3)
             /\ x4.api.folder = f
  <2>1. WordPasses(x) /\ NamespaceBack(x, AlphaWord).folder = f
    <3>1. NamespacePasses(x, AlphaWord, AlphaWord = AlphaWord) /\ NamespaceBack(x, AlphaWord).folder = f
      BY <1>1, <1>5, NamespaceKept DEF NamespaceBack
    <3> QED
      BY <3>1 DEF WordPasses
  <2>2. x1 \in Case /\ x1.api.folder = f
    BY <1>2, <1>3, <2>1
  <2>3. QuizPasses(x1) /\ NamespaceBack(x1, AlphaQuiz).folder = f
    <3>1. NamespacePasses(x1, AlphaQuiz, AlphaQuiz = AlphaWord) /\ NamespaceBack(x1, AlphaQuiz).folder = f
      BY <2>2, <1>5, NamespaceKept DEF NamespaceBack
    <3>2. (AlphaQuiz = AlphaWord) = FALSE
      BY Indices
    <3> QED
      BY <3>1, <3>2 DEF QuizPasses
  <2>4. x2 \in Case /\ x2.api.folder = f
    BY <1>2, <1>3, <2>3
  <2>5. NoFilesPasses(x2) /\ RefusedBack(x2, Calculator).folder = f
    <3>1. Calculator \in Folders /\ Calculator \notin Accepted /\ Calculator \in Slots
      BY <1>5, Indices, AllThere, AcceptedIndices
    <3> QED
      BY <3>1, <2>4, <1>5, RefusedKept DEF RefusedBack, NoFilesPasses
  <2>6. x3 \in Case /\ x3.api.folder = f
    BY <1>2, <1>3, <2>5
  <2>7. InvalidPasses(x3) /\ RefusedBack(x3, OutOfRange).folder = f
    <3>1. OutOfRange \in Folders /\ OutOfRange \notin Accepted /\ OutOfRange \notin Slots
      BY <1>5, Indices, AcceptedIndices
    <3> QED
      BY <3>1, <2>6, <1>5, RefusedKept DEF RefusedBack, InvalidPasses
  <2> QED
    BY <1>3, <2>1, <2>3, <2>5, <2>7
<1>6. ASSUME WordPasses(x), QuizPasses(x1), NoFilesPasses(x2), InvalidPasses(x3)
      PROVE  folderQuirk \in {"none", "any_slot"} /\ f \in Accepted
  <2>1. NamespacePasses(x, AlphaWord, TRUE) /\ NamespacePasses(x1, AlphaQuiz, FALSE)
    BY <1>6, Zenon DEF WordPasses, QuizPasses
  <2>2. RefusedPasses(x2, Calculator, NO_FILE_NAMESPACE) /\ RefusedPasses(x3, OutOfRange, INVALID_APPLET)
    BY <1>6 DEF NoFilesPasses, InvalidPasses
  <2>3. x \in Case /\ x1 \in Case /\ x2 \in Case /\ x3 \in Case
    BY <1>1, <1>2
  <2>4. folderQuirk # "no_flags_on_success"
    BY <2>1, <2>3, NoFlagsCaught, Zenon
  <2>5. folderQuirk # "returns_no_folder"
    BY <2>1, <2>3, NoFolderCaught, Zenon
  <2>6. folderQuirk # "does_not_move"
    <3>1. x1.api = LET set == FileSetFolder(With(x.api, Sentinel), AlphaWord)
                   IN  FileSetFolder(set, set.result)
      BY <1>3, <1>6 DEF NamespaceBack
    <3> QED
      BY <2>1, <2>3, <3>1, NoMoveCaught, Zenon
  <2>7. folderQuirk # "moves_on_error" /\ folderQuirk # "keeps_flags_on_error" /\ folderQuirk # "any_namespace"
    BY <2>2, <2>3, MovesCaught, KeepsFlagsCaught, AnyNamespaceCaught, Zenon
  <2>8. folderQuirk # "any_index"
    BY <2>2, <2>3, AnyIndexCaught, Zenon
  <2>9. folderQuirk \in {"none", "any_slot"}
    BY <2>4, <2>5, <2>6, <2>7, <2>8 DEF FolderQuirk
  <2>10. f \in Accepted
    BY <1>1, <2>1, <2>9, NotRestored, Zenon
  <2> QED
    BY <2>9, <2>10
<1> QED
  BY <1>4, <1>5, <1>6 DEF x, x1, x2, x3, x4

-----------------------------------------------------------------------------
(* A run of the FileGetFileInfo probe.                                     *)

Clip == [size : 0..ClipMax, cursor : 0..ClipMax, bound : BOOLEAN]

\* The mirrors stay bound only on a firmware that ignores the null pointers.
ClipKept(c) == c \in Clip /\ (c.bound => infoQuirk = "keeps_the_mirrors")

LEMMA GetInfo ==
  ASSUME infoQuirk \in InfoQuirk, NEW c \in Clip, NEW bind \in BOOLEAN
  PROVE  LET got == FileGetFileInfo(c, bind)
         IN  /\ got.clip \in Clip /\ got.clip.size = c.size /\ got.clip.cursor = c.cursor
             /\ ~bind /\ (infoQuirk = "unresolved" => ~c.bound) =>
                  (got.clip.bound => infoQuirk = "keeps_the_mirrors")
             /\ infoQuirk = "unresolved" => got.clip = c
<1> DEFINE got == FileGetFileInfo(c, bind)
<1>1. CASE infoQuirk = "unresolved"
  BY <1>1 DEF FileGetFileInfo
<1>2. CASE infoQuirk # "unresolved"
  <2> DEFINE b == bind \/ (c.bound /\ infoQuirk = "keeps_the_mirrors")
  <2>1. got.clip = [c EXCEPT !.bound = b]
    BY <1>2 DEF FileGetFileInfo
  <2>2. b \in BOOLEAN /\ (~bind => (b => infoQuirk = "keeps_the_mirrors"))
    BY DEF Clip
  <2> HIDE DEF b, got
  <2>3. got.clip \in Clip /\ got.clip.size = c.size /\ got.clip.cursor = c.cursor /\ got.clip.bound = b
    BY <2>1, <2>2 DEF Clip
  <2> QED
    BY <1>2, <2>2, <2>3 DEF got
<1> QED
  BY <1>1, <1>2

\* What the call with the four mirrors returns, when it is there at all.
LEMMA InfoOut ==
  ASSUME infoQuirk \in InfoQuirk, infoQuirk # "unresolved", NEW c \in Clip, NEW bind \in BOOLEAN
  PROVE  LET got == FileGetFileInfo(c, bind)
         IN  /\ got.base = IF ~bind /\ infoQuirk = "unbinding_fails" THEN NULL ELSE "storage"
             /\ got.out.storage = IF infoQuirk = "no_storage_mirror" THEN "poison" ELSE "storage"
             /\ got.out.size = IF infoQuirk = "no_size_mirrors" THEN Poison
                               ELSE IF infoQuirk = "size_beyond_capacity" THEN ClipMax + 1 ELSE c.size
             /\ got.out.max = IF infoQuirk = "no_size_mirrors" THEN Poison ELSE ClipMax
             /\ got.out.cursor = c.cursor
BY DEF FileGetFileInfo

LEMMA EightIndices == IsFiniteSet(1..8) /\ Cardinality(1..8) = 8
<1>1. 1 \in Int /\ 8 \in Int /\ ~(1 > 8) /\ 8 - 1 + 1 = 8
  OBVIOUS
<1>2. IsFiniteSet(1..8) /\ Cardinality(1..8) = IF 1 > 8 THEN 0 ELSE 8 - 1 + 1
  BY <1>1, FS_Interval, Zenon
<1> QED
  BY <1>1, <1>2

LEMMA InfoRun ==
  ASSUME infoQuirk \in InfoQuirk, NEW c, ClipKept(c)
  PROVE  LET ran == run_info_probe(c)
         IN  /\ ClipKept(ran.clip)
             /\ ran.res.checks = 8 /\ ran.res.failures \in 0..8
             /\ ran.res.failures = 0 <=> infoQuirk \in {"none", "keeps_the_mirrors"}
<1> DEFINE got    == FileGetFileInfo(c, TRUE)
           gone   == FileGetFileInfo(got.clip, FALSE)
           checks == << got.base # NULL,
                        got.out.storage = got.base,
                        got.out.size # Poison,
                        got.out.max # Poison,
                        got.out.cursor # Poison,
                        AtMost(got.out.size, got.out.max),
                        AtMost(got.out.cursor, got.out.max),
                        gone.base = got.base >>
           Failed == {i \in 1..8 : ~checks[i]}
           ran    == run_info_probe(c)
<1>1. /\ ran.clip = gone.clip /\ ran.res.checks = 8 /\ ran.res.failures = Cardinality(Failed)
  BY DEF run_info_probe
<1>2. c \in Clip /\ (c.bound => infoQuirk = "keeps_the_mirrors")
  BY DEF ClipKept
<1>3. got.clip \in Clip /\ got.clip.size = c.size /\ got.clip.cursor = c.cursor
      /\ (infoQuirk = "unresolved" => got.clip = c)
  BY <1>2, GetInfo
<1>4. ClipKept(gone.clip)
  <2>1. infoQuirk = "unresolved" => ~got.clip.bound
    BY <1>2, <1>3
  <2> HIDE DEF got
  <2> QED
    BY <1>3, <2>1, GetInfo DEF ClipKept
<1>5. IsFiniteSet(Failed) /\ Cardinality(Failed) <= 8 /\ Cardinality(Failed) \in Nat
      /\ (Cardinality(Failed) = 0 <=> Failed = {})
  <2> HIDE DEF checks
  <2>1. Failed \subseteq 1..8
    OBVIOUS
  <2>2. IsFiniteSet(Failed) /\ Cardinality(Failed) <= 8
    BY <2>1, EightIndices, FS_Subset
  <2> HIDE DEF Failed
  <2> QED
    BY <2>2, FS_CardinalityType, FS_EmptySet
<1>6. Failed = {} <=>
        /\ got.base # NULL /\ got.out.storage = got.base
        /\ got.out.size # Poison /\ got.out.max # Poison /\ got.out.cursor # Poison
        /\ AtMost(got.out.size, got.out.max) /\ AtMost(got.out.cursor, got.out.max)
        /\ gone.base = got.base
  <2> HIDE DEF got, gone
  <2> DEFINE a == got.base # NULL
             b == got.out.storage = got.base
             d == got.out.size # Poison
             e == got.out.max # Poison
             f == got.out.cursor # Poison
             g == AtMost(got.out.size, got.out.max)
             h == AtMost(got.out.cursor, got.out.max)
             k == gone.base = got.base
  <2>1. /\ a \in BOOLEAN /\ b \in BOOLEAN /\ d \in BOOLEAN /\ e \in BOOLEAN
        /\ f \in BOOLEAN /\ g \in BOOLEAN /\ h \in BOOLEAN /\ k \in BOOLEAN
    BY DEF AtMost
  <2> HIDE DEF a, b, d, e, f, g, h, k
  <2> DEFINE c8 == << a, b, d, e, f, g, h, k >>
  <2>2. checks = c8
    BY Zenon DEF a, b, d, e, f, g, h, k
  <2>3. /\ c8[1] = a /\ c8[2] = b /\ c8[3] = d /\ c8[4] = e
        /\ c8[5] = f /\ c8[6] = g /\ c8[7] = h /\ c8[8] = k
    BY <2>1
  <2> HIDE DEF c8, checks
  <2>4. Failed = {} <=> ~\E i \in {1, 2, 3, 4, 5, 6, 7, 8} : ~c8[i]
    <3>1. 1..8 = {1, 2, 3, 4, 5, 6, 7, 8}
      OBVIOUS
    <3> QED
      BY <2>2, <3>1, Zenon
  <2> HIDE DEF Failed
  <2>5. (~\E i \in {1, 2, 3, 4, 5, 6, 7, 8} : ~c8[i]) <=> a /\ b /\ d /\ e /\ f /\ g /\ h /\ k
    BY <2>3, Zenon
  <2>6. Failed = {} <=> a /\ b /\ d /\ e /\ f /\ g /\ h /\ k
    BY <2>4, <2>5, Zenon
  <2> QED
    BY <2>6, Zenon DEF a, b, d, e, f, g, h, k
<1> HIDE DEF Failed, checks
<1>7. (Failed = {}) <=> infoQuirk \in {"none", "keeps_the_mirrors"}
  <2>1. CASE infoQuirk = "unresolved"
    BY <1>6, <2>1 DEF FileGetFileInfo
  <2>2. CASE infoQuirk # "unresolved"
    <3>1. /\ got.base = "storage"
          /\ got.out.storage = IF infoQuirk = "no_storage_mirror" THEN "poison" ELSE "storage"
          /\ got.out.size = IF infoQuirk = "no_size_mirrors" THEN Poison
                            ELSE IF infoQuirk = "size_beyond_capacity" THEN ClipMax + 1 ELSE c.size
          /\ got.out.max = IF infoQuirk = "no_size_mirrors" THEN Poison ELSE ClipMax
          /\ got.out.cursor = c.cursor
      BY <1>2, <2>2, InfoOut
    <3>2. c.size \in 0..ClipMax /\ c.cursor \in 0..ClipMax /\ ClipMax \in Nat
      BY <1>2, FileProbesAssumption DEF Clip, FileProbesAssumption
    <3> HIDE DEF got
    <3>3. gone.base = IF infoQuirk = "unbinding_fails" THEN NULL ELSE "storage"
      BY <1>3, <2>2, InfoOut
    <3> HIDE DEF gone
    <3> QED
      BY <1>6, <2>2, <3>1, <3>2, <3>3 DEF InfoQuirk, AtMost, Poison, NULL
  <2> QED
    BY <2>1, <2>2
<1> HIDE DEF gone, got, ran
<1>8. ran.res.failures \in 0..8 /\ (ran.res.failures = 0 <=> infoQuirk \in {"none", "keeps_the_mirrors"})
  BY <1>1, <1>5, <1>7
<1> QED
  BY <1>1, <1>4, <1>8 DEF ran

-----------------------------------------------------------------------------
(* The inductive invariant.                                                *)

Typed ==
  /\ installed \subseteq Stock /\ folderQuirk \in FolderQuirk /\ infoQuirk \in InfoQuirk
  /\ folder \in Folders /\ before \in Folders
FolderCounted ==
  /\ folderResults.missing \subseteq Stock
  /\ folderResults.checks \in 0..14 /\ folderResults.failures \in 0..folderResults.checks
InfoCounted == infoResults.checks \in 0..8 /\ infoResults.failures \in 0..infoResults.checks

IInv ==
  /\ Typed /\ ClipKept(clip) /\ FrameIntact
  /\ FolderCounted /\ FolderVerdictRight /\ InfoCounted /\ InfoVerdictRight

LEMMA InitInv == Init => IInv
<1> SUFFICES ASSUME Init PROVE IInv
  OBVIOUS
<1>1. Typed
  BY FileProbesAssumption DEF Init, Typed, Folders, Runtime, FileProbesAssumption
<1>2. ClipKept(clip)
  BY FileProbesAssumption DEF Init, ClipKept, Clip, FileProbesAssumption
<1>3. FrameIntact
  BY DEF Init, FrameIntact
<1>4. folderResults.checks = 0 /\ folderResults.failures = 0 /\ folderResults.missing = {}
  BY DEF Init, reset_results
<1>5. FolderCounted /\ FolderVerdictRight
  BY <1>4 DEF FolderCounted, FolderVerdictRight, Ran
<1>6. infoResults.checks = 0 /\ infoResults.failures = 0
  BY DEF Init, NoInfo
<1>7. InfoCounted /\ InfoVerdictRight
  BY <1>6 DEF InfoCounted, InfoVerdictRight
<1> QED
  BY <1>1, <1>2, <1>3, <1>5, <1>7 DEF IInv

\* What a run of the FileSetFolder probe sets.
LEMMA FolderRun ==
  ASSUME Typed, RunFolderProbe
  PROVE  /\ folder' \in Folders /\ before' = folder
         /\ folderResults'.missing \subseteq Stock /\ folderResults'.checks \in 0..14
         /\ folderResults'.failures \in 0..folderResults'.checks
         /\ folderResults'.checks > 0 =>
              (folderResults'.failures = 0 <=> folderQuirk \in {"none", "any_slot"} /\ folder \in Accepted)
         /\ folderResults'.failures = 0 => folder' = folder
<1> DEFINE s       == [folder |-> folder, flags |-> "zero", result |-> 0]
           missing == {a \in Stock : AppletFindById(a) = 0}
           start   == [api |-> s, res |-> [reset_results EXCEPT !.missing = missing]]
           ran     == run_folder_probe(s, folderResults)
<1>1. /\ folder' = ran.api.folder /\ folderResults' = ran.res /\ before' = folder
  BY DEF RunFolderProbe
<1>2. missing = Stock \ installed
  BY FileProbesAssumption, Indices DEF FileProbesAssumption, AppletFindById, Stock, Typed
<1>3. CASE missing # {}
  <2>1. ran = start
    BY <1>3 DEF run_folder_probe
  <2>2. missing \subseteq Stock
    OBVIOUS
  <2> HIDE DEF ran, missing
  <2>3. ran.api.folder = folder /\ ran.res.missing = missing /\ ran.res.checks = 0 /\ ran.res.failures = 0
    BY <2>1, ResetTyped DEF Res
  <2> QED
    BY <1>1, <2>2, <2>3 DEF Typed
<1>4. CASE missing = {}
  <2> DEFINE x4 == run_invalid_index_case(run_no_file_namespace_case(
                     run_alpha_quiz_case(run_alpha_word_case(Start(folder)))))
  <2>1. installed = Stock
    BY <1>2, <1>4 DEF Typed
  <2>2. ran = x4
    BY <1>4 DEF run_folder_probe, Start
  <2>3. /\ x4 \in Case /\ x4.res.checks <= 14 /\ x4.res.failures <= x4.res.checks
        /\ x4.res.failures = 0 <=> folderQuirk \in {"none", "any_slot"} /\ folder \in Accepted
        /\ x4.res.failures = 0 => x4.api.folder = folder
    BY <2>1, RunVerdict DEF Typed
  <2> HIDE DEF x4, ran
  <2>4. x4.api.folder \in Folders /\ x4.res.missing \subseteq Stock
        /\ x4.res.checks \in Nat /\ x4.res.failures \in Nat
    BY <2>3 DEF Case, Api, Res, SomeStock
  <2> QED
    BY <1>1, <2>2, <2>3, <2>4
<1> QED
  BY <1>3, <1>4

\* Everybody else's calls leave the folder among the indices that were tried.
LEMMA OtherFolder ==
  ASSUME Typed, OtherSelects
  PROVE  folder' \in Folders
<1>1. PICK i \in Slots \cup Empty :
        folder' = FileSetFolder([folder |-> folder, flags |-> "zero", result |-> 0], i).folder
  BY DEF OtherSelects
<1>2. [folder |-> folder, flags |-> "zero", result |-> 0] \in Api /\ i \in Folders
  BY DEF Typed, Api, Flags, Folders
<1>3. FileSetFolder([folder |-> folder, flags |-> "zero", result |-> 0], i) \in Api
  BY <1>2, SetFolderTyped
<1> QED
  BY <1>1, <1>3 DEF Api

LEMMA NextInv == IInv /\ [Next]_vars => IInv'
<1> SUFFICES ASSUME IInv, [Next]_vars PROVE IInv'
  OBVIOUS
<1>1. CASE SetFocus
  BY <1>1 DEF SetFocus, firmware, IInv, Typed, ClipKept, FrameIntact, FolderCounted, FolderVerdictRight,
              Ran, InfoCounted, InfoVerdictRight, Accepted, Selectable, Runtime
<1>2. CASE RunFolderProbe
  <2>1. UNCHANGED <<installed, folderQuirk, infoQuirk, clip, infoResults, smashed>>
    BY <1>2 DEF RunFolderProbe, firmware
  <2>2. Typed' /\ FolderCounted'
    BY <1>2, <2>1, FolderRun DEF IInv, Typed, FolderCounted
  <2>3. FolderVerdictRight'
    BY <1>2, <2>1, FolderRun DEF IInv, FolderVerdictRight, Ran, Accepted, Selectable, Runtime
  <2> QED
    BY <2>1, <2>2, <2>3 DEF IInv, ClipKept, FrameIntact, InfoCounted, InfoVerdictRight
<1>3. CASE RunInfoProbe
  <2>1. /\ clip' = run_info_probe(clip).clip /\ infoResults' = run_info_probe(clip).res
        /\ UNCHANGED <<installed, folderQuirk, infoQuirk, folder, folderResults, before, smashed>>
    BY <1>3 DEF RunInfoProbe, firmware
  <2>2. infoQuirk \in InfoQuirk /\ ClipKept(clip)
    BY DEF IInv, Typed
  <2>3. LET ran == run_info_probe(clip)
        IN  /\ ClipKept(ran.clip)
            /\ ran.res.checks = 8 /\ ran.res.failures \in 0..8
            /\ ran.res.failures = 0 <=> infoQuirk \in {"none", "keeps_the_mirrors"}
    BY <2>2, InfoRun
  <2>4. /\ ClipKept(clip') /\ infoResults'.checks = 8 /\ infoResults'.failures \in 0..8
        /\ infoResults'.failures = 0 <=> infoQuirk \in {"none", "keeps_the_mirrors"}
    BY <2>1, <2>3
  <2>5. ClipKept(clip)' /\ InfoCounted' /\ InfoVerdictRight'
    BY <2>1, <2>4 DEF ClipKept, InfoCounted, InfoVerdictRight
  <2> QED
    BY <2>1, <2>5 DEF IInv, Typed, FrameIntact, FolderCounted, FolderVerdictRight, Ran, Accepted, Selectable, Runtime
<1>4. CASE OtherSelects
  <2>1. UNCHANGED <<installed, folderQuirk, infoQuirk, clip, folderResults, infoResults, before, smashed>>
    BY <1>4 DEF OtherSelects, firmware
  <2>2. Typed'
    BY <1>4, <2>1, OtherFolder DEF IInv, Typed
  <2> QED
    BY <2>1, <2>2 DEF IInv, ClipKept, FrameIntact, FolderCounted, FolderVerdictRight, Ran, InfoCounted,
                      InfoVerdictRight, Accepted, Selectable, Runtime
<1>5. CASE OtherUsesClipboard
  <2>1. /\ UNCHANGED <<installed, folderQuirk, infoQuirk, folder, folderResults, infoResults, before>>
        /\ smashed' = (smashed \/ clip.bound)
    BY <1>5 DEF OtherUsesClipboard, firmware
  <2>2. PICK size \in 0..ClipMax, cursor \in 0..ClipMax :
          clip' = [clip EXCEPT !.size = size, !.cursor = cursor]
    BY <1>5 DEF OtherUsesClipboard
  <2>3. clip \in Clip /\ (clip.bound => infoQuirk = "keeps_the_mirrors")
    BY DEF IInv, ClipKept
  <2>4. clip' \in Clip /\ clip'.bound = clip.bound
    BY <2>2, <2>3 DEF Clip
  <2>5. ClipKept(clip)' /\ FrameIntact'
    BY <2>1, <2>3, <2>4 DEF IInv, ClipKept, FrameIntact
  <2> QED
    BY <2>1, <2>5 DEF IInv, Typed, FolderCounted, FolderVerdictRight, Ran, InfoCounted, InfoVerdictRight,
                      Accepted, Selectable, Runtime
<1>6. CASE UNCHANGED vars
  BY <1>6 DEF vars, firmware, IInv, Typed, ClipKept, FrameIntact, FolderCounted, FolderVerdictRight,
              Ran, InfoCounted, InfoVerdictRight, Accepted, Selectable, Runtime
<1> QED
  BY <1>1, <1>2, <1>3, <1>4, <1>5, <1>6 DEF Next

LEMMA Invariance == Spec => []IInv
BY InitInv, NextInv, PTL DEF Spec

-----------------------------------------------------------------------------

(***************************************************************************)
(* The probes' results and the firmware's state keep their types, for any  *)
(* slots and any capacity of the clipboard.                                *)
(***************************************************************************)
THEOREM TypeCorrect == Spec => []TypeOK
<1>1. IInv => TypeOK
  BY DEF IInv, TypeOK, Typed, Folders, ClipKept, Clip, FolderCounted, InfoCounted
<1> QED
  BY <1>1, Invariance, PTL

(***************************************************************************)
(* The FileSetFolder probe fails on each of the seven firmwares it can     *)
(* tell from a conforming one, and not on that one or on one that takes an *)
(* empty slot, from every folder that can be selected again and whatever   *)
(* slots there are (FileSetFolderProbe.c lines 75-150).                    *)
(***************************************************************************)
THEOREM FolderVerdictAlwaysRight == Spec => []FolderVerdictRight
<1>1. IInv => FolderVerdictRight
  BY DEF IInv
<1> QED
  BY <1>1, Invariance, PTL

(***************************************************************************)
(* A run of it without a failure leaves the folder where it was, on each   *)
(* of the firmwares of FolderQuirk (lines 75-150).                         *)
(***************************************************************************)
THEOREM PassAlwaysLeavesFolder == Spec => PassLeavesFolder
<1>1. IInv /\ [Next]_vars => [RunFolderProbe /\ folderResults'.failures = 0 => folder' = folder]_vars
  BY FolderRun DEF IInv
<1> QED
  BY <1>1, Invariance, PTL DEF Spec, PassLeavesFolder

(***************************************************************************)
(* No stack frame of the FileGetFileInfo probe is written to after its     *)
(* return, unless the firmware keeps the mirrors it was told to forget     *)
(* (FileGetFileInfoProbe.c lines 77-89).                                   *)
(***************************************************************************)
THEOREM FrameAlwaysIntact == Spec => []FrameIntact
<1>1. IInv => FrameIntact
  BY DEF IInv
<1> QED
  BY <1>1, Invariance, PTL

(***************************************************************************)
(* Its verdict is right for every size and every cursor that a clipboard   *)
(* of any capacity can have (lines 64-91).                                 *)
(***************************************************************************)
THEOREM InfoVerdictAlwaysRight == Spec => []InfoVerdictRight
<1>1. IInv => InfoVerdictRight
  BY DEF IInv
<1> QED
  BY <1>1, Invariance, PTL

=============================================================================
