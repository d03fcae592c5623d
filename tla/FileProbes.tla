------------------------------ MODULE FileProbes ------------------------------
(***************************************************************************)
(* The two regression probes of the File API,                              *)
(* applets/FileSetFolderProbe and applets/FileGetFileInfoProbe, beside the *)
(* applets that use the same File API between their messages.              *)
(*                                                                         *)
(* The firmware is external: FileSetFolder, FileGetFileInfo and            *)
(* AppletFindById do what the probes expect of them, or differ from it in  *)
(* one way, the quirk.  A probe is an executable specification, so what    *)
(* is asked of it is that its verdict is right and that it leaves the      *)
(* system as it found it.  A message is handled without giving way to      *)
(* another applet: a run is one step.                                      *)
(***************************************************************************)
EXTENDS Integers, FiniteSets

CONSTANTS
  Slots,       \* runtime applet indices, 0 is the System applet
  Empty,       \* indices in range that no applet has (the ID word is 0xFFFF)
  AlphaWord, AlphaQuiz, Calculator,  \* where the three stock applets are, if installed
  WithFiles,   \* applets with a file group
  OutOfRange,  \* the first index out of range (32)
  ClipMax,     \* capacity of the clipboard
  FolderQuirks, InfoQuirks  \* the firmwares the probes are run on

Stock == {AlphaWord, AlphaQuiz, Calculator}

FolderQuirk == {"none", "moves_on_error", "keeps_flags_on_error", "no_flags_on_success",
                "returns_no_folder", "does_not_move", "any_namespace", "any_index", "any_slot"}
InfoQuirk == {"none", "unresolved", "no_storage_mirror", "no_size_mirrors", "size_beyond_capacity",
              "unbinding_fails", "keeps_the_mirrors"}

ASSUME FileProbesAssumption ==
  /\ Slots \subseteq Nat /\ 0 \in Slots /\ Empty \subseteq Nat \ Slots
  /\ Stock \subseteq Slots \ {0} /\ Cardinality(Stock) = 3
  /\ AlphaQuiz \in WithFiles /\ WithFiles \subseteq Slots \ {0, AlphaWord, Calculator}
  /\ OutOfRange \in Nat \ (Slots \cup Empty)
  /\ ClipMax \in Nat
  /\ FolderQuirks \subseteq FolderQuirk /\ InfoQuirks \subseteq InfoQuirk

VARIABLES
  installed,    \* the stock applets that are there
  folderQuirk, infoQuirk, \* how the firmware differs
  folder,       \* current_folder
  clip,         \* the clipboard's descriptor: size, cursor, and whether mirrors are bound
  focus,        \* the applet with the focus: "folder_probe", "info_probe" or "other"
  lcd,          \* what it shows
  folderResults, infoResults,  \* g_results of the two probes
  before,       \* history: the folder before the last run
  smashed       \* history: a mirror was updated after its stack frame was gone

firmware == <<installed, folderQuirk, infoQuirk>>
vars == <<firmware, folder, clip, focus, lcd, folderResults, infoResults, before, smashed>>

-----------------------------------------------------------------------------
(* The firmware (external).                                                *)

NO_FILE_NAMESPACE == -7
INVALID_APPLET    == -64

\* What can be said of a flags word: 0, with bit 0x40, or another one.
Sentinel == "0x40"    \* 0xDEADBEEF has the bit
HeaderFlags(i) == IF i = AlphaWord THEN "0x40" ELSE "other"

Selectable == (WithFiles \cup {AlphaWord}) \ (Stock \ installed)
Runtime == Slots \ (Stock \ installed)

\* The indices that this firmware lets a caller select.
Accepted ==
  Selectable \cup (IF folderQuirk = "any_namespace" THEN Runtime ELSE {})
             \cup (IF folderQuirk = "any_slot" THEN Empty \cup (Stock \ installed) ELSE {})

AppletFindById(a) == IF a \in installed THEN a ELSE 0

\* The state of the File API in which a probe runs: [folder, flags, result].
FileSetFolder(s, i) ==
  LET index  == IF folderQuirk = "any_index" /\ i \notin Slots \cup Empty THEN 0 ELSE i
      status == IF index \in Accepted THEN 0
                ELSE IF index \in Runtime THEN NO_FILE_NAMESPACE ELSE INVALID_APPLET
  IN  IF status < 0
      THEN [folder |-> IF folderQuirk = "moves_on_error" THEN i ELSE s.folder,
            flags  |-> IF folderQuirk = "keeps_flags_on_error" THEN s.flags ELSE "zero",
            result |-> status]
      ELSE [folder |-> IF folderQuirk = "does_not_move" THEN s.folder ELSE index,
            flags  |-> IF folderQuirk = "no_flags_on_success" THEN s.flags ELSE HeaderFlags(index),
            result |-> IF folderQuirk = "returns_no_folder" THEN 0 ELSE s.folder]

-----------------------------------------------------------------------------
(* The FileSetFolder probe.  A case is an operator on [api, res].          *)

Unset == -999

reset_results ==
  [missing |-> {}, checks |-> 0, failures |-> 0,
   alphaWord |-> Unset, alphaWordFlags |-> "zero",
   noFiles |-> Unset, noFilesFlags |-> "zero", invalid |-> Unset, invalidFlags |-> "zero"]

check(r, condition) ==
  [r EXCEPT !.checks = @ + 1, !.failures = IF condition THEN @ ELSE @ + 1]

With(api, value) == [api EXCEPT !.flags = value]

\* Selects a namespace that exists, looks at its flags, and goes back.
NamespaceCase(x, index, bit) ==
  LET set  == FileSetFolder(With(x.api, Sentinel), index)
      r1   == check(check(x.res, set.result >= 0), (set.flags = "0x40") = bit)
      back == FileSetFolder(set, set.result)
  IN  IF set.result < 0
      THEN [api |-> set, res |-> r1, result |-> set.result, flags |-> set.flags]
      ELSE [api |-> back, res |-> check(r1, back.result = index),
            result |-> set.result, flags |-> set.flags]

run_alpha_word_case(x) ==
  LET y == NamespaceCase(x, AlphaWord, TRUE)
  IN  [api |-> y.api, res |-> [y.res EXCEPT !.alphaWord = y.result, !.alphaWordFlags = y.flags]]

run_alpha_quiz_case(x) ==
  LET y == NamespaceCase(x, AlphaQuiz, FALSE) IN [api |-> y.api, res |-> y.res]

\* Mutant: back to the anchor instead of to where the user was.
RefusedKeepsAnchor(x, index, status) ==
  LET anchor  == FileSetFolder(x.api, AlphaQuiz)
      refused == FileSetFolder(With(anchor, Sentinel), index)
      back    == FileSetFolder(refused, AlphaQuiz)
      r1      == check(x.res, anchor.result >= 0)
      r2      == check(check(r1, refused.result = status), refused.flags = "zero")
  IN  IF anchor.result < 0 THEN [api |-> anchor, res |-> r1, result |-> Unset, flags |-> "zero"]
      ELSE [api |-> back, res |-> check(r2, back.result = AlphaQuiz),
            result |-> refused.result, flags |-> refused.flags]

\* Mutant: the flags are not given a value that the firmware has to clear.
RefusedNoSentinel(x, index, status) ==
  LET anchor  == FileSetFolder(x.api, AlphaQuiz)
      refused == FileSetFolder(With(anchor, "zero"), index)
      back    == FileSetFolder(refused, anchor.result)
      r1      == check(x.res, anchor.result >= 0)
      r2      == check(check(r1, refused.result = status), refused.flags = "zero")
  IN  IF anchor.result < 0 THEN [api |-> anchor, res |-> r1, result |-> Unset, flags |-> "zero"]
      ELSE [api |-> back, res |-> check(r2, back.result = AlphaQuiz),
            result |-> refused.result, flags |-> refused.flags]

(* From AlphaQuiz as an anchor, tries an index that must be refused; going back returns the
   anchor only if the refused call did not move the folder. *)
RefusedCase(x, index, status) ==
  LET anchor  == FileSetFolder(x.api, AlphaQuiz)
      refused == FileSetFolder(With(anchor, Sentinel), index)
      back    == FileSetFolder(refused, anchor.result)
      r1      == check(x.res, anchor.result >= 0)
      r2      == check(check(r1, refused.result = status), refused.flags = "zero")
  IN  IF anchor.result < 0 THEN [api |-> anchor, res |-> r1, result |-> Unset, flags |-> "zero"]
      ELSE [api |-> back, res |-> check(r2, back.result = AlphaQuiz),
            result |-> refused.result, flags |-> refused.flags]

run_no_file_namespace_case(x) ==
  LET y == RefusedCase(x, Calculator, NO_FILE_NAMESPACE)
  IN  [api |-> y.api, res |-> [y.res EXCEPT !.noFiles = y.result, !.noFilesFlags = y.flags]]

run_invalid_index_case(x) ==
  LET y == RefusedCase(x, OutOfRange, INVALID_APPLET)
  IN  [api |-> y.api, res |-> [y.res EXCEPT !.invalid = y.result, !.invalidFlags = y.flags]]

run_folder_probe(s, r) ==
  LET missing == {a \in Stock : AppletFindById(a) = 0}
      start   == [api |-> s, res |-> [reset_results EXCEPT !.missing = missing]]
  IN  IF missing # {} THEN start
      ELSE run_invalid_index_case(run_no_file_namespace_case(
             run_alpha_quiz_case(run_alpha_word_case(start))))

draw_folder_results(r) ==
  IF r.missing # {} THEN [title |-> "missing", missing |-> r.missing]
  ELSE [title |-> "FSF", failures |-> r.failures, checks |-> r.checks,
        aw |-> <<r.alphaWord, r.alphaWordFlags>>, cal |-> <<r.noFiles, r.noFilesFlags>>,
        bad |-> <<r.invalid, r.invalidFlags>>]

-----------------------------------------------------------------------------
(* FileGetFileInfo (external) and its probe.                               *)

NULL == "null"
Poison == -1      \* 0xDEADBEEF in the four locals
Untouched == [storage |-> "poison", size |-> Poison, max |-> Poison, cursor |-> Poison]

(* Returns the storage and fills the mirrors, whose addresses it keeps in the descriptor.
   bind is FALSE for a call with four null pointers, which forgets them. *)
FileGetFileInfo(c, bind) ==
  IF infoQuirk = "unresolved" THEN [clip |-> c, base |-> NULL, out |-> Untouched]
  ELSE [clip |-> [c EXCEPT !.bound = bind \/ (@ /\ infoQuirk = "keeps_the_mirrors")],
        base |-> IF ~bind /\ infoQuirk = "unbinding_fails" THEN NULL ELSE "storage",
        out  |-> [storage |-> IF infoQuirk = "no_storage_mirror" THEN "poison" ELSE "storage",
                  size    |-> IF infoQuirk = "no_size_mirrors" THEN Poison
                              ELSE IF infoQuirk = "size_beyond_capacity" THEN ClipMax + 1 ELSE c.size,
                  max     |-> IF infoQuirk = "no_size_mirrors" THEN Poison ELSE ClipMax,
                  cursor  |-> c.cursor]]

NoInfo == [checks |-> 0, failures |-> 0, base |-> NULL, unbind |-> NULL, out |-> Untouched]

\* Mutant: the mirrors stay bound to locals of a function that returns.
RunWithoutUnbinding(c) ==
  LET got == FileGetFileInfo(c, TRUE)
  IN  [clip |-> got.clip,
       res  |-> [checks |-> 8, base |-> got.base, unbind |-> got.base, out |-> got.out,
                 failures |-> IF got.base = NULL THEN 1 ELSE 0]]

\* Mutant: the two bounds are not compared with the capacity.
RunWithoutBounds(c) ==
  LET got    == FileGetFileInfo(c, TRUE)
      gone   == FileGetFileInfo(got.clip, FALSE)
      Failed == {i \in 1..5 :
                   CASE i = 1 -> got.base = NULL
                     [] i = 2 -> got.out.storage # got.base
                     [] i = 3 -> got.out.size = Poison
                     [] i = 4 -> got.out.max = Poison
                     [] i = 5 -> gone.base # got.base}
  IN  [clip |-> gone.clip,
       res  |-> [checks |-> 6, failures |-> Cardinality(Failed),
                 base |-> got.base, unbind |-> gone.base, out |-> got.out]]

\* An unsigned comparison: the poison is the larger one.
AtMost(n, bound) == bound = Poison \/ (n # Poison /\ n <= bound)

run_info_probe(c) ==
  LET got    == FileGetFileInfo(c, TRUE)
      gone   == FileGetFileInfo(got.clip, FALSE)
      checks == << got.base # NULL,
                   got.out.storage = got.base,
                   got.out.size # Poison,
                   got.out.max # Poison,
                   got.out.cursor # Poison,
                   AtMost(got.out.size, got.out.max),
                   AtMost(got.out.cursor, got.out.max),
                   gone.base = got.base >>
  IN  [clip |-> gone.clip,
       res  |-> [checks |-> 8, failures |-> Cardinality({i \in 1..8 : ~checks[i]}),
                 base |-> got.base, unbind |-> gone.base, out |-> got.out]]

draw_info_results(r) ==
  [title |-> "FGFI", failures |-> r.failures, checks |-> r.checks,
   ptr |-> <<r.base, r.out.storage>>, sz |-> <<r.out.size, r.out.max>>, cur |-> <<r.out.cursor, r.unbind>>]

-----------------------------------------------------------------------------
(* Messages, and the other applets.                                        *)

idle == [title |-> "idle"]

Init ==
  /\ installed \in SUBSET Stock /\ folderQuirk \in FolderQuirks /\ infoQuirk \in InfoQuirks
  /\ "none" \in {folderQuirk, infoQuirk}
  /\ folder \in Runtime
  /\ clip = [size |-> 0, cursor |-> 0, bound |-> FALSE]
  /\ focus = "other" /\ lcd = idle
  /\ folderResults = [reset_results EXCEPT !.alphaWord = 0, !.noFiles = 0, !.invalid = 0]
  /\ infoResults = NoInfo
  /\ before = folder /\ smashed = FALSE

\* MSG_SETFOCUS draws the idle screen of a probe.
SetFocus ==
  /\ focus' \in {"folder_probe", "info_probe", "other"} /\ focus' # focus
  /\ lcd' = idle
  /\ UNCHANGED <<firmware, folder, clip, folderResults, infoResults, before, smashed>>

\* Cmd+F.
RunFolderProbe ==
  /\ focus = "folder_probe"
  /\ LET ran == run_folder_probe([folder |-> folder, flags |-> "zero", result |-> 0], folderResults)
     IN  /\ folder' = ran.api.folder
         /\ folderResults' = ran.res
         /\ lcd' = draw_folder_results(ran.res)
  /\ before' = folder
  /\ UNCHANGED <<firmware, clip, focus, infoResults, smashed>>

\* Cmd+I.
RunInfoProbe ==
  /\ focus = "info_probe"
  /\ LET ran == run_info_probe(clip)
     IN  /\ clip' = ran.clip
         /\ infoResults' = ran.res
         /\ lcd' = draw_info_results(ran.res)
  /\ UNCHANGED <<firmware, folder, focus, folderResults, before, smashed>>

\* Another applet selects its namespace.
OtherSelects ==
  /\ focus = "other"
  /\ \E i \in Slots \cup Empty :
       folder' = FileSetFolder([folder |-> folder, flags |-> "zero", result |-> 0], i).folder
  /\ UNCHANGED <<firmware, clip, focus, lcd, folderResults, infoResults, before, smashed>>

\* Another applet cuts, copies or reads: the bound mirrors are updated.
OtherUsesClipboard ==
  /\ focus = "other"
  /\ \E size, cursor \in 0..ClipMax : clip' = [clip EXCEPT !.size = size, !.cursor = cursor]
  /\ smashed' = (smashed \/ clip.bound)
  /\ UNCHANGED <<firmware, folder, focus, lcd, folderResults, infoResults, before>>

Next == SetFocus \/ RunFolderProbe \/ RunInfoProbe \/ OtherSelects \/ OtherUsesClipboard

Spec == Init /\ [][Next]_vars

-----------------------------------------------------------------------------
(* What is checked.                                                        *)

\* The type invariant of the firmware's and the probes' state.
TypeOK ==
  /\ installed \subseteq Stock /\ folderQuirk \in FolderQuirk /\ infoQuirk \in InfoQuirk
  /\ {folder, before} \subseteq Slots \cup Empty \cup {OutOfRange}
  /\ clip \in [size : 0..ClipMax, cursor : 0..ClipMax, bound : BOOLEAN]
  /\ folderResults.missing \subseteq Stock
  /\ folderResults.failures \in 0..folderResults.checks /\ folderResults.checks \in 0..14
  /\ infoResults.failures \in 0..infoResults.checks /\ infoResults.checks \in 0..8

Ran == folderResults.checks > 0

(***************************************************************************)
(* The FileSetFolder probe fails on each of the seven firmwares that break *)
(* the contract (docs/filesetfolder-closure.md lines 61-71) where the      *)
(* probe looks, and when the folder it was started in cannot be selected   *)
(* again, and on no other: in every folder, after any other applet's       *)
(* calls, and on the second run as on the first.  The probe does not see a *)
(* firmware that takes an empty slot (lines 155-157); it does not look at  *)
(* the flags beside bit 0x40 or at the active descriptor, which are no     *)
(* part of the model.                                                      *)
(***************************************************************************)
FolderVerdictRight ==
  Ran => (folderResults.failures = 0 <=> folderQuirk \in {"none", "any_slot"} /\ before \in Accepted)

(***************************************************************************)
(* A run that reports no failure leaves the current folder where it was,   *)
(* on each of the firmwares of FolderQuirk: the only sign that it did not  *)
(* is a failure (lines 75-150: every case goes back by the returned        *)
(* index).                                                                 *)
(***************************************************************************)
PassLeavesFolder ==
  [][RunFolderProbe /\ folderResults'.failures = 0 => folder' = folder]_vars

(***************************************************************************)
(* No mirror stays bound to the stack frame of a run: other applets'       *)
(* clipboard operations, which update the bound addresses, never write     *)
(* there (FileGetFileInfoProbe.c lines 77-89). A firmware that ignores the *)
(* null pointers is the one exception, and the probe cannot see it.        *)
(***************************************************************************)
FrameIntact == smashed => infoQuirk = "keeps_the_mirrors"

(***************************************************************************)
(* The FileGetFileInfo probe fails exactly on a firmware that differs in   *)
(* what can be seen from the outside, for any size and cursor the          *)
(* clipboard has at the time (lines 64-91).                                *)
(***************************************************************************)
InfoVerdictRight ==
  infoResults.checks > 0 =>
    (infoResults.failures = 0 <=> infoQuirk \in {"none", "keeps_the_mirrors"})

=============================================================================
