------------------------------ MODULE Listing ------------------------------
(***************************************************************************)
(* What the user of EhBASIC is promised about the program in memory: it is *)
(* a set of numbered lines.  Typing a numbered line replaces the line of   *)
(* that number, a number alone deletes it, NEW deletes every line, and     *)
(* nothing else changes the program.                                       *)
(***************************************************************************)
EXTENDS Integers, Functions

CONSTANTS
  Numbers,  \* line numbers
  Codes     \* what a line may hold

VARIABLE listing   \* the lines of the program, by number

Init == listing = [n \in {} |-> <<>>]

Replace(n, code) ==
  listing' = [m \in DOMAIN listing \cup {n} |-> IF m = n THEN code ELSE listing[m]]

Delete(n) == listing' = [m \in DOMAIN listing \ {n} |-> listing[m]]

\* A number and its text, or a number alone.
Typed(n, code) == IF code = <<>> THEN Delete(n) ELSE Replace(n, code)

New == listing' = [n \in {} |-> <<>>]

Next ==
  \/ \E n \in Numbers, code \in Codes \cup {<<>>} : Typed(n, code)
  \/ New

Spec == Init /\ [][Next]_listing

=============================================================================
