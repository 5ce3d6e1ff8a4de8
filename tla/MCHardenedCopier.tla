--------------------------- MODULE MCHardenedCopier ---------------------------
(* Small instances of HardenedCopier for TLC. *)
EXTENDS HardenedCopier, TLC

WindowsDef == {1, 2}
LimitDef == [w \in WindowsDef |-> w + 1]

Symmetry == Permutations(Calls) \cup Permutations(Requests) \cup Permutations(Accounts)
=============================================================================
