------------------------------- MODULE MC_Store -------------------------------
(* Small instances of WorldStore; the .cfg files choose the requests in     *)
(* flight, the bounds and the faults.                                       *)
EXTENDS WorldStore, TLC

\* Companies and lots are interchangeable.
Symmetry == Permutations(Companies) \cup Permutations(Lots)
=============================================================================
