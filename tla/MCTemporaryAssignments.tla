----------------------- MODULE MCTemporaryAssignments -----------------------
(* Small instances of TemporaryAssignments for TLC.                         *)
EXTENDS TemporaryAssignments, TLC

Symmetry ==
    UNION {Permutations(Vehicles), Permutations(Fences), Permutations(RecIds),
           Permutations(Calls), Permutations(Sweeps)}
=============================================================================
