---------------------------- MODULE MCIntegration ----------------------------
(* Instances of Integration for TLC. *)
EXTENDS Integration, TLC

CONSTANTS r1, r2, o1, o2

Symmetry == Permutations(Operators) \cup Permutations(Runs)
=============================================================================
