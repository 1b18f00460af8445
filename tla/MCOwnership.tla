---------------------------- MODULE MCOwnership ----------------------------
(* Instances of Ownership for TLC: one run after another on one interface. *)
EXTENDS Ownership, TLC

CONSTANTS r1, r2

TwoRuns == {r1, r2}

RunSymmetry == Permutations(Runs)

=============================================================================
