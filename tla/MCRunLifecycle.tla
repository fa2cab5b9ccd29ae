--------------------------- MODULE MCRunLifecycle ---------------------------
(* Instances of RunLifecycle for TLC. *)
EXTENDS RunContract_proofs, TLC

CONSTANTS r1, r2, c1, w1, w2

Symmetry == Permutations({r1, r2}) \cup Permutations({w1, w2})
=============================================================================
