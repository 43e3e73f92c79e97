------------------------ MODULE MCIdentityPublication -------------------------
(* Writers and identities are interchangeable.                              *)
EXTENDS IdentityPublication, TLC

Symmetry == Permutations(Writers) \cup Permutations(Identities)
=============================================================================
