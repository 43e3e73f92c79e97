--------------------------- MODULE MCRequestAuthority --------------------------
(* Contracts and handlers are interchangeable.                              *)
EXTENDS RequestAuthority, TLC

Symmetry == Permutations(Nonces) \cup Permutations(Handlers)
=============================================================================
