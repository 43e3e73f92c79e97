---------------------------- MODULE MCGuestControl ----------------------------
(* Connections are interchangeable.                                         *)
EXTENDS GuestControl, TLC

Symmetry == Permutations(Workers)
=============================================================================
