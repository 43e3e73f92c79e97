------------------------------ MODULE MCRuntimeApi -----------------------------
(* The tasks are the handlers and the sweeper.                              *)
EXTENDS RuntimeApi, TLC

MCTasks == Handlers \cup {Sweeper}

Symmetry == Permutations(Handlers) \cup Permutations(Pids) \cup Permutations(Digests)
=============================================================================
