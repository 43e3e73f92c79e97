-------------------------- MODULE MCCriticalSection --------------------------
\* The instance of CriticalSection that TLC explores.
EXTENDS CriticalSectionInvariant, TLC

\* Holders differ only by name, and so do the processes of the actors.
Symmetry == Permutations(Holders) \cup Permutations(Actors)
=============================================================================
