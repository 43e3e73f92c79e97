SPECIFICATION Spec
CONSTANTS
  Actors = {p1, p2}
  Holders = {h1}
  Requests = {}
  None = None
  RuntimeEpochs = {1}
  Leases = {1, 2}
  MaxSequence = 2
  MaxTime = 2
  MaxOwner = 2
  MaxVersion = 2
  MaxLate = 1
SYMMETRY Symmetry
INVARIANTS
  CriticalSectionInv
  ExclusiveUnlessInDoubt
\* Clock, epochs and versions are bounded: a run ends when they are used up.
CHECK_DEADLOCK FALSE
