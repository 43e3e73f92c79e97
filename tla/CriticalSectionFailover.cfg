SPECIFICATION Spec
CONSTANTS
  Actors = {p1, p2}
  Holders = {h1, h2}
  Requests = {r1}
  None = None
  RuntimeEpochs = {1}
  Leases = {1}
  MaxSequence = 2
  MaxTime = 2
  MaxOwner = 2
  MaxVersion = 3
  MaxLate = 0
SYMMETRY Symmetry
INVARIANTS
  LiveGrantIsDurable
  OneLeasePerSequence
PROPERTIES
  ImplementsFencedLease
  ReplayAddsNothing
\* Clock, epochs and versions are bounded: a run ends when they are used up.
CHECK_DEADLOCK FALSE
