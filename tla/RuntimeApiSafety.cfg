SPECIFICATION Spec
CONSTANTS
  None = None
  Sweeper = sweeper
  Handlers = {h1, h2}
  Tasks <- MCTasks
  Epochs = {1, 2}
  Digests = {d1, d2}
  Pids = {p1, p2}
  SnapshotPolicies = {TRUE, FALSE}
  MaxAbandoned = 0
SYMMETRY Symmetry
INVARIANTS
  HostInv
  RestoresTheLast
  ActiveCountsCalls
  NoStopUnderCall
  PlacementIsKept
  ObservedWasConfirmed
\* Processes are bounded: without one left a shard stays as it is.
CHECK_DEADLOCK FALSE
