SPECIFICATION Spec
CONSTANTS
  None = None
  Sweeper = sweeper
  Handlers = {h1}
  Tasks <- MCTasks
  Epochs = {1}
  Digests = {d1, d2}
  Pids = {p1, p2}
  SnapshotPolicies = {TRUE}
  MaxAbandoned = 0
SYMMETRY Symmetry
INVARIANTS
  ObservedIsLoaded
\* Processes are bounded: without one left a shard stays as it is.
CHECK_DEADLOCK FALSE
