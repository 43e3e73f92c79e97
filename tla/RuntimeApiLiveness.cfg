SPECIFICATION FairSpec
CONSTANTS
  None = None
  Sweeper = sweeper
  Handlers = {h1}
  Tasks <- MCTasks
  Epochs = {1, 2}
  Digests = {d1}
  Pids = {p1, p2}
  SnapshotPolicies = {TRUE, FALSE}
  MaxAbandoned = 1
PROPERTIES
  IdleIsReclaimed
\* Processes are bounded: without one left a shard stays as it is.
CHECK_DEADLOCK FALSE
