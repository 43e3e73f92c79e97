SPECIFICATION FairSpec
CONSTANTS
  None = None
  Workers = {w1, w2, w3, w4}
  MaxConnections = 2
INVARIANTS
  ControlInv
  SlotsAreCounted
  AtMostMax
PROPERTIES
  HandoffEnds
\* Connections are bounded: the acceptor waits when all have come.
CHECK_DEADLOCK FALSE
