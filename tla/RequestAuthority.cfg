SPECIFICATION Spec
CONSTANTS
  Nonces = {n1, n2}
  Handlers = {h1, h2}
  MaxTtl = 1
  Skew = 1
  MaxTime = 3
  MaxRestarts = 1
  None = None
SYMMETRY Symmetry
INVARIANTS
  AuthorityInv
  AtMostOnce
  ChargedWhileUsed
