SPECIFICATION Spec
CONSTANTS
  k1 = k1
  k2 = k2
  t1 = t1
  t2 = t2
  Tenants = {t1, t2}
  Keys = {k1, k2}
  TenantOf <- MCTenantOf
  RuntimeEpochs = {1, 2}
  Pids = {p1, p2, p3}
  None = None
  MaxOwner = 3
SYMMETRY Symmetry
INVARIANTS
  RegistryInv
PROPERTIES
  DownRemovesTheDead
  NoRegression
  ImplementsOwnerEpochs
\* Processes and owner epochs are bounded: a run ends when they are used up.
CHECK_DEADLOCK FALSE
