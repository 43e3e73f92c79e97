SPECIFICATION Spec
CONSTANTS
  p = p
  q = q
  g = g
  h = h
  Processes = {p, q}
  Groups = {g, h}
  Unknown = Unknown
  None = None
  Configs <- MCConfigs
INVARIANTS
  TenantIsConfined
  GroupIsUnanimous
  HelperAgrees
  NothingLeft
  ExitIsTargets
PROPERTIES
  
  TermEndsAll
\* A launch ends: a finished helper has no step.
CHECK_DEADLOCK FALSE
