SPECIFICATION Spec
CONSTANTS
  Writers = {w1, w2, w3}
  Identities = {i1, i2}
  None = None
  MaxOutages = 1
SYMMETRY Symmetry
INVARIANTS
  SuccessAgrees
PROPERTIES
  IdentityIsImmutable
  PublishedIsDurable
