SPECIFICATION StoreSpec
CONSTANTS
  None = None
  Torn = Torn
  SdkNames = {"bmscl"}
  Packages <- MCPackages
  WellFormed <- MCWellFormed
  Trusts <- MCTrusts
  ProfileAllows <- MCProfileAllows
  ValidName <- MCValidName
  AtomsFit <- MCAtomsFit
  MaxModules = 2
INVARIANTS
  LoadedIsOneBuild
  CalmReadIsAccepted
\* Each package is published once: with all published nothing need happen.
CHECK_DEADLOCK FALSE
