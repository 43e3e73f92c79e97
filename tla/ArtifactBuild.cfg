SPECIFICATION BuildSpec
CONSTANTS
  None = None
  Torn = Torn
  Sources <- MCSources
  Policies <- MCPolicies
  SdkNames <- MCSdkNames
  Sdk <- MCSdk
  Admits <- MCAdmits
  Rejects <- MCRejects
  Importing <- MCImporting
  Compiled <- MCCompiled
  UsesSdk <- MCUsesSdk
  Profile <- MCProfile
  Limits <- MCLimits
  Builders <- MCBuilders
  WellFormed <- MCWellFormed
  Trusts <- MCTrusts
  ProfileAllows <- MCProfileAllows
  ValidName <- MCValidName
  AtomsFit <- MCAtomsFit
  MaxModules = 2
  MaxBuilds = 2
INVARIANTS
  PackageIsOneBuild
  AcceptedWasAdmitted
  ArchivesAgree
  CompleteIsAccepted
\* Builds are bounded: when they are used up, what is left may be all done.
CHECK_DEADLOCK FALSE
