CONSTANTS
  Tags <- MC_Tags
  Paths <- MC_Paths
  Files <- MC_Files
  Lower <- MC_Lower
  Invocations <- MC_Invocations
  ReadOnly <- MC_ReadOnly
SPECIFICATION Spec
PROPERTY CanonicalFormIsStable
CHECK_DEADLOCK FALSE
