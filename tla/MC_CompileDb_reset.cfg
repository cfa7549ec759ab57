CONSTANTS
  j1 = j1
  j2 = j2
  j3 = j3
  j4 = j4
  Jobs <- MC_Jobs
  Args <- MC_Args
  Cwd <- MC_Cwd
  SourceFiles <- MC_SourceFiles
  Uuids <- MC_Uuids
  StaleFiles <- MC_StaleFiles
SPECIFICATION Spec
INVARIANT CompileDbFromThisBuild
CHECK_DEADLOCK FALSE
