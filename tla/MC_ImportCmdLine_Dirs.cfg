CONSTANTS
  Tool = "dirs"
  Argvs <- MCDirsArgvs
  DbPaths <- MCDbPaths
  NoArg = MCNoArg
  MCNoArg = MCNoArg
SPECIFICATION Spec
INVARIANT CommandIsTheOneGiven DeltaHonoured
CHECK_DEADLOCK FALSE
