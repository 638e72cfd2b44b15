CONSTANTS
  Tool = "dirs"
  Argvs <- MCDirsArgvs
  DbPaths <- MCDbPaths
  NoArg = MCNoArg
  MCNoArg = MCNoArg
SPECIFICATION Spec
INVARIANT OnlyUnderTop
CHECK_DEADLOCK FALSE
