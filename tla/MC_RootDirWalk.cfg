\* checkRootDirExists() with the EOS prefix equal to the CASTOR prefix, so
\* that mangling leaves every path as it is.
CONSTANTS
  CastorPrefix <- MCCastorPrefix
  EosPrefix <- MCCastorPrefix
  Tops <- MCTops
  HelperDirs <- MCHelperDirs
  EosStates <- MCSameEosStates
SPECIFICATION Spec
INVARIANTS TypeOK AncestorsOutermostFirst OnlyMissingAncestorsRequested
\* The function returns or throws.
CHECK_DEADLOCK FALSE
