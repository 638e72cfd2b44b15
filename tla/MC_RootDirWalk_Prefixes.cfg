\* checkRootDirExists() with the default prefixes: CASTOR paths are mangled
\* into another EOS tree.
CONSTANTS
  CastorPrefix <- MCCastorPrefix
  EosPrefix <- MCEosPrefix
  Tops <- MCTops
  HelperDirs <- MCHelperDirs
  EosStates <- MCEosStates
SPECIFICATION Spec
INVARIANTS OnlyMissingAncestorsRequested
\* The function returns or throws.
CHECK_DEADLOCK FALSE
