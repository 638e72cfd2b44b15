CONSTANTS
  Keytabs <- MCKeytabs
  Unreadable = MCUnreadable
  NoNsConfig = MCNoNsConfig
  NoError = MCNoError
  MCUnreadable = MCUnreadable
  MCNoNsConfig = MCNoNsConfig
  MCNoError = MCNoError
SPECIFICATION Spec
INVARIANT NamespaceMapMatchesKeytab
CHECK_DEADLOCK FALSE
