\* One Send() against every order of the framework's callbacks.
CONSTANTS
  MaxChunks <- MCMaxChunks
  MaxAlerts <- MCMaxAlerts
  PbExceptionIsXrdSsiException <- MCPbExceptionIsXrdSsiException
SPECIFICATION FairSpec
INVARIANT DataAfterMetadata
PROPERTY ClientReturns
\* Once Send() has returned and the callbacks are over, nothing is left to do.
CHECK_DEADLOCK FALSE
