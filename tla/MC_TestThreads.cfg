CONSTANTS
  Threads <- MCThreads
  PbExceptionIsXrdSsiException <- MCPbExceptionIsXrdSsiException
SPECIFICATION Spec
INVARIANT ReturnAfterAllAnswered
CHECK_DEADLOCK FALSE
