CONSTANTS
  Repeat <- MCRepeat
SPECIFICATION FairSpec
PROPERTY ServerReturns
CHECK_DEADLOCK FALSE
