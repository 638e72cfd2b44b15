CONSTANTS
  Repeat <- MCRepeat
  Records <- MCRecords
SPECIFICATION FairSpec
PROPERTY ClientTerminates
CHECK_DEADLOCK FALSE
