\* Does exit status 0 mean that every directory read was imported or saved?
CONSTANTS
  NDirs <- MCNDirs
  BatchSize <- MCBatchSize
SPECIFICATION Spec
INVARIANT SuccessMeansAccounted
CHECK_DEADLOCK FALSE
