\* The constructor and the batching of the main SELECT for the directory
\* import, with every castor.batch_size but zero.
CONSTANTS
  Tool = "dirs"
  Configs <- MCConfigs
  NRows = 4
  UIntWrap <- MCUIntWrap
  ULongWrap <- MCULongWrap
  Absent = Absent
SPECIFICATION Spec
INVARIANTS TypeOK MinimumConnections EveryRowQueuedOnce
\* The program ends after processDirs() or when the constructor throws.
CHECK_DEADLOCK FALSE
