\* Safety of the directory import under every interleaving of the main and
\* injection threads, insert and save failures, in both modes,
\* and the refinement onto the abstract ImportBatches.
CONSTANTS
  NDirs <- MCNDirs
  BatchSize <- MCBatchSize
SPECIFICATION FairSpec
INVARIANTS InjectedOnce RowsAccounted
PROPERTY Termination ImplementsImportBatches
\* The program ends: main exits after joining the injection thread.
CHECK_DEADLOCK FALSE
