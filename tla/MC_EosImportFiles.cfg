\* Safety and termination of the file import under every interleaving of
\* the two threads, every insert and save failure, skip and mode.
CONSTANTS
  \* four files read in batches of two; --skip from 0 to 3, so that the
  \* skip ends inside the first batch, at its end, inside a buffer of two
  \* batches, or covers every row
  NFiles = 4
  BatchSize = 2
  MaxSkip = 3
SPECIFICATION FairSpec
INVARIANTS TypeOK InjectedOnce SkipsPrefix RowsAccounted
PROPERTY Termination
\* The program ends: main exits after joining the injection thread.
CHECK_DEADLOCK FALSE
