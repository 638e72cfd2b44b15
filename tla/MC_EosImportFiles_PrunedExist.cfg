\* Does --check leave out of the injection only files that exist in EOS?
CONSTANTS
  \* four files read in batches of two; --skip from 0 to 3, so that the
  \* skip ends inside the first batch, at its end, inside a buffer of two
  \* batches, or covers every row
  NFiles = 4
  BatchSize = 2
  MaxSkip = 3
SPECIFICATION Spec
INVARIANT PrunedExist
CHECK_DEADLOCK FALSE
