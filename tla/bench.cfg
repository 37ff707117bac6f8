CONSTANTS
  b1 = b1
  b2 = b2
  Runs = {b1, b2}
  Args <- MCArgs
  MaxPending = 2
  MaxSamples = 3
  MaxErrors = 1
  MaxMessages = 1
  BROKEN = BROKEN
SPECIFICATION FairSpec
INVARIANTS TypeOK RowsComplete ResultsKept
PROPERTY RunEnds
CHECK_DEADLOCK FALSE
