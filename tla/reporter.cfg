CONSTANTS
  NumProbes = 2
  MaxForeign = 2
  MaxErrors = 2
  NULL = NULL
SPECIFICATION FairSpec
INVARIANTS TypeOK ChainsAccounted CallbackAwaited
PROPERTY ProbeEnds
CHECK_DEADLOCK FALSE
