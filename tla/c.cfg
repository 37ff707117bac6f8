CONSTANTS
  NULL = NULL
  c1 = c1
  c2 = c2
  Conns = {c1, c2}
  NumFds = 2
  NumThreads = 1
  Garbage = {5}
  Requests <- MCRequests
SPECIFICATION FairSpec
INVARIANTS TypeOK EventsCurrent CountExactUnlessRaced PassedOnForGood
PROPERTIES StreamsReclaimed
CHECK_DEADLOCK FALSE
