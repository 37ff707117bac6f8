CONSTANTS
  NULL = NULL
  a1 = a1
  a2 = a2
  Threads = 2
  Buckets = 1
  NumBroadcasts = 3
  NumClients = 2
  Addrs = {a1, a2}
SPECIFICATION Spec
INVARIANTS ListsSound CountExactUnlessRaced SameOrderInBucket
PROPERTIES OnlyStaleTuplesHarm
CHECK_DEADLOCK FALSE
