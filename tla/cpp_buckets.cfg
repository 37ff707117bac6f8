CONSTANTS
  NULL = NULL
  a1 = a1
  a2 = a2
  Threads = 2
  Buckets = 2
  NumBroadcasts = 2
  NumClients = 2
  Addrs = {a1, a2}
SPECIFICATION FairSpec
INVARIANTS TypeOK
PROPERTIES ImplementsService BroadcastTerminates
CHECK_DEADLOCK FALSE
