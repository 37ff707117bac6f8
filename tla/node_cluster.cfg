CONSTANTS
  c1 = c1
  c2 = c2
  c3 = c3
  w1 = w1
  w2 = w2
  NULL = NULL
  Conns = {c1, c2}
  Workers = {w1, w2}
  Requests <- PostAndSse
  Cuts <- MCCuts
  Chars <- MCChars
  Prefix <- MCPrefix
SPECIFICATION Spec
PROPERTIES BroadcastReachesAllClients
CHECK_DEADLOCK FALSE
