CONSTANTS
  c1 = c1
  c2 = c2
  c3 = c3
  w1 = w1
  w2 = w2
  NULL = NULL
  Conns = {c1, c2, c3}
  Workers = {w1}
  Requests <- MCRequests
  Cuts <- MCCuts
  Chars <- MCChars
  Prefix <- MCPrefix
SPECIFICATION FairSpec
INVARIANTS TypeOK CountIsOpenStreams RegistryExact AnsweredOnce
PROPERTIES  ImplementsService EveryRequestAnswered
CHECK_DEADLOCK FALSE
