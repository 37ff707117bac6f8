CONSTANTS
  c1 = c1
  c2 = c2
  Clients = {c1, c2}
  MsgBuf = 1
  NumTicks = 2
SPECIFICATION FairSpec
PROPERTIES TicksReachReaders
CHECK_DEADLOCK FALSE
