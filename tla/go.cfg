CONSTANTS
  c1 = c1
  c2 = c2
  Clients = {c1, c2}
  MsgBuf = 2
  NumTicks = 3
SPECIFICATION FairSpec
INVARIANTS TypeOK NoGaps
PROPERTIES DepartedForgotten DeliveredUnlessFull
CHECK_DEADLOCK FALSE
