CONSTANTS
  c1 = c1
  c2 = c2
  p1 = p1
  Clients = {c1, c2}
  Posts = {p1}
  NumTicks = 2
SPECIFICATION FairSpec
INVARIANTS TypeOK HubSettles OnceEach
PROPERTY ClosedForgotten
CHECK_DEADLOCK FALSE
