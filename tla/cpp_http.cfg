CONSTANTS
  NULL = NULL
  c1 = c1
  c2 = c2
  Conns = {c1, c2}
  Requests <- MCRequests
  HdrChunk = 3
  HdrMax = 4
  BodyChunk = 2
  BodyMax = 5
SPECIFICATION FairSpec
INVARIANTS TypeOK BodyWhole BufferBounded AnswersOnce
PROPERTIES RequestAnswered
CHECK_DEADLOCK FALSE
