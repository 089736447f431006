SPECIFICATION MCSpec
CONSTANTS
  p1 = p1
  p2 = p2
  r1 = r1
  Caller <- TwoCallers
  ReqId <- OneId
  ArraySize = 5
  MaxQueued = 2
  Kinds <- Mixed
CHECK_DEADLOCK FALSE
INVARIANTS ListConsistent OneAnswerEach
PROPERTIES ForcedServed
