CONSTANTS
  p1 = p1
  p2 = p2
  p3 = p3
  t1 = t1
  t2 = t2
  None = None
  Payload <- TwoPayloads
  Task <- MCTask
  NumEndpoints = 1
  MaxInterrupts = 0
SPECIFICATION Spec
INVARIANT OnChainStaysPinned
