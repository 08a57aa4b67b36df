CONSTANTS
  p1 = p1
  p2 = p2
  p3 = p3
  t1 = t1
  t2 = t2
  None = None
  Payload <- ThreePayloads
  Task <- MCTask
  NumEndpoints = 2
  MaxInterrupts = 1
SPECIFICATION FairSpec
CONSTRAINT Scope
INVARIANTS
  SoleWorker
  NoStrandedPayload
  FifoOnce
  OneSendAtATime
  EndpointCoverage
  UnpinOnlyAfterGivingUp
PROPERTIES
  ImplementsDelivery
