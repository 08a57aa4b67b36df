CONSTANTS
  i1 = i1
  i2 = i2
  i3 = i3
  None = None
  Issue <- ThreeIssues
  NumInstances = 2
  MaxCrashes = 1
  MaxInterrupts = 1
SPECIFICATION FairSpec
CONSTRAINT Scope
INVARIANTS
  PinsExplained
  ChainOrder
PROPERTIES
  IssuesSettle
  KeepsContracts
