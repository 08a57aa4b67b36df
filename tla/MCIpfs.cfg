CONSTANTS
  f1 = f1
  f2 = f2
  h1 = h1
  h2 = h2
  h3 = h3
  File <- TwoFiles
  Hash <- ThreeHashes
  HashOf <- MCHashOf
  MaxNamed = 1
  MaxCalls = 2
SPECIFICATION Spec
INVARIANTS
  TypeOK
  UnpinAddsUp
  FailuresTold
