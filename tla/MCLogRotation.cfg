CONSTANTS
  l1 = l1
  l2 = l2
  l3 = l3
  l4 = l4
  None = None
  Line <- FourLines
  MaxBytes = 4
  MaxLine = 5
  NumHandlers = 2
SPECIFICATION Spec
SYMMETRY Symmetry
INVARIANTS
  KeptIsSuffix
  SizeBound
  Retention
  NothingLeftBehind
