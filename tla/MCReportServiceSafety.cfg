CONSTANTS
  r1 = r1
  r2 = r2
  Report <- TwoReports
  WithIssue <- FirstHasIssue
  Saved = {}
  NumInstances = 3
  MaxStuck = 1
  MaxCrashes = 1
  MaxLogFiles = 3
SPECIFICATION Spec
CONSTRAINT SafetyScope
INVARIANTS
  NoOrphanDirs
  OutcomeIsTruthful
  WholeReport
  PinsAccounted
