CONSTANTS
  r1 = r1
  r2 = r2
  Report <- OneReport
  WithIssue <- FirstHasIssue
  Saved = {"traces"}
  NumInstances = 2
  MaxStuck = 0
  MaxCrashes = 0
  MaxLogFiles = 1
SPECIFICATION Spec
INVARIANT ArchiveComplete
