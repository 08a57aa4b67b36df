CONSTANTS
  r1 = r1
  r2 = r2
  Report <- TwoReports
  WithIssue <- FirstHasIssue
  Saved = {}
  NumInstances = 2
  MaxStuck = 1
  MaxCrashes = 1
  MaxLogFiles = 1
SPECIFICATION FairSpec
CONSTRAINT LiveScope
PROPERTIES
  SetupEnds
  ImplementsIntake
