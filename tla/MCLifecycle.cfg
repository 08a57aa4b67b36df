CONSTANTS
  d1 = d1
  d2 = d2
  None = None
  Flow <- TwoFlows
  Form = {"x", "y"}
  MaxCrashes = 1
SPECIFICATION FairSpec
INVARIANTS
  OneInstance
  EntryHasItsCreds
  RunsForItsEntry
  NothingLeftOver
PROPERTY JobsEnd
