CONSTANTS
  Branches <- MCBranches
  Factory = "release"
  MaxCommits = 1
  None = None
  Partial = Partial
  Os <- MCOs
  MaxEdits = 1
  MaxMishaps = 1
  MaxSignals = 2
SPECIFICATION FairSpec
CHECK_DEADLOCK FALSE
INVARIANTS
  ReadyIsWhole
  SystemReady
  HeardBeforeSleep
PROPERTIES
  BuiltOnBase
  ImplementsInstalls
  NewestOffered
