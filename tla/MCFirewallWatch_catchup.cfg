\* Every line reaches the view of a tab that stays open, or is lost by a failed emission.
SPECIFICATION FairWatchSpec
CONSTANTS
  MaxEpoch = 1
  MaxSession = 1
  MaxLen = 3
  MaxGen = 2
  Chunk = 1
  MaxFault = 1
  Writers <- ReplacingWriters
  IdentityMayFail = FALSE
  LaunchMayFail = FALSE
  InOrder = TRUE
  MaxLoad = 0
  MaxToggle = 2
  Tabs = {}
INVARIANTS
  PauseIsHonoured
PROPERTIES
  ViewCatchesUp
\* The user and the writers may all stop.
CHECK_DEADLOCK FALSE
