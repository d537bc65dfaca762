\* Rows of two opens, a rotation and a failed emission while the tab stays in view.
SPECIFICATION WatchSpec
CONSTANTS
  MaxEpoch = 1
  MaxSession = 2
  MaxLen = 2
  MaxGen = 2
  Chunk = 1
  MaxFault = 1
  Writers <- ReplacingWriters
  IdentityMayFail = FALSE
  LaunchMayFail = FALSE
  InOrder = TRUE
  MaxLoad = 1
  MaxToggle = 0
  Tabs = {}
INVARIANTS
  WatchIsHonoured
  ViewIsCheckpoint
  ViewIsFaithful
\* The user and the writers may all stop.
CHECK_DEADLOCK FALSE
