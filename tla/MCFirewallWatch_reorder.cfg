\* Commands overtake each other while the user changes tabs and refreshes.
SPECIFICATION WatchSpec
CONSTANTS
  MaxEpoch = 2
  MaxSession = 3
  MaxLen = 1
  MaxGen = 1
  Chunk = 1
  MaxFault = 1
  Writers <- GrowingWriters
  IdentityMayFail = FALSE
  LaunchMayFail = TRUE
  InOrder = FALSE
  MaxLoad = 2
  MaxToggle = 0
  Tabs = {"cached", "load"}
INVARIANTS
  NoOrphanWatch
\* The user and the writers may all stop.
CHECK_DEADLOCK FALSE
