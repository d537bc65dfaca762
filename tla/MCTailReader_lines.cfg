SPECIFICATION FairSpec
CONSTANTS
  Framing = "line"
  Cap = 20
  HeaderLen = 1
  Bytes = {"x", "n"}
  Writers = {"replace", "truncate"}
  MaxLen = 5
  MaxOpen = 1
  MaxGen = 3
  MaxFault = 1
  MaxToggle = 2
  OpenAtLineEnd = TRUE
  IdentityMayFail = FALSE
INVARIANTS
  TailMatchesOpen
PROPERTIES
  ObservedResetIsDelivered
  TailCatchesUp
CHECK_DEADLOCK FALSE
