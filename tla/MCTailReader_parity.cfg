SPECIFICATION Spec
CONSTANTS
  Framing = "inventory"
  Cap = 4
  HeaderLen = 1
  Bytes = {"h", "n", "l", "t"}
  Writers = {"replace", "truncate"}
  MaxLen = 6
  MaxOpen = 0
  MaxGen = 2
  MaxFault = 0
  MaxToggle = 0
  OpenAtLineEnd = TRUE
  IdentityMayFail = FALSE
INVARIANTS
  TailMatchesOpen
  TailIsLossless
  PendingIsBounded
CHECK_DEADLOCK FALSE
