\* The log is rotated by replacement.
SPECIFICATION Spec
CONSTANTS
  MaxEpoch = 2
  MaxSession = 1
  MaxLen = 2
  MaxGen = 2
  Chunk = 1
  MaxFault = 1
  Writers <- RotatingWriters
  IdentityMayFail = FALSE
  LaunchMayFail = TRUE
INVARIANTS
  TypeOK
  StreamIsCoherent
  SnapshotParity
  FenceIsExact
PROPERTIES
  IdsNeverReused
