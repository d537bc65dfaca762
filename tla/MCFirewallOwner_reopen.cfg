\* The source is opened twice while commands of either session are under way, and
\* emptied in place; its identity is sometimes unknown.
SPECIFICATION Spec
CONSTANTS
  MaxEpoch = 1
  MaxSession = 2
  MaxLen = 2
  MaxGen = 2
  Chunk = 1
  MaxFault = 1
  Writers <- TruncatingWriters
  IdentityMayFail = TRUE
  LaunchMayFail = TRUE
INVARIANTS
  ActiveWatchIsTailed
PROPERTIES
  OwedResetComesFirst
  RevocationIsFinal
\* The opens are used up and the last one found no firewall log.
CHECK_DEADLOCK FALSE
