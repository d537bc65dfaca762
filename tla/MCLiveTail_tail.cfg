\* Two channels, a second start, and a load, a clear or a lost batch.
SPECIFICATION Spec
CONSTANTS
  Channels = {c1, c2}
  MaxTail = 2
  MaxBatch = 2
  MaxTurn = 1
  Early = FALSE
SYMMETRY Anonymous
INVARIANTS
  TailTypeOK
  NoOrphanTail
  GapsAreReal
  CallsGoOn
PROPERTIES
  StopAccountsForAll
\* The starts are used up.
CHECK_DEADLOCK FALSE
