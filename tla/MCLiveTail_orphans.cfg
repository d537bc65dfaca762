\* The tail is stopped before its start is through.
SPECIFICATION Spec
CONSTANTS
  Channels = {c1, c2}
  MaxTail = 1
  MaxBatch = 1
  MaxTurn = 0
  Early = TRUE
SYMMETRY Anonymous
INVARIANTS
  NoOrphanTail
\* The starts are used up.
CHECK_DEADLOCK FALSE
