\* Two sessions under every order of start, stop and shutdown.
SPECIFICATION FairEspSpec
CONSTANTS
  Sessions = {"s1", "s2"}
  MaxUpdate = 1
  MaxFault = 1
  MaxStop = 2
  None = None
INVARIANTS
  EspTypeOK
  OneWorker
  ReservationIsKept
  StopIsFinal
PROPERTIES
  ServiceSpec
  CommandsReturn
\* The sessions are used up.
CHECK_DEADLOCK FALSE
