\* Two live sessions, and a lost update or a file imported or exported over them, with fair threads
\* and a fair poll.
SPECIFICATION FairWatchSpec
CONSTANTS
  Sessions = {"s1", "s2"}
  MaxUpdate = 0
  MaxMishap = 1
  None = None
INVARIANTS
  WatchTypeOK
  LiveIsKnown
  StartIsNotRefused
PROPERTIES
  ViewOnlyAdvances
  StartAndStopSettle
\* The sessions and the mishaps are used up.
CHECK_DEADLOCK FALSE
