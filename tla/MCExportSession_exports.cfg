\* Exports of one file, a page load, an expiry and a failing file operation.
SPECIFICATION FairSpec
CONSTANTS
  Exports = {"a", "b"}
  Destinations = {"events.csv"}
  DestOf <- OneFile
  MaxSessions = 2
  NChunks = 2
  MaxFault = 1
  MaxReload = 1
  None = None
INVARIANTS
  DestinationIsExclusive
  LateCancelIsHonoured
PROPERTIES
  AtomicExportSpec
  ExportsEnd
\* Every export may have ended.
CHECK_DEADLOCK FALSE
