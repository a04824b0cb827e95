\* One task at a time, with crashes, timeouts and failed calls.
SPECIFICATION FairSpec
CONSTANTS
  Monitor = {m1}
  Agent = {a1}
  NoMonitor = NoMonitor
  Overlap <- AllOverlap
  MaxWorkloads = 2
  MaxVersion = 2
  MaxFaults = 2
  MaxExternal = 1
\* Once every run has ended and every service is gone nothing is left to do.
CHECK_DEADLOCK FALSE
PROPERTIES StopAwaitsTask ClaimsReleased OrphanRemoved
