\* Two monitors on the same readings.
SPECIFICATION Spec
CONSTANTS
  Monitor = {m1, m2}
  Agent = {a1, a2}
  NoMonitor = NoMonitor
  Overlap <- AllOverlap
  MaxWorkloads = 1
  MaxVersion = 1
  MaxFaults = 0
  MaxExternal = 0
SYMMETRY Symmetry
\* Once every run has ended and every service is gone nothing is left to do.
CHECK_DEADLOCK FALSE
INVARIANTS ClaimCoversWorker ExclusiveClaims
PROPERTIES RefinesClaims
