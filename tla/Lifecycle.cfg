\* One monitor, two concurrent tasks of TACTIC, two faults.
SPECIFICATION Spec
CONSTANTS
  Monitor = {m1}
  Agent = {a1, a2}
  NoMonitor = NoMonitor
  Overlap <- AllOverlap
  MaxWorkloads = 2
  MaxVersion = 2
  MaxFaults = 2
  MaxExternal = 0
SYMMETRY Symmetry
\* Once every run has ended and every service is gone nothing is left to do.
CHECK_DEADLOCK FALSE
INVARIANTS TypeOK LifecycleInvariant
PROPERTIES NoRevival SweepSparesRunning NoFailureOverHeartbeat
