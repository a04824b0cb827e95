\* A request that may replace a monitor, and two controllers that may both be in one of its phases.
SPECIFICATION Spec
CONSTANTS
  Activation = {a1, a2}
  Deployed = {a1}
  Controller = {c1, c2}
  NoActivation = NoActivation
  NoController = NoController
  Reading = {r1}
  Requests <- One
  Capacity = 1
  MaxFaults = 1
\* Every request may have ended, with nothing left to do.
CHECK_DEADLOCK FALSE
SYMMETRY Symmetry
INVARIANTS EndedLeavesNothing
PROPERTIES PhasesForward SweepSparesPreflight
