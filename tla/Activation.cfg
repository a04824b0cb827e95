\* Two requests, for the same reading or not, the later of which may replace the first.
SPECIFICATION Spec
CONSTANTS
  Activation = {a1, a2}
  Deployed = {}
  Controller = {c1}
  NoActivation = NoActivation
  NoController = NoController
  Reading = {r1, r2}
  Requests <- One
  Capacity = 1
  MaxFaults = 1
\* Every request may have ended, with nothing left to do.
CHECK_DEADLOCK FALSE
SYMMETRY Symmetry
INVARIANTS HandOverInvariant
PROPERTIES CancelSparesPredecessor RefinesClaims
