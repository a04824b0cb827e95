\* A request that may replace a monitor, under fair scheduling.
SPECIFICATION FairSpec
CONSTANTS
  Activation = {a1, a2}
  Deployed = {a1}
  Controller = {c1}
  NoActivation = NoActivation
  NoController = NoController
  Reading = {r1}
  Requests <- One
  Capacity = 1
  MaxFaults = 1
\* Every request may have ended, with nothing left to do.
CHECK_DEADLOCK FALSE
PROPERTIES ActivationEnds PreflightReaped
