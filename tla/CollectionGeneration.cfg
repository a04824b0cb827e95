SPECIFICATION Spec
CONSTANTS
  Proc = {p1}
  NoProc = NoProc
  Catalogue = {s1, s2, Nothing}
  Nothing = Nothing
  Initial = {s1}
  Reverts = TRUE
  MaxRevision = 3
  MaxFaults = 0
PROPERTIES
  IngressAwaitsListener
CHECK_DEADLOCK FALSE
