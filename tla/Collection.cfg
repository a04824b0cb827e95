SPECIFICATION FairSpec
CONSTANTS
  Proc = {p1, p2}
  NoProc = NoProc
  Catalogue = {s1, s2, Nothing}
  Nothing = Nothing
  Initial = {s1, Nothing}
  Reverts = FALSE
  MaxRevision = 2
  MaxFaults = 1
INVARIANTS
  CollectionInvariant
PROPERTIES
  NoStaleEffect
  RevisionApplied
CHECK_DEADLOCK FALSE
