-------------------------- MODULE MCRadarLifecycle --------------------------
EXTENDS RadarLifecycle, TLC

AllOverlap == Monitor \X Monitor
Symmetry == Permutations(Agent) \cup Permutations(Monitor)
=============================================================================
