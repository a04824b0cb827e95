\* Two runs and two workers, one of which may crash, stop, or lose a reply or its beat.
SPECIFICATION FairSpec
CONSTANTS
  Run = {1, 2}
  Dataset = {d1}
  Worker = {w1, w2}
  NoDataset = NoDataset
  NoWorker = NoWorker
  Points = 2
  MaxActive = 2
  MaxFaults = 2
INVARIANTS QueueInvariant
PROPERTIES RefinesOutcomes RunsEnd
\* Every run may have ended.
CHECK_DEADLOCK FALSE
