\* Two workers of one monitor alive at the same time.
SPECIFICATION Spec
CONSTANTS
  Worker = {w1, w2}
  NoWorker = NoWorker
  QueueLimit = 1
  ChunkSize = 1
  MaxResults = 2
  MaxSaves = 1
SYMMETRY Symmetry
\* Every worker ends some day, and a worker is started once.
CHECK_DEADLOCK FALSE
INVARIANTS RecordInvariant
PROPERTIES RefinesRunRecord
