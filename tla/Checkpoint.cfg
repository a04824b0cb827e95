\* One worker in every detail: batches, retries in chunks, interrupted snapshots.
SPECIFICATION FairSpec
CONSTANTS
  Worker = {w1}
  NoWorker = NoWorker
  QueueLimit = 2
  ChunkSize = 1
  MaxResults = 3
  MaxSaves = 2
\* Every worker ends some day, and a worker is started once.
CHECK_DEADLOCK FALSE
INVARIANTS WriterInvariant
PROPERTIES UncertainNeverSaved NoSelfFence FailureStays StopsInTheEnd QuarantineEnds
