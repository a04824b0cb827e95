--------------------------- MODULE TelemetryWriter ---------------------------
(***************************************************************************)
(* The database writer of the collector: a bounded pending batch, one      *)
(* batch that the loop owns, retries that never give a batch up, and rows  *)
(* that the database rejects, isolated one by one.  The fence in front of  *)
(* a write is the predicate `owned' (see Collection).                      *)
(***************************************************************************)
EXTENDS Integers, Sequences, FiniteSets, Functions

CONSTANTS Record,      \* rows that may be written, told apart by their key
          BatchSize, MaxAttempts, MaxTroubles

WriterAssumption ==
  BatchSize \in Nat \ {0} /\ MaxAttempts \in Nat \ {0} /\ MaxTroubles \in Nat

VARIABLES
  bad,        \* rows the database rejects for what they contain
  offered,    \* rows write_record accepted
  pending,    \* pending_batch
  batch,      \* the one in processing_batches
  isolate,    \* its isolate_records
  attempt,    \* of _process_batch_with_retry
  wloop,      \* where _writer_loop is
  shut,       \* _shutdown_event
  owned,      \* the ownership lease is held
  draining,   \* drain(), awaited by a reconfiguration
  stored, rejected,
  troubles

vars == <<bad, offered, pending, batch, isolate, attempt, wloop, shut, owned, draining,
          stored, rejected, troubles>>

\* "ended" is a loop that drained, "cancelled" one that was not allowed to.
WriterTypeOK ==
  /\ bad \subseteq Record /\ offered \subseteq Record
  /\ stored \subseteq Record /\ rejected \subseteq Record
  /\ pending \in Seq(Record) /\ batch \in Seq(Record) /\ Len(pending) <= BatchSize /\ Len(batch) <= BatchSize
  /\ isolate \in BOOLEAN /\ shut \in BOOLEAN /\ owned \in BOOLEAN
  /\ attempt \in 0 .. MaxAttempts - 1
  /\ wloop \in {"wait", "try", "retained", "ended", "cancelled"}
  /\ draining \in {"no", "waiting", "failed"}
  /\ troubles \in 0 .. MaxTroubles

Init ==
  /\ bad \in SUBSET Record
  /\ offered = {} /\ stored = {} /\ rejected = {}
  /\ pending = <<>> /\ batch = <<>>
  /\ isolate = FALSE /\ attempt = 0 /\ wloop = "wait"
  /\ shut = FALSE /\ owned = TRUE /\ draining = "no" /\ troubles = 0

Trouble == troubles < MaxTroubles /\ troubles' = troubles + 1
Running == wloop \in {"wait", "try", "retained"}

\* Mutant: a record is taken in while the batch of its size is full.
RoomAnyway == Len(pending) <= BatchSize
\* What write_record waits for.
Room == Len(pending) < BatchSize

WriteRecord(r) ==
  /\ r \notin offered
  /\ ~shut /\ Room
  /\ offered' = offered \cup {r}
  /\ pending' = Append(pending, r)
  /\ UNCHANGED <<bad, batch, isolate, attempt, wloop, shut, owned, draining, stored,
                 rejected, troubles>>

\* _trigger_batch_processing: the batch that is retained, or else the pending one.
Trigger ==
  /\ \/ /\ wloop = "retained"
        /\ UNCHANGED <<batch, pending, isolate>>
     \/ /\ wloop = "wait" /\ pending # <<>>
        /\ batch' = pending /\ pending' = <<>> /\ isolate' = FALSE
  /\ wloop' = "try" /\ attempt' = 0
  /\ UNCHANGED <<bad, offered, shut, owned, draining, stored, rejected, troubles>>

LoopEnds ==
  /\ wloop = "wait" /\ shut /\ pending = <<>>
  /\ wloop' = "ended"
  /\ UNCHANGED <<bad, offered, pending, batch, isolate, attempt, shut, owned, draining,
                 stored, rejected, troubles>>

-----------------------------------------------------------------------------
(* _persist_owned_batch and _process_batch.                                *)

\* The rows of one INSERT, whose conflicts do nothing.
Rows == IF isolate THEN {Head(batch)} ELSE Range(batch)

Resolve ==
  LET rest == IF isolate THEN Tail(batch) ELSE <<>> IN
  batch' = rest /\ wloop' = IF rest = <<>> THEN "wait" ELSE "try"

\* Mutant: the retries are counted, and the batch is dropped after the last.
NextAttemptDrops ==
  IF attempt + 1 < MaxAttempts THEN attempt' = attempt + 1 /\ UNCHANGED <<wloop, batch>>
                               ELSE wloop' = "wait" /\ batch' = <<>> /\ UNCHANGED attempt
\* A batch whose attempts are used up is retained; its rows stay where they are.
NextAttempt ==
  IF attempt + 1 < MaxAttempts THEN attempt' = attempt + 1 /\ UNCHANGED <<wloop, batch>>
                               ELSE wloop' = "retained" /\ UNCHANGED <<attempt, batch>>

Insert ==
  /\ wloop = "try" /\ owned /\ Rows \cap bad = {}
  /\ stored' = stored \cup Rows
  /\ Resolve
  /\ UNCHANGED <<bad, offered, pending, isolate, attempt, shut, owned, draining, rejected,
                 troubles>>

\* Mutant: a batch with a row that is rejected is rejected as a whole.
RejectedWhole == Rows
\* Only a row that stands alone is known to be the one.
RejectedRow == IF isolate THEN Rows ELSE {}

\* PermanentRecordError
Reject ==
  /\ wloop = "try" /\ owned /\ Rows \cap bad # {}
  /\ rejected' = rejected \cup RejectedRow
  /\ isolate' = TRUE
  /\ IF isolate THEN Resolve ELSE UNCHANGED <<batch, wloop>>
  /\ UNCHANGED <<bad, offered, pending, attempt, shut, owned, draining, stored, troubles>>

\* An error that is not the row's, the fence's included, or a commit whose reply is lost.
InsertFails ==
  /\ wloop = "try"
  /\ IF owned THEN Trouble ELSE UNCHANGED troubles
  /\ \/ UNCHANGED stored
     \/ owned /\ Rows \cap bad = {} /\ stored' = stored \cup Rows
  /\ NextAttempt
  /\ UNCHANGED <<bad, offered, pending, isolate, shut, owned, draining, rejected>>

-----------------------------------------------------------------------------
(* Drain, shutdown and the loss of the lease.                              *)

Drain ==
  /\ draining = "no"
  /\ draining' = "waiting"
  /\ UNCHANGED <<bad, offered, pending, batch, isolate, attempt, wloop, shut, owned, stored,
                 rejected, troubles>>

DrainReturns ==
  /\ draining = "waiting"
  /\ \/ pending = <<>> /\ batch = <<>> /\ draining' = "no"
     \/ pending \o batch # <<>> /\ ~Running /\ draining' = "failed"
  /\ UNCHANGED <<bad, offered, pending, batch, isolate, attempt, wloop, shut, owned, stored,
                 rejected, troubles>>

\* stop(drain=True)
Stop ==
  /\ Running /\ ~shut
  /\ shut' = TRUE
  /\ UNCHANGED <<bad, offered, pending, batch, isolate, attempt, wloop, owned, draining,
                 stored, rejected, troubles>>

LeaseLost ==
  /\ owned
  /\ Trouble
  /\ owned' = FALSE
  /\ UNCHANGED <<bad, offered, pending, batch, isolate, attempt, wloop, shut, draining,
                 stored, rejected>>

\* stop(drain=False) without the lease; stop(drain=True) after its timeout.
Cancel ==
  /\ Running
  /\ IF ~owned THEN UNCHANGED troubles ELSE shut /\ Trouble
  /\ wloop' = "cancelled" /\ shut' = TRUE
  /\ UNCHANGED <<bad, offered, pending, batch, isolate, attempt, owned, draining, stored,
                 rejected>>

Work == Trigger \/ LoopEnds \/ Insert \/ Reject \/ DrainReturns

Next ==
  \/ Work \/ InsertFails \/ Drain \/ Stop \/ LeaseLost \/ Cancel
  \/ \E r \in Record : WriteRecord(r)

Spec == Init /\ [][Next]_vars /\ WF_vars(Work) /\ WF_vars(~owned /\ Cancel)

-----------------------------------------------------------------------------
(* Every row that was accepted is held by one batch, stored or rejected;   *)
(* a row is rejected for itself and never for its neighbours, and one that *)
(* is held and stored at once waits for an answer that was lost.           *)
Accounted ==
  LET held == Range(pending) \cup Range(batch) IN
  /\ offered = held \cup stored \cup rejected
  /\ Range(pending) \cap (Range(batch) \cup stored \cup rejected) = {}
  /\ Len(pending \o batch) = Cardinality(held)
  /\ rejected \subseteq bad /\ stored \cap bad = {}
  /\ rejected \cap held = {}

(* What the writer holds is bounded by queue_capacity, and a loop that     *)
(* ended left nothing behind.                                              *)
Bounded ==
  /\ Len(pending \o batch) <= 2 * BatchSize
  /\ wloop = "ended" => pending = <<>> /\ batch = <<>>

(* A reconfiguration that waits for the writer gets an answer.             *)
DrainEnds == draining = "waiting" ~> draining # "waiting"
=============================================================================
