--------------------------- MODULE CheckpointWriter ---------------------------
(***************************************************************************)
(* The durable side of a RADAR monitor: its workers keep a detector state, *)
(* queue the results they compute, and store both in PostgreSQL.  Swarm    *)
(* may start a replacement while an older worker still runs, so several    *)
(* workers of one monitor can be alive; the signature of the one snapshot  *)
(* row decides which of them may write.                                    *)
(*                                                                         *)
(* In a worker three tasks interleave at every await: the holder of the    *)
(* processing lock (a message, the checkpoint loop or the shutdown), the   *)
(* writer loop and the heartbeat.  Every transaction that locks the        *)
(* snapshot row excludes the others, so at most one of them is under way   *)
(* in the database; its client may be gone by the time it ends.            *)
(***************************************************************************)
EXTENDS Naturals, Sequences, FiniteSets

CONSTANTS
  Worker,      \* worker processes, each a start of the container
  NoWorker,
  QueueLimit,  \* max_queue_size
  ChunkSize,   \* results per retry transaction (10)
  MaxResults,  \* bound: results behind a detector state
  MaxSaves     \* bound: snapshots of a worker before its final one

ASSUME ConstantsAssumption ==
  /\ NoWorker \notin Worker /\ "failed" \notin Worker \cup {NoWorker}
  /\ QueueLimit \in Nat \ {0}
  /\ ChunkSize \in Nat \ {0}
  /\ MaxResults \in Nat
  /\ MaxSaves \in Nat

VARIABLES
  saved,     \* radar_runtime_checkpoints: the row of the monitor
  evidence,  \* monitoring_evidence: results <<position, worker>>
  outcome,   \* monitoring_pipeline_runs: "open" or "failed"
  shown,     \* services.operational_status: its reporter, or "failed"
  txn,       \* the transaction that holds the lock of the snapshot row
  ws         \* the state of each worker process

vars == <<saved, evidence, outcome, shown, txn, ws>>

-----------------------------------------------------------------------------
\* A signature is unique: it covers the time and the state that was saved.
Token == (Worker \cup {NoWorker}) \X Nat
NoToken == <<NoWorker, 0>>

\* "past" is a history variable: the workers that saved before the last one.
Saved == [token : Token, hist : Seq(Worker), past : SUBSET Worker]

Position == Nat \ {0}

Kind == {"none", "save", "rows", "fail"}
Txn == [by : Worker \cup {NoWorker}, kind : Kind, token : Token,
        hist : Seq(Worker), rows : SUBSET Position]
NoTxn == [by |-> NoWorker, kind |-> "none", token |-> NoToken, hist |-> <<>>,
          rows |-> {}]

\* A batch under way: how many results count as in flight, those still to be
\* written and those whose retries are exhausted.
Flight == [count : Nat, todo : Seq(Position), kept : Seq(Position)]
NoFlight == [count |-> 0, todo |-> <<>>, kept |-> <<>>]

Phase == {"new", "admitted", "starting", "running", "stopping", "draining",
          "drained", "off"}
Committing == {"begin", "saving", "publish", "undo"}
Main == {"idle", "write", "due", "await", "fail", "failing"} \cup Committing
Loop == {"idle", "rows", "retry", "writing", "off"}
Beat == {"idle", "checked", "updated"}

WorkerState ==
  [phase     : Phase,
   hist      : Seq(Worker),    \* who computed each result of the detector
   uncertain : BOOLEAN,        \* _fatal_error is a FatalExecutionError
   queue     : Seq(Position),  \* write_queue
   flight    : Flight,
   sig       : Token,          \* _checkpoint_signature
   pend      : Token,          \* _pending_checkpoint_signature
   saves     : Nat,            \* snapshots frozen so far
   fenced    : BOOLEAN,        \* _ownership_error is set
   closed    : BOOLEAN,        \* the writer's _shutdown_event is set
   main      : Main,           \* holder of the processing lock
   loop      : Loop,           \* writer loop
   beat      : Beat]           \* heartbeat

NewWorker ==
  [phase |-> "new", hist |-> <<>>, uncertain |-> FALSE, queue |-> <<>>,
   flight |-> NoFlight, sig |-> NoToken, pend |-> NoToken, saves |-> 0,
   fenced |-> FALSE, closed |-> FALSE, main |-> "idle", loop |-> "idle",
   beat |-> "idle"]

TypeOK ==
  /\ saved \in Saved
  /\ evidence \in SUBSET (Position \X Worker)
  /\ outcome \in {"open", "failed"}
  /\ shown \in Worker \cup {NoWorker, "failed"}
  /\ txn \in Txn
  /\ ws \in [Worker -> WorkerState]

Init ==
  /\ saved = [token |-> NoToken, hist |-> <<>>, past |-> {}]
  /\ evidence = {}
  /\ outcome = "open"
  /\ shown = NoWorker
  /\ txn = NoTxn
  /\ ws = [w \in Worker |-> NewWorker]

db == <<saved, evidence, outcome, shown, txn>>

Alive(w) == ws[w].phase \notin {"new", "off"}
Become(w, s) == ws' = [ws EXCEPT ![w] = s]
Positions(q) == {q[i] : i \in DOMAIN q}

\* The token of the snapshot that is being saved.
NextToken(w) == <<w, ws[w].saves>>

RowFree == txn = NoTxn
Owns(w) == saved.token = ws[w].sig

\* Mutant: the heartbeat accepts only the published signature.
PublishedOnly(w) == saved.token = ws[w].sig
OwnsForHealth(w) == saved.token \in {ws[w].sig, ws[w].pend}

\* _flush_lock, _checkpoint_token_lock, and the lock of the services row.
FlushLockFree(w) == ws[w].main \notin Committing \cup {"failing"} /\ ws[w].loop \in {"idle", "off"}
TokenLockFree(w) == ws[w].beat = "idle"
ServiceRowFree == \A v \in Worker : ws[v].beat # "updated"

-----------------------------------------------------------------------------
(* What happens to the state of a worker.                                  *)

\* _lose_checkpoint_ownership
Fenced(s) == [s EXCEPT !.fenced = TRUE, !.closed = TRUE]

\* An error or a signal sets the service's shutdown event; stop() has two
\* parts: the final snapshot, then the writer is stopped and flushes.
Stopping(s) ==
  IF s.phase = "stopping"
  THEN [s EXCEPT !.main = "idle", !.phase = "draining", !.closed = TRUE]
  ELSE [s EXCEPT !.main = "idle", !.phase = "stopping"]

\* Mutant: a failed batch is dropped.
Discarded(s) == [s EXCEPT !.flight = NoFlight]

\* _requeue_results: what was not stored goes back in front, and nothing is in
\* flight any more.
Requeued(s) ==
  [s EXCEPT !.queue = s.flight.kept \o s.flight.todo \o @, !.flight = NoFlight]

\* A flush is over: drained means that the flush of the shutdown was tried.
FlushOver(s, loop) ==
  [Requeued(s) EXCEPT !.loop = loop,
                      !.phase = IF @ = "draining" THEN "drained" ELSE @]

\* _writer_loop ends: whoever waits for room in the queue is woken up.
LoopDies(s) == [FlushOver(s, "off") EXCEPT !.closed = TRUE]

\* Mutant: the failure of a run is reported once.
ReportedOnce(s) ==
  CASE s.loop = "writing" -> [s EXCEPT !.loop = "retry"]
    [] s.main = "saving"  -> [s EXCEPT !.main = "undo"]
    [] s.main = "failing" -> s

\* A batch whose transaction failed or timed out is retried, a snapshot
\* undone, and the failure of the run reported again.
ReplyLost(s) ==
  CASE s.loop = "writing" -> [s EXCEPT !.loop = "retry"]
    [] s.main = "saving"  -> [s EXCEPT !.main = "undo"]
    [] s.main = "failing" -> [s EXCEPT !.main = "fail"]

Shorter(a, b) == IF a < b THEN a ELSE b
ChunkLength(s) == Shorter(ChunkSize, Len(s.flight.todo))
Chunk(s) == SubSeq(s.flight.todo, 1, ChunkLength(s))
Rest(s) == SubSeq(s.flight.todo, ChunkLength(s) + 1, Len(s.flight.todo))

\* The whole batch was stored, or its first chunk.
Written(s) ==
  IF Positions(s.flight.todo) \subseteq txn.rows
  THEN FlushOver([s EXCEPT !.flight.todo = <<>>], "idle")
  ELSE [s EXCEPT !.flight.todo = Rest(s), !.loop = "retry"]

ReplyArrives(s) ==
  CASE s.loop = "writing" /\ txn.kind = "rows" -> Written(s)
    [] s.main = "saving" /\ txn.kind = "save" -> [s EXCEPT !.main = "publish"]
    [] s.main = "failing" /\ txn.kind = "fail" -> Stopping(s)

\* The client of the transaction under way still waits for its reply.
Awaited ==
  /\ txn # NoTxn
  /\ \/ txn.kind = "rows" /\ ws[txn.by].loop = "writing"
     \/ txn.kind = "save" /\ ws[txn.by].main = "saving"
     \/ txn.kind = "fail" /\ ws[txn.by].main = "failing"

-----------------------------------------------------------------------------
(* The database ends the transaction that holds the snapshot row.          *)

\* The failure also needs the services row, which a heartbeat may hold.
CommitTxn ==
  LET w == txn.by IN
  /\ txn # NoTxn
  /\ txn.kind = "fail" => ServiceRowFree
  /\ evidence' = evidence \cup {<<p, w>> : p \in txn.rows}
  /\ saved' = IF txn.kind = "save"
              THEN [token |-> txn.token, hist |-> txn.hist,
                    past |-> saved.past \cup ({saved.token[1]} \ {w, NoWorker})]
              ELSE saved
  /\ outcome' = IF txn.kind = "fail" THEN "failed" ELSE outcome
  /\ shown' = IF txn.kind = "fail" THEN "failed" ELSE shown
  /\ txn' = NoTxn
  /\ ws' = IF Awaited THEN [ws EXCEPT ![w] = ReplyArrives(@)] ELSE ws

AbortTxn ==
  /\ txn # NoTxn
  /\ txn' = NoTxn
  /\ ws' = IF Awaited THEN [ws EXCEPT ![txn.by] = ReplyLost(@)] ELSE ws
  /\ UNCHANGED <<saved, evidence, outcome, shown>>

\* A connection is lost or a deadline passes while the reply is awaited: the
\* client goes on, and the transaction may still be committed.
LoseReply(w) ==
  /\ Awaited /\ txn.by = w
  /\ Become(w, ReplyLost(ws[w]))
  /\ UNCHANGED db

BeginTxn(w, kind, rows) ==
  /\ RowFree
  /\ txn' = [by |-> w, kind |-> kind, rows |-> rows,
             token |-> IF kind = "save" THEN ws[w].pend ELSE NoToken,
             hist |-> IF kind = "save" THEN ws[w].hist ELSE <<>>]
  /\ UNCHANGED <<saved, evidence, outcome, shown>>

-----------------------------------------------------------------------------
(* A worker starts: admission, then the last snapshot, then its own first. *)

Admit(w) ==
  /\ ws[w].phase = "new"
  /\ outcome = "open"
  /\ Become(w, [ws[w] EXCEPT !.phase = "admitted"])
  /\ UNCHANGED db

\* Freezing a snapshot makes its token.
Await(s) == [s EXCEPT !.main = "await", !.saves = @ + 1]

\* load_checkpoint reads the committed row without locking it.
Load(w) ==
  /\ ws[w].phase = "admitted"
  /\ Become(w, Await([ws[w] EXCEPT !.phase = "starting", !.hist = saved.hist,
                                   !.sig = saved.token]))
  /\ UNCHANGED db

-----------------------------------------------------------------------------
(* The holder of the processing lock.                                      *)

Ready(w) == ws[w].phase = "running" /\ ws[w].main = "idle"

\* _process_locked_message: an observation advances the detector and has a
\* result; a fenced worker stops instead.
Receive(w) ==
  /\ Ready(w)
  /\ \/ ws[w].fenced /\ Become(w, Stopping(ws[w]))
     \/ /\ ~ws[w].fenced
        /\ Len(ws[w].hist) < MaxResults
        /\ Become(w, [ws[w] EXCEPT !.hist = Append(@, w), !.main = "write"])
  /\ UNCHANGED db

\* The model fails after it may have changed: its state is uncertain.
Break(w) ==
  /\ Ready(w) \/ ws[w].main = "due"
  /\ ~ws[w].fenced
  /\ Become(w, [ws[w] EXCEPT !.uncertain = TRUE, !.main = "fail"])
  /\ UNCHANGED db

Room(w) == Len(ws[w].queue) + ws[w].flight.count < QueueLimit

LastResult(w) == Len(ws[w].hist)

\* write_result waits for room, or for the writer to be shut down.
WriteResult(w) ==
  /\ ws[w].main = "write"
  /\ \/ ws[w].closed /\ Become(w, Stopping(ws[w]))
     \/ /\ ~ws[w].closed /\ Room(w)
        /\ Become(w, [ws[w] EXCEPT !.queue = Append(@, LastResult(w)), !.main = "due"])
  /\ UNCHANGED db

\* _checkpoint_if_due, for a message or in _checkpoint_loop.
CheckpointIfDue(w) ==
  /\ Ready(w) \/ ws[w].main = "due"
  /\ \/ ws[w].fenced /\ Become(w, Stopping(ws[w]))
     \/ ~ws[w].fenced /\ ws[w].saves < MaxSaves /\ Become(w, Await(ws[w]))
     \/ ws[w].main = "due" /\ Become(w, [ws[w] EXCEPT !.main = "idle"])
  /\ UNCHANGED db

\* commit_checkpoint takes the flush lock, everything that is queued, and
\* publishes the pending token.
TakePending(w) ==
  /\ ws[w].main = "await"
  /\ FlushLockFree(w)
  /\ \/ ws[w].fenced /\ Become(w, Stopping(ws[w]))
     \/ /\ ~ws[w].fenced /\ TokenLockFree(w)
        /\ Become(w, [ws[w] EXCEPT
             !.main = "begin", !.pend = NextToken(w), !.queue = <<>>,
             !.flight = [count |-> Len(ws[w].queue), todo |-> ws[w].queue, kept |-> <<>>]])
  /\ UNCHANGED db

\* Mutant: the snapshot is committed without the evidence that is queued.
SaveAlone(w) == {}
PendingRows(w) == Positions(ws[w].flight.todo)

\* _replace_checkpoint: the row must still carry the signature this worker
\* loaded or saved last.
ReplaceCheckpoint(w) ==
  /\ ws[w].main = "begin"
  /\ RowFree
  /\ \/ /\ Owns(w)
        /\ BeginTxn(w, "save", PendingRows(w))
        /\ Become(w, [ws[w] EXCEPT !.main = "saving"])
     \/ /\ ~Owns(w)
        /\ Become(w, [Fenced(ws[w]) EXCEPT !.main = "undo"])
        /\ UNCHANGED db

Resumed(s) ==
  CASE s.phase = "starting" -> [s EXCEPT !.main = "idle", !.phase = "running"]
    [] s.phase = "running"  -> [s EXCEPT !.main = "idle"]
    [] s.phase = "stopping" -> Stopping(s)

Publish(w) ==
  /\ ws[w].main = "publish"
  /\ TokenLockFree(w)
  /\ Become(w, Resumed([ws[w] EXCEPT !.sig = ws[w].pend, !.pend = NoToken,
                                     !.flight = NoFlight]))
  /\ UNCHANGED db

\* The deadline of the checkpoint passes while it waits for a lock.
CheckpointTimesOut(w) ==
  /\ \/ /\ ws[w].main = "await"
        /\ Become(w, Stopping(ws[w]))
     \/ /\ ws[w].main \in {"begin", "publish"}
        /\ Become(w, [ws[w] EXCEPT !.main = "undo"])
  /\ UNCHANGED db

\* The failed commit puts its results back; the service stops.
Undo(w) ==
  /\ ws[w].main = "undo"
  /\ TokenLockFree(w)
  /\ Become(w, Stopping([Requeued(ws[w]) EXCEPT !.pend = NoToken]))
  /\ UNCHANGED db

\* _persist_execution_failure, until it is stored or another worker owns the
\* run; an explicit shutdown ends it as well.
FailPipelineRun(w) ==
  /\ ws[w].main = "fail"
  /\ FlushLockFree(w)
  /\ \/ ws[w].fenced /\ Become(w, Stopping(ws[w])) /\ UNCHANGED db
     \/ /\ ~ws[w].fenced /\ RowFree /\ Owns(w)
        /\ BeginTxn(w, "fail", {})
        /\ Become(w, [ws[w] EXCEPT !.main = "failing"])
     \/ /\ ~ws[w].fenced /\ RowFree /\ ~Owns(w)
        /\ Become(w, Stopping(Fenced(ws[w])))
        /\ UNCHANGED db

-----------------------------------------------------------------------------
(* The writer loop.                                                        *)

FlushBatch(w) ==
  /\ ws[w].phase \in {"starting", "running", "stopping", "draining", "drained"}
  /\ ws[w].loop = "idle" /\ FlushLockFree(w)
  /\ ws[w].queue # <<>>
  /\ Become(w, [ws[w] EXCEPT !.loop = "rows", !.queue = <<>>,
       !.flight = [count |-> Len(ws[w].queue), todo |-> ws[w].queue, kept |-> <<>>]])
  /\ UNCHANGED db

\* The first attempt writes the whole batch, a retry its next chunk.
Batch(w) == IF ws[w].loop = "rows" THEN ws[w].flight.todo ELSE Chunk(ws[w])

\* Mutant: the rows are written without a look at the snapshot row.
OwnershipAssumed(w) == TRUE
AssertOwnership(w) == Owns(w)

\* _assert_checkpoint_ownership, then the rows, in one transaction.  Losing
\* the ownership ends the loop.
WriteRows(w) ==
  /\ ws[w].loop \in {"rows", "retry"}
  /\ \/ ws[w].fenced /\ Become(w, LoopDies(ws[w])) /\ UNCHANGED db
     \/ /\ ~ws[w].fenced /\ RowFree /\ AssertOwnership(w)
        /\ BeginTxn(w, "rows", Positions(Batch(w)))
        /\ Become(w, [ws[w] EXCEPT !.loop = "writing"])
     \/ /\ ~ws[w].fenced /\ RowFree /\ ~AssertOwnership(w)
        /\ Become(w, LoopDies(Fenced(ws[w])))
        /\ UNCHANGED db

\* The retries of a chunk are exhausted, and the next one is tried.
RetryExhausted(w) ==
  LET s == [ws[w] EXCEPT !.flight.kept = @ \o Chunk(ws[w]), !.flight.todo = Rest(ws[w])]
  IN
  /\ ws[w].loop = "retry"
  /\ Become(w, IF Rest(ws[w]) = <<>> THEN FlushOver(s, "idle") ELSE s)
  /\ UNCHANGED db

-----------------------------------------------------------------------------
(* The heartbeat; it holds the token lock from start to end.               *)

\* The signature is read without a lock.
StartHeartbeat(w) ==
  /\ ws[w].phase = "running" /\ ~ws[w].uncertain /\ ~ws[w].fenced
  /\ ws[w].beat = "idle"
  /\ Become(w, IF OwnsForHealth(w) THEN [ws[w] EXCEPT !.beat = "checked"]
               ELSE Fenced(ws[w]))
  /\ UNCHANGED db

\* Mutant: the outcome of the run is not read again under the row's lock.
RunIgnored == TRUE
RunOpen == outcome = "open"

\* _can_publish_pipeline_status and HEARTBEAT_UPDATE.
UpdateStatus(w) ==
  /\ ws[w].beat = "checked"
  /\ ServiceRowFree
  /\ \/ ~RunOpen /\ Become(w, [ws[w] EXCEPT !.beat = "idle"])
     \/ RunOpen /\ OwnsForHealth(w) /\ Become(w, [ws[w] EXCEPT !.beat = "updated"])
     \/ RunOpen /\ ~OwnsForHealth(w) /\ Become(w, [Fenced(ws[w]) EXCEPT !.beat = "idle"])
  /\ UNCHANGED db

CommitStatus(w) ==
  /\ ws[w].beat = "updated"
  /\ shown' = w
  /\ Become(w, [ws[w] EXCEPT !.beat = "idle"])
  /\ UNCHANGED <<saved, evidence, outcome, txn>>

HeartbeatFails(w) ==
  /\ ws[w].beat # "idle"
  /\ Become(w, [ws[w] EXCEPT !.beat = "idle"])
  /\ UNCHANGED db

-----------------------------------------------------------------------------
(* A worker ends.                                                          *)

\* SIGTERM; the message under way is finished, a failure report given up.
Shutdown(w) ==
  /\ ws[w].phase = "running" /\ ws[w].main \in {"idle", "fail"}
  /\ Become(w, Stopping(ws[w]))
  /\ UNCHANGED db

\* Mutant: an uncertain state is saved when the worker stops.
MaySaveUncertain(w) == ~ws[w].fenced
MaySave(w) == ~ws[w].fenced /\ ~ws[w].uncertain

\* _stop_ingestion_and_checkpoint: the heartbeat ends first.
FinalCheckpoint(w) ==
  /\ ws[w].phase = "stopping" /\ ws[w].main = "idle" /\ ws[w].beat = "idle"
  /\ Become(w, IF MaySave(w) THEN Await(ws[w]) ELSE Stopping(ws[w]))
  /\ UNCHANGED db

\* Mutant: the worker waits until everything is stored.
ExitWhenFlushed(w) ==
  /\ ws[w].phase \in {"draining", "drained"} /\ ws[w].queue = <<>>
  /\ ws[w].loop \in {"idle", "off"}
  /\ Become(w, [NewWorker EXCEPT !.phase = "off"])
  /\ UNCHANGED db

\* The writer's last flush was tried, or there was nothing to flush.
Exit(w) ==
  /\ \/ ws[w].phase = "drained"
     \/ ws[w].phase = "draining" /\ (ws[w].queue = <<>> \/ ws[w].loop = "off")
  /\ ws[w].loop \in {"idle", "off"}
  /\ Become(w, [NewWorker EXCEPT !.phase = "off"])
  /\ UNCHANGED db

Crash(w) ==
  /\ Alive(w)
  /\ Become(w, [NewWorker EXCEPT !.phase = "off"])
  /\ UNCHANGED db

-----------------------------------------------------------------------------
\* Processing(w), Writing(w) and Reporting(w) are the three tasks of a worker.
Processing(w) ==
  \/ Load(w) \/ WriteResult(w) \/ CheckpointIfDue(w) \/ TakePending(w)
  \/ ReplaceCheckpoint(w) \/ Publish(w) \/ Undo(w) \/ FailPipelineRun(w)
  \/ FinalCheckpoint(w) \/ Exit(w)

Writing(w) == FlushBatch(w) \/ WriteRows(w)

Reporting(w) == UpdateStatus(w) \/ CommitStatus(w)

Environment(w) ==
  \/ Admit(w) \/ Receive(w) \/ Break(w) \/ StartHeartbeat(w) \/ Shutdown(w)

Fault(w) ==
  \/ LoseReply(w) \/ CheckpointTimesOut(w) \/ RetryExhausted(w)
  \/ HeartbeatFails(w) \/ Crash(w)

Next ==
  \/ CommitTxn \/ AbortTxn
  \/ \E w \in Worker :
       Processing(w) \/ Writing(w) \/ Reporting(w) \/ Environment(w) \/ Fault(w)

Spec == Init /\ [][Next]_vars

\* asyncio's locks and PostgreSQL's row locks are queues, so a task that waits
\* for one gets it; every transaction ends, and a worker whose transactions
\* are tried again and again has one committed.
Fairness ==
  /\ WF_vars(CommitTxn \/ AbortTxn)
  /\ \A w \in Worker :
       /\ SF_vars(Processing(w))
       /\ SF_vars(Writing(w))
       /\ SF_vars(Reporting(w))
       /\ SF_vars(CommitTxn /\ Awaited /\ txn.by = w)

FairSpec == Spec /\ Fairness

-----------------------------------------------------------------------------
(* Properties.                                                             *)

\* The evidence of every result behind the saved state is stored: a worker
\* that resumes from it leaves no gap ("Pending alarms and evidence commit in
\* the same transaction as the snapshot", commit_checkpoint).
SnapshotCovered ==
  \A i \in DOMAIN saved.hist : <<i, saved.hist[i]>> \in evidence

\* No result of a worker that still runs is forgotten: it is stored, queued,
\* being written, or about to be queued, through every failed transaction,
\* partial retry and interrupted checkpoint (_requeue_results).
NothingForgotten ==
  \A w \in Worker : ws[w].phase \in {"running", "stopping"} /\ ~ws[w].closed =>
    \A i \in DOMAIN ws[w].hist :
      \/ <<i, ws[w].hist[i]>> \in evidence
      \/ i \in Positions(ws[w].queue \o ws[w].flight.todo \o ws[w].flight.kept)
      \/ ws[w].main = "write" /\ i = Len(ws[w].hist)

\* A worker never holds more results than max_queue_size, however often a
\* batch is put back in front of the queue (write_result's wait).
QueueBounded ==
  \A w \in Worker :
    Len(ws[w].queue) + Len(ws[w].flight.todo) + Len(ws[w].flight.kept) <= QueueLimit

\* What a worker does in which phase, and that only a fenced one is closed before it
\* drains.
PhaseOf(w, s) ==
  /\ s.phase \in {"new", "admitted", "off"} => s = [NewWorker EXCEPT !.phase = s.phase]
  /\ s.main \in {"write", "due", "fail", "failing"} => s.phase = "running"
  /\ s.main \in Committing \cup {"await"} => s.phase \in {"starting", "running", "stopping"}
  /\ s.phase \in {"starting", "running", "stopping"} /\ s.closed => s.fenced
  /\ s.uncertain => \/ s.main \in {"fail", "failing"}
                    \/ s.main = "idle" /\ s.phase \in {"stopping", "draining", "drained"}
  /\ s.pend = IF s.main \in Committing THEN <<w, s.saves>> ELSE NoToken
Phases == \A w \in Worker : PhaseOf(w, ws[w])

HeldBy(s) ==
  Positions(s.queue) \cup Positions(s.flight.todo) \cup Positions(s.flight.kept)

\* Whoever holds the flush lock has the batch; the results in it are the worker's own,
\* of a detector it has saved.
FlightOf(w, s) ==
  /\ s.loop \in {"idle", "off"} /\ s.main \notin Committing => s.flight = NoFlight
  /\ s.main \in Committing \cup {"failing"} => s.loop \in {"idle", "off"}
  /\ s.main \in Committing => s.queue = <<>> /\ s.flight.kept = <<>>
  /\ Len(s.flight.todo) + Len(s.flight.kept) <= s.flight.count
  /\ Len(s.queue) + s.flight.count <= QueueLimit
  /\ \A i \in HeldBy(s) : i \in DOMAIN s.hist /\ s.hist[i] = w /\ s.sig[1] = w
  /\ s.phase = "running" => s.sig[1] = w
  /\ s.main = "write" => s.hist # <<>> /\ s.hist[Len(s.hist)] = w
Flights == \A w \in Worker : FlightOf(w, ws[w])

\* Results are accounted for also while a snapshot that a heartbeat has doomed is saved.
AccountOf(w, s, stored) ==
  /\ s.phase \in {"starting", "running", "stopping"} /\ (s.closed => s.main \in Committing) =>
       \A i \in DOMAIN s.hist :
         \/ <<i, s.hist[i]>> \in stored \/ i \in HeldBy(s)
         \/ s.main = "write" /\ i = Len(s.hist)
  /\ s.main = "publish" => \A i \in Positions(s.flight.todo) : <<i, w>> \in stored
Accounted == \A w \in Worker : AccountOf(w, ws[w], evidence)

\* Who waits for a reply has the transaction.
WaitOf(w, s, t) ==
  /\ s.loop = "writing" => /\ t.by = w /\ t.kind = "rows"
                           /\ \/ t.rows = Positions(s.flight.todo)
                              \/ t.rows = Positions(Chunk(s))
  /\ s.main = "failing" => t.by = w /\ t.kind = "fail"
  /\ s.main = "saving" => t.by = w /\ t.kind = "save" /\ t.rows = Positions(s.flight.todo)
Waiting == \A w \in Worker : WaitOf(w, ws[w], txn)

\* Well-typed, every result accounted for once, and no worker with more of them than
\* fit.
WriterInvariant ==
  /\ TypeOK /\ NothingForgotten /\ QueueBounded
  /\ Phases /\ Flights /\ Accounted /\ Waiting

\* A worker with a working database is never fenced by its own snapshot,
\* in particular not by a heartbeat between the commit of a snapshot and the
\* publication of its token (_assert_checkpoint_ownership).
NoSelfFence ==
  [][\A w \in Worker :
       ~ws[w].fenced /\ ws'[w].fenced /\ ws[w].phase = "running"
         => saved.token[1] # w]_vars

\* A healthy heartbeat that was under way never overwrites the failure of the
\* run (_can_publish_pipeline_status).
FailureStays == [][shown = "failed" => shown' = "failed"]_vars

\* "It ... exports no checkpoint, including during shutdown": once its state
\* is uncertain, a worker saves nothing (_fail_execution).
UncertainNeverSaved ==
  [][\A w \in Worker :
       ws[w].uncertain /\ saved' # saved => saved'.token[1] # w]_vars

\* A worker that stops, for whatever reason, ends.
StopsInTheEnd ==
  \A w \in Worker : ws[w].phase = "stopping" ~> ws[w].phase = "off"

\* A worker whose model broke gets its failure recorded, or learns that
\* another worker owns the run, and ends.
QuarantineEnds ==
  \A w \in Worker : ws[w].uncertain ~> ws[w].phase = "off"

-----------------------------------------------------------------------------
(* What the signatures tell.                                               *)

\* The results of w that continue a history.
Continues(old, new, w) ==
  /\ Len(old) <= Len(new)
  /\ \A i \in 1 .. Len(new) : new[i] = IF i <= Len(old) THEN old[i] ELSE w

Started(w) == ws[w].phase \notin {"new", "admitted", "off"}

\* Whose signature is in the row has the state that continues it; a former owner never
\* has the row's signature again.
Signed ==
  /\ saved.token[1] \notin saved.past /\ NoWorker \notin saved.past
  /\ \A w \in Worker : LET s == ws[w] IN
       /\ w \in saved.past \cup {saved.token[1]} => s.phase \notin {"new", "admitted"}
       /\ Started(w) /\ s.sig = saved.token => w \notin saved.past /\ Continues(saved.hist, s.hist, w)
       /\ s.main = "publish" /\ s.pend = saved.token => Continues(saved.hist, s.hist, w)
       /\ s.phase \in {"starting", "running"} /\ saved.token[1] = w =>
            \/ saved.token = s.sig /\ s.main # "publish"
            \/ s.main \in {"publish", "undo"} /\ saved.token = s.pend

\* No signature is made twice.
Older(w, n) ==
  /\ saved.token[1] = w => saved.token[2] < n
  /\ \A v \in Worker : ws[v].sig[1] = w => ws[v].sig[2] < n
Unique ==
  \A w \in Worker : LET s == ws[w] IN
    s.phase # "off" => Older(w, IF s.main \in {"await", "begin"} THEN s.saves ELSE s.saves + 1)

\* What the transaction under way will write was right when it began, and stays so.
UnderWay ==
  LET w == txn.by
      s == ws[w]
  IN
  /\ txn = NoTxn \/ w \in Worker
  /\ txn.kind # "save" /\ txn.rows # {} => saved.token[1] = w
  /\ txn.kind = "fail" => saved.token[1] = w /\ txn.rows = {}
  /\ \A i \in txn.rows : i > Len(saved.hist) \/ <<i, w>> \in evidence
  /\ txn.kind = "save" =>
       /\ w \notin saved.past /\ Continues(saved.hist, txn.hist, w)
       /\ \A i \in DOMAIN txn.hist :
            <<i, txn.hist[i]>> \in evidence \/ (i \in txn.rows /\ txn.hist[i] = w)
       /\ txn.rows \subseteq DOMAIN txn.hist
       /\ txn.token[1] = w /\ Older(w, txn.token[2])
       /\ s.phase \notin {"new", "admitted"} /\ ~s.uncertain /\ s.main # "publish"
       /\ s.phase \in {"starting", "running"} => s.main \in {"saving", "undo"}
       /\ s.main = "saving" \/ (s.main = "undo" /\ s.phase \in {"starting", "running"}) =>
            txn.token = s.pend /\ txn.hist = s.hist
       /\ s.phase # "off" =>
            txn.token[2] < IF s.main \in {"await", "begin"} THEN s.saves ELSE s.saves + 1

\* A heartbeat that is under way holds back the failure of the run.
Shown ==
  /\ \A w \in Worker : ws[w].beat = "updated" => outcome = "open"
  /\ shown = "failed" => outcome = "failed"

\* The row and its signatures: the saved state is covered by evidence.
RecordInvariant == SnapshotCovered /\ Signed /\ Unique /\ UnderWay /\ Shown

-----------------------------------------------------------------------------
Abstract == INSTANCE RunRecord WITH
  owner <- saved.token[1],
  former <- saved.past,
  history <- saved.hist

\* The workers implement the record of the run.
RefinesRunRecord == Abstract!Spec
=============================================================================
