------------------------------ MODULE DojoQueue ------------------------------
(***************************************************************************)
(* The queue of Dojo runs: requests of members that queue, cancel and      *)
(* delete runs over frozen datasets, and the workers that claim the runs   *)
(* and replay them one at a time.  A worker holds a run as long as the row *)
(* names it and is "running"; every write it makes is a transaction that   *)
(* locks the row and asks for that first.                                  *)
(*                                                                         *)
(* A transaction is one step.  Its commit may fail, or succeed without its *)
(* reply: `Committed', `RolledBack' and `ReplyLost' are the three ways.    *)
(***************************************************************************)
EXTENDS Integers, FiniteSets

CONSTANTS Run,        \* runs that may be created, in the order of their creation
          Dataset, Worker, NoDataset, NoWorker,
          Points,     \* points of a dataset
          MaxActive,  \* MAX_ACTIVE_RUNS
          MaxFaults   \* crashes, failed transactions and heartbeats that are late

ASSUME QueueAssumption ==
  /\ Run \subseteq Nat \ {0}
  /\ Points \in Nat \ {0} /\ MaxActive \in Nat \ {0} /\ MaxFaults \in Nat
  /\ NoWorker \notin Worker /\ NoDataset \notin Dataset

VARIABLES
  datasets,  \* the datasets that exist, with all their points
  run,       \* rows of dojo_runs; status "none" when there is no row
  stored,    \* the sequence numbers in dojo_run_results, per run
  worker,    \* the processes
  created,      \* runs whose identity was used
  faults

vars == <<datasets, run, stored, worker, created, faults>>

-----------------------------------------------------------------------------
(* Rows.                                                                   *)

Active == {"queued", "running"}
Ended == {"succeeded", "failed", "cancelled"}

\* `fresh': heartbeat_at is younger than stale_seconds.
Row == [status : Active \cup Ended \cup {"none"}, dataset : Dataset \cup {NoDataset},
        worker : Worker \cup {NoWorker}, cancel : BOOLEAN, fresh : BOOLEAN,
        results : 0 .. Points]

NoRow == [status |-> "none", dataset |-> NoDataset, worker |-> NoWorker,
          cancel |-> FALSE, fresh |-> FALSE, results |-> 0]

ActiveRuns == {r \in Run : run[r].status \in Active}

(* A process: `read' counts the points replayed, each of which gives a     *)
(* result (one that gives none leaves the numbers alone), `sent' how many  *)
(* results it knows to be stored; `beat' is the state of its keep-alive.   *)
(* A process that could not do what it wanted with its run is about to     *)
(* report it as "failed".                                                  *)

Process == [pc : {"down", "poll", "replay", "failed"}, run : Run \cup {0},
            read : 0 .. Points, sent : 0 .. Points,
            cancel : BOOLEAN, beat : {"none", "beating", "stopped", "failed"},
            stopping : BOOLEAN]

Idle == [pc |-> "poll", run |-> 0, read |-> 0, sent |-> 0,
         cancel |-> FALSE, beat |-> "none", stopping |-> FALSE]

Down == [Idle EXCEPT !.pc = "down"]

TypeOK ==
  /\ datasets \subseteq Dataset
  /\ run \in [Run -> Row]
  /\ stored \in [Run -> SUBSET (1 .. Points)]
  /\ worker \in [Worker -> Process]
  /\ created \subseteq Run
  /\ faults \in 0 .. MaxFaults

Init ==
  /\ datasets = Dataset
  /\ run = [r \in Run |-> NoRow]
  /\ stored = [r \in Run |-> {}]
  /\ worker = [w \in Worker |-> Down]
  /\ created = {}
  /\ faults = 0

Fault == faults < MaxFaults /\ faults' = faults + 1

-----------------------------------------------------------------------------
(* Requests of members.                                                    *)

\* The count is taken under the queue lock; the reference to the dataset keeps its row.
Create(r, d) ==
  /\ d \in datasets
  /\ \A q \in Run : q < r <=> q \in created
  /\ Cardinality(ActiveRuns) < MaxActive
  /\ created' = created \cup {r}
  /\ run' = [run EXCEPT ![r] = [NoRow EXCEPT !.status = "queued", !.dataset = d]]
  /\ UNCHANGED <<datasets, stored, worker, faults>>

Cancel(r) ==
  /\ run[r].status \in Active
  /\ run' = [run EXCEPT ![r] = IF @.status = "queued" THEN [@ EXCEPT !.status = "cancelled"]
                                                      ELSE [@ EXCEPT !.cancel = TRUE]]
  /\ UNCHANGED <<datasets, stored, worker, created, faults>>

\* The results have no foreign key: they are deleted by hand.
Remove(r) ==
  /\ run[r].status \in Ended
  /\ run' = [run EXCEPT ![r] = NoRow]
  /\ stored' = [stored EXCEPT ![r] = {}]
  /\ UNCHANGED <<datasets, worker, created, faults>>

\* The dataset's row is locked, so no run can be created on it meanwhile.
RemoveDataset(d) ==
  LET of == {r \in Run : run[r].dataset = d}
  IN /\ d \in datasets
     /\ of \cap ActiveRuns = {}
     /\ datasets' = datasets \ {d}
     /\ run' = [r \in Run |-> IF r \in of THEN NoRow ELSE run[r]]
     /\ stored' = [r \in Run |-> IF r \in of THEN {} ELSE stored[r]]
     /\ UNCHANGED <<worker, created, faults>>

-----------------------------------------------------------------------------
(* A worker.                                                               *)

Set(w, p) == worker' = [worker EXCEPT ![w] = p]

\* The row is locked and still this worker's.
Owns(w) ==
  LET r == worker[w].run
  IN r # 0 /\ run[r].status = "running" /\ run[r].worker = w

\* Mutant: only runs that no worker is named for.
FailUnclaimed == [r \in Run |-> IF /\ run[r].status = "running" /\ ~run[r].fresh
                                   /\ run[r].worker = NoWorker
                                  THEN [run[r] EXCEPT !.status = "failed"] ELSE run[r]]
\* Runs whose heartbeat stopped, failed by whoever polls.
FailStale == [r \in Run |-> IF run[r].status = "running" /\ ~run[r].fresh
                              THEN [run[r] EXCEPT !.status = "failed"] ELSE run[r]]

\* The oldest queued run. No row is locked between two steps, so none is skipped.
\* A claim whose reply is lost ends the process: Crash may follow.
Claim(w) ==
  /\ worker[w].pc = "poll"
  /\ ~worker[w].stopping
  /\ \E r \in Run :
       /\ run[r].status = "queued"
       /\ \A q \in Run : run[q].status = "queued" => q >= r
       /\ run' = [FailStale EXCEPT ![r].status = "running", ![r].worker = w,
                                   ![r].fresh = TRUE]
       /\ Set(w, [Idle EXCEPT !.pc = "replay", !.run = r, !.beat = "beating"])
  /\ UNCHANGED <<datasets, stored, created, faults>>

\* The queue is empty: the poll only fails what is stale.
Poll(w) ==
  /\ worker[w].pc = "poll"
  /\ ~worker[w].stopping
  /\ \A r \in Run : run[r].status # "queued"
  /\ FailStale # run
  /\ run' = FailStale
  /\ UNCHANGED <<datasets, stored, worker, created, faults>>

\* The points left to read: a run that was taken away may lose its dataset meanwhile.
PointsLeft(w) == worker[w].read < Points /\ run[worker[w].run].dataset \in datasets

\* The process leaves its run alone, wherever it stands.
Leave(p) == [Idle EXCEPT !.stopping = p.stopping]

\* The thread that replays goes on: no stop, no cancellation, and the keep-alive beats.
GoesOn(p) == p.pc = "replay" /\ ~p.stopping /\ ~p.cancel /\ p.beat = "beating"

\* A batch of one point.
Advance(w) ==
  /\ GoesOn(worker[w])
  /\ PointsLeft(w)
  /\ Set(w, [worker[w] EXCEPT !.read = @ + 1])
  /\ UNCHANGED <<datasets, run, stored, created, faults>>

\* After a batch: the keep-alive found the run gone, or failed itself.
LoseRun(w) ==
  /\ worker[w].pc = "replay"
  /\ \/ worker[w].beat = "stopped" /\ Set(w, Leave(worker[w]))
     \/ worker[w].beat = "failed" /\ Set(w, [worker[w] EXCEPT !.pc = "failed"])
  /\ UNCHANGED <<datasets, run, stored, created, faults>>

\* The data does something to the model that ends the run.
ReplayFails(w) ==
  /\ GoesOn(worker[w])
  /\ PointsLeft(w)
  /\ Set(w, [worker[w] EXCEPT !.pc = "failed"])
  /\ UNCHANGED <<datasets, run, stored, created, faults>>

\* HEARTBEAT, between the worker's own transactions: `mutations' keeps them apart.
KeepAlive(w) ==
  LET p == worker[w]
      r == p.run
  IN /\ p.beat = "beating"
     /\ \/ /\ Owns(w)
           /\ run' = [run EXCEPT ![r].fresh = TRUE]
           /\ Set(w, [p EXCEPT !.cancel = run[r].cancel])
        \/ /\ ~Owns(w)
           /\ Set(w, [p EXCEPT !.beat = "stopped"])
           /\ UNCHANGED run
     /\ UNCHANGED <<datasets, stored, created, faults>>

KeepAliveFails(w) ==
  /\ worker[w].beat = "beating"
  /\ Fault
  /\ Set(w, [worker[w] EXCEPT !.beat = "failed"])
  /\ UNCHANGED <<datasets, run, stored, created>>

\* The pending results, whether or not an earlier commit has stored them already.
Pending(p) == p.sent + 1 .. p.read

\* PROGRESS, _write and HEARTBEAT in one transaction.
Saved(w) ==
  LET p == worker[w]
  IN /\ run' = [run EXCEPT ![p.run].results = p.read, ![p.run].fresh = TRUE]
     /\ stored' = [stored EXCEPT ![p.run] = @ \cup Pending(p)]

\* Enough results or enough time since the last flush. The reply also tells of a
\* cancellation, which ends the run.
Flush(w) ==
  LET p == worker[w]
  IN /\ GoesOn(p) /\ p.read > 0
     /\ \/ /\ ~Owns(w)
           /\ Set(w, Leave(p))
           /\ UNCHANGED <<run, stored, faults>>
        \/ /\ Owns(w)
           /\ Saved(w)
           /\ Set(w, [p EXCEPT !.sent = p.read, !.cancel = run[p.run].cancel])
           /\ UNCHANGED faults
        \/ /\ Fault
           /\ Set(w, [p EXCEPT !.pc = "failed"])
           /\ UNCHANGED <<run, stored>> \/ (Owns(w) /\ Saved(w))
     /\ UNCHANGED <<datasets, created>>

\* Mutant: a cancellation that came after the last batch is overlooked.
Replayed(w, outcome) == outcome
\* FINISH: a requested cancellation decides.
Outcome(w, outcome) == IF run[worker[w].run].cancel THEN "cancelled" ELSE outcome

\* FINISH and _write in one transaction.
Finished(w, outcome) ==
  LET p == worker[w]
  IN \/ /\ ~Owns(w)
        /\ UNCHANGED <<run, stored>>
     \/ /\ Owns(w)
        /\ run' = [run EXCEPT ![p.run] = [@ EXCEPT !.status = Outcome(w, outcome),
                                                  !.results = p.read, !.fresh = TRUE]]
        /\ stored' = [stored EXCEPT ![p.run] = @ \cup Pending(p)]

\* All points are replayed, or a cancellation was seen. What fails is reported as a failure.
Finish(w) ==
  LET p == worker[w]
  IN /\ p.pc = "replay"
     /\ p.cancel \/ ~PointsLeft(w)
     /\ \/ /\ Finished(w, IF p.cancel THEN "cancelled" ELSE "succeeded")
           /\ Set(w, Leave(p))
           /\ UNCHANGED faults
        \/ /\ Fault
           /\ Set(w, [p EXCEPT !.pc = "failed"])
           /\ UNCHANGED <<run, stored>> \/ Finished(w, "succeeded")
     /\ UNCHANGED <<datasets, created>>

\* A failure of the report ends the process.
ReportFailure(w) ==
  LET p == worker[w]
  IN /\ p.pc = "failed"
     /\ \/ /\ Finished(w, "failed")
           /\ Set(w, Leave(p))
           /\ UNCHANGED faults
        \/ /\ Fault
           /\ Set(w, Down)
           /\ UNCHANGED <<run, stored>> \/ Finished(w, "failed")
     /\ UNCHANGED <<datasets, created>>

\* Mutant: the row still counts the results that are gone.
ReleasedCounting(w) ==
  LET r == worker[w].run
  IN \/ ~Owns(w) /\ UNCHANGED <<run, stored>>
     \/ /\ Owns(w)
        /\ run' = [run EXCEPT ![r] =
             [@ EXCEPT !.status = IF run[r].cancel THEN "cancelled" ELSE "queued",
                       !.worker = NoWorker, !.fresh = FALSE]]
        /\ stored' = [stored EXCEPT ![r] = {}]

\* RELEASE and DELETE_RESULTS in one transaction.
Released(w) ==
  LET r == worker[w].run
  IN \/ ~Owns(w) /\ UNCHANGED <<run, stored>>
     \/ /\ Owns(w)
        /\ run' = [run EXCEPT ![r] =
             [@ EXCEPT !.status = IF run[r].cancel THEN "cancelled" ELSE "queued",
                       !.worker = NoWorker, !.fresh = FALSE, !.results = 0]]
        /\ stored' = [stored EXCEPT ![r] = {}]

\* The replay was interrupted before its next point.
Release(w) ==
  /\ worker[w].pc = "replay" /\ worker[w].stopping
  /\ PointsLeft(w)
  /\ \/ /\ Released(w)
        /\ Set(w, Leave(worker[w]))
        /\ UNCHANGED faults
     \/ /\ Fault
        /\ Set(w, Down)
        /\ UNCHANGED <<run, stored>> \/ Released(w)
  /\ UNCHANGED <<datasets, created>>

-----------------------------------------------------------------------------
(* The processes and the clock.                                            *)

\* SIGTERM sets a flag that the loop and the replay look at.
Stop(w) ==
  /\ worker[w].pc # "down" /\ ~worker[w].stopping
  /\ Fault
  /\ Set(w, [worker[w] EXCEPT !.stopping = TRUE])
  /\ UNCHANGED <<datasets, run, stored, created>>

Exit(w) ==
  /\ worker[w].pc = "poll" /\ worker[w].stopping
  /\ Set(w, Down)
  /\ UNCHANGED <<datasets, run, stored, created, faults>>

\* The process is killed; a container that is restarted keeps its name.
Crash(w) ==
  /\ worker[w].pc # "down"
  /\ Fault
  /\ Set(w, Down)
  /\ UNCHANGED <<datasets, run, stored, created>>

Start(w) ==
  /\ worker[w].pc = "down"
  /\ Set(w, Idle)
  /\ UNCHANGED <<datasets, run, stored, created, faults>>

Executing(r) == \E w \in Worker : worker[w].run = r /\ Owns(w)

\* The time since the last heartbeat of a run exceeds stale_seconds.
HeartbeatAges(r) ==
  /\ run[r].status = "running" /\ run[r].fresh
  /\ IF Executing(r) THEN Fault ELSE UNCHANGED faults
  /\ run' = [run EXCEPT ![r].fresh = FALSE]
  /\ UNCHANGED <<datasets, stored, worker, created>>

-----------------------------------------------------------------------------
Member ==
  \/ \E r \in Run, d \in Dataset : Create(r, d)
  \/ \E r \in Run : Cancel(r) \/ Remove(r)
  \/ \E d \in Dataset : RemoveDataset(d)

Work(w) ==
  \/ Claim(w) \/ Poll(w) \/ Advance(w) \/ LoseRun(w) \/ ReplayFails(w)
  \/ Flush(w) \/ Finish(w) \/ ReportFailure(w) \/ Release(w) \/ Exit(w) \/ Start(w)

Environment ==
  \/ \E w \in Worker : KeepAlive(w) \/ KeepAliveFails(w) \/ Stop(w) \/ Crash(w)
  \/ \E r \in Run : HeartbeatAges(r)

Next == Member \/ Environment \/ \E w \in Worker : Work(w)

Spec == Init /\ [][Next]_vars

\* Every await of a worker returns, processes are restarted, and time passes.
FairSpec ==
  /\ Spec
  /\ \A w \in Worker : WF_vars(Work(w)) /\ WF_vars(KeepAlive(w))
  /\ \A r \in Run : WF_vars(~Executing(r) /\ HeartbeatAges(r))

-----------------------------------------------------------------------------
(* Properties.                                                             *)

\* What the database holds of a run is what its row says: the results are numbered without
\* a gap up to result_count, although a batch may be written again after a commit whose
\* reply was lost, a run may start over, and results are deleted by hand.
ResultsMatchRow == \A r \in Run : stored[r] = 1 .. run[r].results

\* No member's run is left without its dataset.
ActiveRunsKeepData == \A r \in ActiveRuns : run[r].dataset \in datasets

\* A run in execution is in one process only, and that process knows its results; what it
\* takes for a cancellation is one.
OneReplay ==
  /\ \A v, w \in Worker : v # w /\ Owns(v) /\ Owns(w) => worker[v].run # worker[w].run
  /\ \A w \in Worker : Owns(w) => /\ worker[w].sent <= run[worker[w].run].results
                                   /\ run[worker[w].run].results <= worker[w].read
                                   /\ worker[w].cancel => run[worker[w].run].cancel

\* Of a run nobody created or somebody deleted nothing is left; one that waits, for the
\* first or another attempt, is as it was created; and no success was cancelled.
RowsAreWhole ==
  \A r \in Run :
    /\ r \notin created \/ run[r].status = "none" => run[r] = NoRow
    /\ run[r].status = "queued" => /\ run[r].worker = NoWorker /\ ~run[r].cancel
                                    /\ run[r].results = 0
    /\ run[r].status = "succeeded" => ~run[r].cancel

\* A process has a run, and a keep-alive, while it replays or is about to report a failure.
ProcessesAreWhole ==
  \A w \in Worker :
    /\ worker[w].pc \in {"replay", "failed"} <=> worker[w].run # 0
    /\ worker[w].run = 0 => worker[w].beat = "none" /\ worker[w].read = 0
    /\ worker[w].sent <= worker[w].read

QueueInvariant ==
  /\ TypeOK /\ ResultsMatchRow /\ ActiveRunsKeepData /\ OneReplay
  /\ RowsAreWhole /\ ProcessesAreWhole

\* The queue as its members see it: outcomes are final, an accepted cancellation is never
\* followed by a success or another attempt, and an attempt starts without results.
Promise == INSTANCE RunOutcomes WITH
             status <- [r \in Run |-> run[r].status],
             cancelled <- {r \in Run : run[r].cancel},
             results <- stored

RefinesOutcomes == Promise!Spec

\* Every run that waits or runs ends, whatever happened to the worker that had it.
RunsEnd == \A r \in Run : run[r].status \in Active ~> run[r].status \notin Active
=============================================================================
