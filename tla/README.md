# A TLA+ verification of off-key

off-key collects the MQTT telemetry of a system of devices and watches it with
RADAR workers, one container per monitor. This directory holds TLA+ models of
the parts whose correctness depends on concurrency, failure, ordering or
boundaries, the TLC configurations that check them on small instances, and
TLAPS proofs of the properties that matter most. Paths are relative to the
repository's root. `PROJECT.json` maps every definition to the lines it
translates, and lists the components, the hazards of the code at the lines where
they bite, and the theorems.

In the paths below, `tactic/` stands for
`backend/services/middleware/tactic/src/off_key_tactic_middleware/`, `radar/`
for `backend/services/mqtt/radar/src/off_key_mqtt_radar/`, `proxy/` for
`backend/services/mqtt/proxy/src/off_key_mqtt_proxy/` and `core/` for
`backend/libs/core/src/off_key_core/`.

How to run: `tlc -config Dojo.cfg DojoQueue` (section 2 names the module of each
configuration), `tlapm DojoQueueProofs.tla`.

## 1. Inventory

| Component | State it keeps | Operations | What makes it hard | What makes it correct | Modules |
|---|---|---|---|---|---|
| Monitor lifecycle (`tactic/services/orchestration`) | `services` rows: intent (`desired_state`, `stop_requested_at`, `lifecycle_version`), claim (`status`), `container_id`, `operational_stage`; Docker services | create, attach, validate, stop, retire, pause, reconcile, sweep orphans | the row and the Docker service cannot change together; requests, activations and the reconciler interleave; calls time out with unknown outcome | overlapping readings are claimed by one monitor; a claim outlives its worker; an ended monitor never runs again; stops, failures and orphans are carried out in the end | `RadarLifecycle`, `SensorClaims` |
| Pipeline activation and preflight (`tactic/services/pipelines`) | `monitoring_pipeline_activations` rows: phase, lease, claims, reserved run; one-shot Docker jobs | submit, advance, cancel, sweep | leases taken over by another controller, a predecessor retired while its successor is not yet verified, deadlines, stale lists | one controller writes a phase; predecessor or successor holds the claims; a cancelled activation leaves nothing behind; a running preflight is not swept | `PipelineActivation` |
| Release (`tactic/deployment.py`) | maintenance flag, release operation and its workloads | reserve, begin, resume, verify, abort | commands killed between two services and repeated | no monitor lost or replaced twice | `ReleaseDeployment` |
| RADAR checkpoint and evidence writer (`radar/database.py`, `service.py`) | run checkpoint, bounded queue of results, signatures | write a result, flush, snapshot, fail, stop | commits with unknown outcome, retries in chunks, a successor taking over, backpressure under a lock | stored evidence and stored state agree; a fenced worker writes nothing | `CheckpointWriter`, `RunRecord` |
| RADAR message path (`radar/mqtt_client.py`, `service.py`, `state_cache.py`) | client, queue, per-sensor readings | receive, process, align, reconnect, stop | callbacks of a network thread, shutdown order, late readings | every message is processed, queued or counted; a vector never goes back in time | `RadarWorker`, `SensorAlignment` |
| RADAR health and run events (`radar/health_monitor.py`, `run_events.py`) | stage, bounded list of events | check, record, hand over, drain | events recorded while a heartbeat carries earlier ones | an event is stored or counted as dropped; healthy is shown without an alert only | `RunEvents` |
| RADAR detectors and Prepare (`radar/pipelines`, `detector.py`, ...) | training windows, warm-up, staged step states | observe, fit, commit, revert, snapshot | a background fit, failures between two nodes | a baseline is fitted once from its windows; a reverted observation leaves no trace | `DetectorRun`, `PreparedStage` |
| Dojo (`tactic/services/dojo`, `radar/dojo`) | `dojo_runs`: queue, lease, progress, results; datasets and labels | queue, claim, progress, finish, release, cancel, delete; import; label | several workers, lost leases, late replies, shutdown | a run ends once, by the process that holds it; a dataset is the whole of its source | `DojoQueue`, `RunOutcomes`, `Datasets`, `DatasetLabels` |
| Collection (`proxy/`, `core/db/worker_ownership.py`, `tactic/services/catalogue`) | revisions of the configuration, leader's lock, listener, cache, pending writes | edit, pause, drain, acknowledge, publish, take over | two leaders, revisions applied asynchronously | nothing of an old generation is shown as of the new one; a replaced leader has no effect | `Collection`, `CollectionHealth` |
| Proxy's writer (`proxy/.../database writer`) | pending batch, batch under way, rejected rows | batch, retry, isolate, drain, stop | rejected rows, retries that never end, shutdown | every record is stored once, held or reported | `TelemetryWriter` |
| Ingress and live view (`tactic/services/catalogue`) | clients, retries, inbox; leases, workers, cursors | supervise, forward; lease, poll, stop | callbacks of old clients, bounded memory | what is shown as connected is; a page lacks nothing that is current | `BrokerSupervision`, `LiveView` |
| Catalogue (`tactic/services/catalogue`) | document of readings, recording rules | save, edit rules, pause monitors | the lock is let go while monitors pause | a running monitor's readings stay recorded; no edit takes another one back | `Catalogue` |
| Topics (`core/utils`, `tactic/.../radar`) | claims of filters | claim, match, name | wildcards | no message reaches two monitors | `TopicClaims` |
| Compiler and formulas (`core/.../pipelines`) | none: pure functions | compile, analyse, evaluate | ranges with infinities, joins, orders | a plan is sound, an analysis holds of every row | `PipelineDesign`, `Formula` |
| Pipeline library (`tactic/services/pipelines`) | designs, versions, revisions, layout | edit, publish, page | editors of an old version | nobody overwrites what he has not seen | `PipelineLibrary` |
| Accounts (`tactic/services/...`) | members, roles, invitations, sign-ins | invite, change, remove, rotate, revoke | a rotation beside a revocation; the last manager | somebody can manage; access that ended stays ended | `Membership` |
| Data services (`tactic/repositories/data.py`) | evidence, alarms, favorites | page, count, add, remove | rows that commit late behind a cursor, limits | nothing falls between pages | `EvidenceReads`, `Alarms`, `Favorites` |
| Schema and retention (`core/db`) | ledger, retention jobs | migrate, sync, reconcile, drop | databases of any age, data arriving late | the schema is that of the ledger; only the oldest data goes | `Migration`, `Retention` |
| Gateway, specification of workers, configuration and logging, frontend, infrastructure | none of their own | forwarding, rendering | - | left to tests | - |

How they interact: the gateway forwards requests to TACTIC. TACTIC keeps every
intent in PostgreSQL and drives Docker Swarm. RADAR and Dojo workers read
telemetry from the broker or the database, ask the database whether they may
run (admission) and write results, checkpoints and heartbeats there, under row
locks that TACTIC takes as well. The ingress of TACTIC forwards what recorded
brokers send to topics of a generation; the proxy listens to the topics of the
revision it has prepared, and writes the raw telemetry. The reconciler of TACTIC
compares intents with what Docker shows, again and again.

## 2. The project

Five components with processes of their own are each one detailed specification
with runs and proofs; the smaller parts are modules that
`Services` puts side by side for one run.

| Specification | Abstract specification | Runs (configuration, module) | Proofs |
|---|---|---|---|
| `RadarLifecycle` | `SensorClaims` | `lifecycle`, `lifecycle_claims`, `lifecycle_recovery` (`Lifecycle*.cfg`, `MCRadarLifecycle`) | `RadarLifecycleProofs` |
| `CheckpointWriter` | `RunRecord` | `checkpoint`, `checkpoint_fence` (`Checkpoint*.cfg`, `MCCheckpointWriter`) | `CheckpointWriterProofs` |
| `PipelineActivation` | `SensorClaims` | `activation`, `activation_fenced`, `activation_progress` (`Activation*.cfg`, `MCPipelineActivation`) | `PipelineActivationProofs` |
| `DojoQueue` | `RunOutcomes` | `dojo` (`Dojo.cfg`, `DojoQueue`) | `DojoQueueProofs` |
| `Collection` | - | `collection`, `collection_generation` (`Collection*.cfg`, `Collection`) | `CollectionProofs` |
| 22 parts in `Services` | - | `services` (`Services.cfg`, `MCServices`) | `WorkerModelProofs`, `AdministrationProofs`, `ServicesProofs` (of 19 parts) |

`Services` EXTENDS two modules that only declare the parameters, the variables and
the instances of some of its parts, so that their proofs do not carry the rest:
`WorkerModel`, the way of a reading (`TelemetryWriter`, `BrokerSupervision`,
`RadarWorker`, `RunEvents`, `SensorAlignment`, `DetectorRun`, `LiveView`,
`EvidenceReads`, `Alarms`), and `Administration`, what operators and members do
(`ReleaseDeployment`, `Membership`, `Catalogue`, `Favorites`, `Retention`,
`PipelineLibrary`, `Migration`, `TopicClaims`, `CollectionHealth`).
`WorkerModelProofs` and `AdministrationProofs` prove what a step of each of these
parts keeps; `ServicesProofs` does so for `DatasetLabels` and puts them together for
`Services`. `PreparedStage`, `Formula` and `Datasets` are only model-checked.

The plan is carried out: what the provers cannot reach stays with TLC (section 9,
"Only model-checked"), and what is not modelled is in section 10.

The `MC` modules hold what a configuration cannot say: symmetry and structured
values of constants. No configuration replaces a definition.

## 3. The lifecycle of a monitor

| Module | What it is |
|---|---|
| `RadarLifecycle` | the detailed model: rows, runs, Docker, workers, and the tasks of TACTIC that act on them |
| `SensorClaims` | what the claims promise: `Claim`, `StartWorker`, `StopWorker`, `CloseRun`, `Release` |
| `MCRadarLifecycle` | symmetry and the overlap of filters for TLC |
| `RadarLifecycleProofs` | type correctness, the exclusion of claims, claims that outlive their workers, the refinement, the other action properties and the inductive invariant as a whole |

### State and actions

`rows` is the part of the `services` table that decides anything; `NoRow` is a
monitor without a row. `runs` is the outcome of the run of a monitor. `svc`,
`created`, `label`, `task` and `inflight` are Docker: the service under the
durable name, every service that ever had the name with the version it was
created for and its task, and the create calls that Docker received and whose
caller no longer waits. `agents` are the tasks of TACTIC: a request, a pass of
the reconciler, an activation, a pause. An agent has a program counter, the
monitor it works on and what it has read. One action is one transaction or one
remote call, so every `await` between two of them is a point where another
agent, Docker or a worker may act.

| Code | Actions |
|---|---|
| `create_radar_service`, `_complete_creation`, `recover_pending` | `Launch`, `Recover`, `ReadIntent`, `FindWorkload`, `CreateWorkload`, `Validate`, `Attach`, `Confirm`, `RecordFailure` |
| `RadarWorkloadManager.remove`, `remove_intent`, `_wait_for_task_shutdown` | `RemoveById`, `AwaitById`, `RemoveByName`, `AwaitByName` |
| `stop_radar_service`, `delete_radar_service`, `retire_service` | `Retire`, `MarkRetired`, `Purge` |
| activation `_cancel`, `_require_deleting` | `Cancel`, `CancelSuccessor` |
| `pause_monitors` | `Pause`, `PauseRead`, `Complete` |
| `remove_orphans` | `SweepList`, `SweepRead` |
| `_reconcile`, `_inspect`, `_apply_observation`, `_apply_stopped`, `_fail_abandoned` | `StopFailed`, `Snapshot`, `Inspect`, `ApplyStopConfirmed`, `ApplyRunning`, `ApplyTerminal` |
| `require_monitor_admission`, `HEARTBEAT_UPDATE`, `fail_pipeline_run` | `Admit`, `Heartbeat`, `WorkerFails` |
| the environment | `TaskStarts`, `TaskEnds`, `DelayedCreate`, `ExternalRemove`, `AbandonCreate`, `CreationFails`, `RemovalFails`, `Crash` |

Abstractions. Only managed monitors are modelled (rows with a
`config_fingerprint`; the older kind is created and removed by
`radar.py:420-468`). MQTT filters are the symmetric relation `Overlap`. A stage
is `terminal` (one of `ABANDONED_STAGES`) or `live`. Time stamps that are only
compared with a snapshot are the set `fresh`. `pause_monitors` records the stop
of several monitors in one transaction and then walks over them; here each
monitor is paused by an agent of its own, which allows more interleavings. The
claims held by pending activations belong to the activation module; here an
activation's launch is guarded by the claims of the rows alone.

### Runs

| Run | Instance | Question |
|---|---|---|
| `lifecycle` | 1 monitor, 2 agents, 2 workloads, 2 faults | is the invariant behind the claims preserved by two tasks that interleave, crash and time out; do intents never revive; does no task remove a service that should run, or fail a run over a newer heartbeat |
| `lifecycle_claims` | 2 overlapping monitors, 2 agents, 1 workload each, no fault | do claims exclude each other and outlive their workers; is `SensorClaims` implemented |
| `lifecycle_recovery` | 1 monitor, 1 agent, 2 faults, 1 external removal, fair | are intents of requests that died carried out, failed runs and lost workers released, late services removed; is a stop only completed once the attached workload's task is gone, even if its service is |

Bounds. `MaxWorkloads = 2` lets a second service take the durable name after
the first was removed. `MaxVersion` bounds the version at which a pause may
still request a stop (a row starts at 1): with 2, a pause, a failure and a
deletion of one row meet; `lifecycle_claims`, with two monitors, is run without
pauses and faults, which `lifecycle` covers for one monitor and the proofs for
any number. Two faults allow a lost create reply followed by a crash of whoever
cleans up. Two agents are every pair of tasks of TACTIC; the reconciler is one
process and requests on the same monitor are mostly serialised by row locks, so
a third agent adds repetitions of the same pairs. The theorems hold for every
value of these constants.

Fairness. Every await of a started task returns (`WF(Proceed)`): calls have
timeouts, and a timeout is a step of the same task. The loops of the
reconciler reach every row and every service again (`SF` on `Snapshot`,
`SweepList`, `StopFailed`: an agent must be idle for them, which other work can
disable and enable again). Docker executes the calls it received and ends the
task of a service that was removed or scaled down. Nothing is assumed of
requests, of workers or of faults, whose number is bounded.

### What is shown

* `ClaimsExclusive` (proved): two monitors whose filters overlap never hold
  their claims together, with any number of monitors, agents, faults and
  external removals. `IntentInvariant` is the strengthening: what an agent has
  read of an intent still holds, because an intent that stopped being `running`
  stays so.
* `ClaimCovers` and `LifecycleImplementsClaims` (proved under `MaxExternal = 0`):
  an admitted worker's monitor holds its claim until the worker's task has
  ended, and every step of the lifecycle is a step of `SensorClaims` or a
  stutter. `ClaimInvariant` adds that live tasks belong to the service under the
  durable name (`TasksInService`) and that an agent about to release a claim has
  seen the last task end (`WorkersGone`). Both are needed: the removal by id and
  the removal by name are separate steps, and a creation that lost its intent may
  bring up a service between them.
* `NeverRevived`, `HeartbeatWins`, `StopsAwaitTasks` (proved, external removals
  included) and `SweepSpares` (proved under `MaxExternal = 0`): only a monitor
  that never had a workload starts to want one; the reconciler never fails a run
  after a newer heartbeat; a stop waits for the task of the workload on record;
  no task removes the service of a monitor that should run, however stale what
  it has read. `LifecycleHolds` is the conjunction of the inductive invariants
  they rest on, which the run `lifecycle` checks too.
* `ClaimsReleased`, `OrphanRemoved`: liveness, model-checked.

Observations made while modelling and proving:

* `docs/development/architecture.md:84-85`
  says that retiring task records are checked even if the service was externally
  removed. That holds for an attached workload (`StopAwaitsTask`). A service that
  was created but not yet attached is known by its name alone; when it is removed
  with Docker's own tools, `remove_intent` does not find it
  (`radar_workloads.py:80-83`) and the claim is released while its worker may
  still be running. This is why `MaxExternal = 0` is assumed for the claims.
* With external removals a creation that loses the attachment may remove by id a
  second service of a monitor that still runs, and a late confirmation by name the
  service that a second creation attached; hence `MaxExternal = 0` in `SweepSpares`.
* After an external removal of the attached service, a delayed create call may
  bring up a second service that is never attached. Its worker's heartbeats keep
  the row from being given up; `ClaimsReleased` says precisely that the row
  is not left without any service for ever.
* `retire_service` writes a version computed from an unlocked read. A concurrent
  `_fail_abandoned` may have written the same version, or a larger one, so one
  version can stand for two intents and versions can go back. No property needs
  them to be unique: `matches` also compares the intent, and the inductive
  invariant rests on intents alone.
* `fail_pipeline_run` replaces an outcome that is already recorded
  (`docs/operations/radar-recovery.md` describes this); `runs` may go from
  `ended` to `failed`, never back to `open`.

## 4. The durable side of a RADAR worker

| Module | What it is |
|---|---|
| `CheckpointWriter` | the detailed model: the workers of one monitor, their three tasks, and the transactions on the snapshot row |
| `RunRecord` | what the database promises about the run: `Save`, `Store`, `Fail` |
| `MCCheckpointWriter` | symmetry for TLC |
| `CheckpointWriterProofs` | the inductive invariant, the safety properties and the refinement, for any number of workers and any sizes |

### State and actions

`saved` is the row of `radar_runtime_checkpoints`: its signature, and the state
it stands for. A detector state is represented by who computed each result
behind it (`hist`), the least that tells whether a snapshot and the evidence in
`monitoring_evidence` agree. A signature is a pair of the worker and the number
of its snapshot, since it covers the time it was saved. `outcome` is the run,
`shown` who reported the monitor's status last. `txn` is the transaction that
holds the lock of the snapshot row. `ws[w]` is a worker process: `queue` and
`flight` are `write_queue` and the batch taken out of it (`_in_flight`), `sig`
and `pend` its published and pending signature, `fenced` is `_ownership_error`,
`closed` the writer's shutdown event. `main`, `loop` and `beat` are the program
counters of the holder of the processing lock, of the writer loop and of the
heartbeat. `saved.past` is a history variable for the refinement.

| Code | Actions |
|---|---|
| `RadarService.start`, `require_monitor_admission`, `load_checkpoint` | `Admit`, `Load` |
| `_process_locked_message`, `write_result` | `Receive`, `WriteResult`, `Break` |
| `_checkpoint_if_due`, `_checkpoint_loop` | `CheckpointIfDue`, `CheckpointTimesOut` |
| `commit_checkpoint`, `_replace_checkpoint` | `TakePending`, `ReplaceCheckpoint`, `Publish`, `Undo` |
| `_fail_execution`, `_persist_execution_failure`, `fail_pipeline_run` | `Break`, `FailPipelineRun` |
| `_writer_loop`, `_flush_batch`, `_persist_snapshot`, `_retry_failed_batch`, `_requeue_results` | `FlushBatch`, `WriteRows`, `RetryExhausted` |
| `write_heartbeat`, `_update_service_operational_status`, `_can_publish_pipeline_status` | `StartHeartbeat`, `UpdateStatus`, `CommitStatus`, `HeartbeatFails` |
| signals, `stop`, `_stop_ingestion_and_checkpoint`, `DatabaseWriter.stop` | `Shutdown`, `FinalCheckpoint`, `Exit` |
| PostgreSQL and the process | `CommitTxn`, `AbortTxn`, `LoseReply`, `Crash` |

A transaction begins with the statement that locks the snapshot row (the
ownership check or the replacement itself) and ends in the database. Between
the two its client may give up (`LoseReply`: a lost connection, a deadline, a
cancellation), and then the transaction may still be committed.

Abstractions. A worker has managed checkpoints and database writes. Positions
count only the results that have evidence. How many times a chunk is retried is
not counted: the retries may be exhausted after any number of attempts. A
shutdown waits for the message under way, as the service does; when it
interrupts the checkpoint loop instead, that is a `CheckpointTimesOut` or a
`LoseReply`. The purge of the monitor's rows, which ends with no worker running
(section 3), is left out; timeline events are `RunEvents` (section 8).

### Runs

| Run | Instance | Question |
|---|---|---|
| `checkpoint` | 1 worker, queue of 2, chunks of 1, 3 results, 2 snapshots, fair | does no failure lose a result, overfill the queue, make the worker fence itself, save an uncertain state or hide the failure of the run; does a stop end and a failure get recorded |
| `checkpoint_fence` | 2 workers, queue of 1, chunks of 1, 2 results, a first and a final snapshot each | does the snapshot never run ahead of its evidence; is `RunRecord` implemented |

Bounds. A queue of 2 with chunks of 1 has batches of which one chunk is stored
and the other exhausted, and a third result meets a full queue. Two workers are
an old one and its replacement; a third could only repeat what the second does
to the first. `MaxSaves` bounds the snapshots of a worker, its first included;
the one of the shutdown comes on top of it.

Fairness. The locks of asyncio and of PostgreSQL rows are queues, hence strong
fairness for each of the three tasks: one that waits for a lock gets it although
others take it in between. A transaction ends (`WF`), and a worker whose
transactions are tried for ever gets one committed (`SF`): the database is away
for a while only. Nothing is assumed of messages, heartbeats, shutdowns or
faults.

### What is shown

All safety properties of both runs are proved, for any number of workers and
queues and chunks of any size:

* `SavedStateCovered` (`RecordInvariant`): the evidence of every result behind
  the saved state is stored, so a restarted worker leaves no gap behind its
  snapshot; no signature is made twice; a worker that carries the row's signature
  continues exactly what the row holds.
* `ResultsAccounted` (`WriterInvariant`): through every failed transaction,
  partial retry and interrupted snapshot a result is stored or still held, once,
  within `max_queue_size`.
* `WorkersKeepRecord` (`RefinesRunRecord`): the saved state only grows by
  results of the worker that saves it; only the worker that saved last adds
  evidence ahead of it or fails the run; a replaced worker never writes again,
  even if it was in the middle of a batch.
* `NeverFencedBySelf`, `FailureNotOverwritten`, `UncertainSavesNothing`:
  heartbeats race with snapshots and with the failure of the run without a false
  fence or a false healthy status, and an uncertain state is never saved.
* `StopsInTheEnd`, `QuarantineEnds`: liveness, model-checked.

The inductive invariant is `Core == Local /\ Accounted /\ Waiting /\
RecordInvariant`: `Local` is what one worker's record says by itself at each
program counter, `Accounted` where its results are, `Waiting` what an open
transaction may still do to the row, in particular one whose client has given up.
`Waiting` is what makes the rest inductive: a lost reply is harmless because a
pending transaction still carries the signature it was made against.

Observations made while modelling and proving:

* `docs/operations/radar-recovery.md:96-98`
  says that the last signed snapshot of a failed run stays intact. The failure
  fences later admissions. A replacement worker that was admitted before the
  failure was committed replaces the snapshot afterwards, because
  `_replace_checkpoint` (`database.py:368`) compares signatures and does not look
  at the run.
* A snapshot that was committed but whose reply was lost makes the worker stop:
  it still holds the old signature, and its final snapshot is refused as if
  another worker had taken over. `NoSelfFence` therefore speaks of running
  workers. The next worker resumes from the committed snapshot.
* The proof needs that the name of the failed run's reporter is told apart from
  workers, in the initial state too (`ConstantsAssumption`).

## 5. The activation of a pipeline

| Module | What it is |
|---|---|
| `PipelineActivation` | the detailed model: requests, the controllers that advance them, preflight jobs, and the services they hand over |
| `SensorClaims` | implemented a second time, by monitors that replace each other |
| `MCPipelineActivation` | the readings each request asks for, and symmetry |
| `PipelineActivationProofs` | the inductive invariant, every safety property and the refinement, for any number of requests and controllers |

### State and actions

`act` holds the rows of `monitoring_pipeline_activations`: `token` and `leased`
are `controller_token` and whether `lease_expires_at` is still ahead, `retired`
is `retirement_started`, `late` whether the heartbeat deadline has passed. A
request, the service it starts and the run reserved for it share one identity,
so `run[a]` and `svc[a]` are the run and the service of activation `a`, and a
predecessor is the service of an earlier activation. `svc` keeps less than the
`rows` of `RadarLifecycle`: the intent, the claim, whether the workload is
attached, who set the stage to `failed`, and when the first healthy heartbeat
was received. `worker` are the services with an admitted worker. `jobs` are the
preflight services in Docker, `calls` creations of them that nobody waits for
any more, `sweep` the job that the sweep has decided to remove. `ctl` are the
tasks that run `advance`: where in its phase each of them is. One action is one
transaction under the collection lock or one remote call.

| Code | Actions |
|---|---|
| `_submit`, `_claims`, `claim_owners` | `Submit` |
| `cancel`; `delete_radar_service`, `stop_radar_service` | `RequestCancel`; `DeleteService` |
| `advance`, `_owned_row`, `_record_controller_error` | `Take`, `Lose`, `RecordError`, `Finish` |
| `_preflight`, `PipelinePreflight.run` | `Preflight`, `EnsureJob`, `ReadReport`, `RemoveJob`, `Preflighted` |
| `_validated` | `Validated` |
| `_retire`, `retire_service` | `Retire`, `AwaitShutdown`, `PurgeRow`, `Retired` |
| `_start`, `create_radar_service`, `complete_creation` | `Start`, `Launch`, `CreateWorkload`, `Started` |
| `_verify` | `Verify` |
| `_cancel`, `_require_deleting`, `remove_for` | `CloseRun`, `DeleteSuccessor`, `AwaitShutdown`, `PurgeRow`, `RequireDeleting`, `Stopped`, `CleanUpJob`, `End` |
| `PreflightOrphans.sweep`, `_needed` | `SweepRead`, `SweepRemove` |
| the lifecycle of section 3, workers, clocks, faults | `GiveUp`, `ServiceRemoved`, `RecoverPending`, `WorkerStarts`, `WorkerStops`, `Heartbeat`, `WorkerFails`, `DeadlinePasses`, `LeaseExpires`, `DelayedJob`, `RemoteFails`, `Crash` |

Abstractions. A remote removal waits until no worker is left; that it does is
what section 3 shows of `remove` and `remove_intent`, and a removal from outside
Docker is left to that section. A worker may start as soon as the intent is
durable, before its workload is attached. The report of a preflight, and whether
the inputs are still those of the request, are free choices. Removing a job that
is gone does nothing, so the sweep reads a job of its list just before it reads
the phase. Designs, bindings and the capacity groups of the supervisor are left
out; so is the idempotency key, since a repeated request returns before anything
is written.

### Runs

| Run | Instance | Question |
|---|---|---|
| `activation` | 2 requests for one of 2 readings each, 1 controller, room for 1 monitor, 1 fault | does a hand-over, or its cancellation at any point, keep every reading with one monitor and the number of monitors within the limit; does an accepted cancellation spare the predecessor; is `SensorClaims` implemented |
| `activation_fenced` | a running monitor and 1 request, 2 controllers, 1 fault | what can a controller still do that lost its lease in the middle of a phase; does the sweep spare a running preflight |
| `activation_progress` | a running monitor and 1 request, 1 controller, 1 fault, fair | does every request end, does every preflight job go |

Bounds. The second request replaces the first or competes with it, for the same
reading or for another; a third could only wait for one of them. `Deployed`
starts a run with a monitor whose own activation is over. Two controllers are
the one that lost its lease and the one that took over. `MaxFaults` bounds
crashes, failed calls and leases that end before the work under them; a crash
needs no second fault for its lease to expire.

Fairness. Every await of a controller returns (`WF(Step)`). The supervisor looks
for pending activations every second, oldest first, so each is taken again and
again (`SF(Take)`), and a phase that lasts is once taken after its budget (`SF`
of `Take` with `expired`). Leases of dead controllers expire, deadlines pass,
Docker ends the workers it was told to remove, the sweep comes back every
second. Nothing is assumed of users, workers, heartbeats, faults or late calls.

### What is shown

* `ReadingsExclusive` and `CapacityHeld` (in `HandOverInvariant`): no moment of a
  replacement, with requests, removals and failures around it, has two monitors,
  workers included, on a reading, or one monitor too many.
* `RefinesClaims`: a worker never outlives its claim and a claim given up is not
  taken again, also along the removals of an activation.
* `PhasesForward`, `EndedLeavesNothing`: the token and the lease fence every
  transition after a remote call. The launch is the one write of a controller
  that the token does not fence; the check of the phase and of the run in the
  same transaction is what keeps a cancelled activation from leaving a monitor.
* `CancelSparesPredecessor`: once accepted before retirement, a cancellation
  never loses to it.
* `SweepSparesPreflight`: the sweep acts on a phase it read in an earlier
  transaction; that is safe because `preflighting` is never entered again.
* `ActivationEnds`, `PreflightReaped`: liveness.

All of them but the two of liveness are proved, for any number of requests and
controllers (`HandOver`, `ActivationImplementsClaims`, `PhasesGoForward`,
`EndedLeaves`, `CancellationSpares`, `SweepSpares`). The inductive invariant is
`Whole`:

* `ActivationWhole` is what is whole about an activation with its run and its
  service. Two clauses of it carry most of the argument: what is replaced belongs
  to an activation that has ended, so no controller but a late one works on it;
  and once the successor may be there, the row of the predecessor is gone.
* `TaskWhole` says what a controller at each point of its program may rely on, one
  that lost its lease included. It rests only on facts that no other controller
  takes back: that a run is over, that an intent is no longer `running`, that the
  last worker of a service which may not start again is gone.
* `ClaimsApart`, `JobsKnown` and `OwnersCounted` are the rest of the state:
  claims do not overlap, a job is of an activation that was in preflight, and
  whoever owns a slot was counted. The capacity follows by mapping each monitor or
  worker one to one to the owner of its slot.

Every step is of one kind (`Kind`): it leaves rows and services alone (`Steady`),
it moves one activation (`Advances`), or it changes one service (`Serves`); the
action properties and the refinement are proved per kind.

The theorems assume that a request asks for at least one reading
(`core/schemas/pipelines.py:103`, `min_length=1`): the row that a request
replaces is found by a common reading, which is what keeps it from replacing one
that is pending. They assume that finitely many monitors run at the start.


Observations made while modelling:

* `docs/user-guide/monitoring.md:343-344` says that **Cancel start** stops a
  start. A cancellation that is accepted between the two transactions of a
  verification is lost: `advance` has read `cancel_requested` before, `_verify`
  (`activation.py:838`) does not read it, and the activation succeeds with the
  monitor running.
* A launch that fails once leaves the stage `failed` in the row, and the retry
  that attaches the workload does not clear it. `_verify` may run before the first
  heartbeat, takes the stage for a report of the worker
  (`activation.py:833-834`) and cancels the activation as "Successor reported a
  failed runtime", although `radar_lifecycle.py:29-30` calls the generation
  recoverable.

## 6. The Dojo's queue

`DojoQueue` models `dojo_runs` (`run`), `dojo_run_results` (`stored`), the frozen
`datasets` and the worker processes. A worker claims a run (`Claim`, with the
rows it first fails: `FailUnclaimed`, `FailStale`), replays its points (`Advance`,
`LoseRun`, `ReplayFails`), keeps it alive (`KeepAlive`, `KeepAliveFails`), stores
results in batches (`Flush`), ends it (`Finish`, `ReportFailure`) or gives it back
at a shutdown (`Release`, `Stop`, `Exit`); `Crash` and `Start` are the process,
`HeartbeatAges` the clock. `Create`, `Cancel`, `Remove` and `RemoveDataset` are
requests of members. Every write of a worker is one transaction that first asks
whether the row still names the worker; each ends in one of the three ways
`Committed`, `RolledBack` and `ReplyLost`. `RunOutcomes` is what members are
promised: outcomes are final, an accepted cancellation is followed by neither a
success nor another attempt, an attempt starts without results. Left out: the
replayed detector, and results that one point may not give.

The run `dojo` has two runs over one dataset of two points, two workers and two
faults (crashes, lost replies, late heartbeats). Two workers are the one that
lost a run and the one that has it now; with two points there is a batch that is
stored, one that is under way, and one that is repeated. Fairness: the loop and
the keep-alive of a worker go on (`WF(Work)`, `WF(KeepAlive)`), and the heartbeat
of a run that nobody executes ages.

* `QueueHolds` (proved): `ResultsMatchRow`, `ActiveRunsKeepData`, `OneReplay`,
  `RowsAreWhole`, `ProcessesAreWhole`. The results stored are exactly those the row
  counts although batches are repeated after a lost reply; a run in execution is
  in one process, which knows its results, and takes nothing for a cancellation
  that is none. The inductive invariant is stated of one row and of one process
  (`RowWhole`, `ProcessWhole`), since almost every step touches one of each.
* `KeepsPromise` (proved): every step is a step of `RunOutcomes` or a stutter.
* `RunsEnd`, model-checked: every run ends, whatever became of its worker.

The theorems hold for every set of workers and datasets and every finite or
infinite set of runs numbered from 1 (`Run \subseteq Nat \ {0}`: 0 stands for no
run in a process).

## 7. The collection's revisions

`Collection` models the row that TACTIC's ingress and the collector share
(`row`), the last-value `cache`, who holds the advisory lock (`leader`), the
transactions that passed the fence (`effect`), the ingress (`ing`) and the
collectors (`col`). A reading is represented by the generation it was forwarded
under. `Select` and `Describe` are edits that change what is selected, or only
names; `IngressStart`, `IngressStep`, `IngressSave`, `IngressFails` the ingress;
`Acquire`, `Poll`, `Connect`, `Adopt`, `Compare`, `Apply`, `Drain`, `Subscribe`,
`Activate`, `Recover` the preparation of a revision by a collector; `Receive`,
`Emit`, `EmitCommit`, `EmitFails`, `Published`, `Write` the way of a reading;
`Stop`, `OwnershipLost`, `BrokerDrops`, `Crash` what may go wrong with it. The
buffer's and the writer's details are `TelemetryWriter` (section 8).

| Run | Instance | Question |
|---|---|---|
| `collection` | 2 collectors, 2 revisions, 2 selections and none, 1 fault, fair | is what the present revision shows of its generation; has a collector that was taken over an effect; does the last revision come into force |
| `collection_generation` | 1 collector, 3 revisions, selections may be brought back | expected violation of `IngressAwaitsListener` |

Fairness: every await returns and the loops come round (`WF` of the ingress, of
the collector's loop and of what it queued); a collector polls however much there
is to emit (`SF(Poll)`); edits and faults are bounded.

* `CollectionHolds` (proved, under `Reverts = FALSE`): once the row says that the
  present revision is prepared, nothing of another generation is in the cache, in
  an open transaction, or with the leader on its way there. The inductive invariant
  adds `Known` (what rests on a revision that was read is the present one or an
  earlier one), `Stages` (what a stage of the loop has emptied) and `Leading` (what
  is clean with a leader that prepared the generation, and with one that took over
  a row already called prepared by its predecessor).
* `TakenOverIsSilent` (proved): a collector that was taken over writes nothing it
  had queued and gets nothing to the broker that it had published.
* `RevisionApplied`, model-checked: when edits and faults end, both report the
  last revision applied, and what the ingress forwards is collected.

*Finding* (`collection_generation`). `_step` says "Wait until the collector is
listening to this unique generation" (`tactic/services/catalogue/system_ingress.py:577`).
The fingerprint by which a collector decides whether a revision needs preparing
leaves the generation out (`core/schemas/system_collection.py:160`,
`proxy/proxy.py:133-145`). A selection changed and changed back between two polls
has the fingerprint of the one it has prepared: the collector reports the new
revision applied while it is subscribed to the topics of the old generation, and
the ingress forwards to topics nobody listens to. With such edits `OnlyPresent`
fails as well, since old readings stay in the cache: hence `Reverts = FALSE` in
the theorem and in `collection`.

## 8. The parts that work alone

Twenty-two smaller parts do not share state with the specifications above, or
share only what these abstract. Each is a module with its own `Init`, `Next` and
named properties, and `Services` is their sum: a variable `turn`, chosen in the
initial state, says which part a behaviour is of; `Alone` lets that part move and
keeps the others where they begin. A part that does not move is not there (its
variables are 0, or one of its initial states where an action property has to be
able to look at it). The reachable states of the sum are thus the disjoint union
of those of the parts, and checking the sum checks each part by itself; nothing is
claimed of two parts together. What the parts promise is gathered by theme:

| Theme | Part: promises |
|---|---|
| `NothingLost` | `TelemetryWriter`: every record offered is pending, in the batch, stored or reported as rejected, once, within bounds (`Accounted`, `Bounded`). `BrokerSupervision`: the inbox counts its bytes (`QueueCounted`). `RadarWorker`: every message taken in is queued, handled, or counted, and evidence is stored before the snapshot that rests on it (`EveryMessage`, `EvidenceFirst`). `RunEvents`: an event is stored, waiting in order or counted as dropped (`NoEventForgotten`, `WaitingInOrder`). `DetectorRun`: every observation is trained on, calibrated on, scored or counted as skipped (`EveryObservation`). `LiveView`: a page lacks nothing that is current (`ViewComplete`). `EvidenceReads`: a chart that reads forward misses no row (`ChartWhole`). `Alarms`: pages list each alarm that stays once (`AlarmsListed`). `PipelineLibrary`: nobody overwrites what he has not seen, versions count edits, a version is published once (`OverWhatWasSeen`, `VersionsTrue`, `PublishedOnce`). |
| `ShownTruly` | `BrokerSupervision`: a broker shown as connected is, none is forgotten. `RadarWorker`: a missed message shows as a gap. `RunEvents`: healthy means no alert. `DetectorRun`: alarms are counted once. `LiveView`: exactly what is leased is observed. `DatasetLabels`: labels do not overlap. `PipelineLibrary`: pages of revisions are whole. `Migration`: a database shown as ready is current, the ledger tells the schema, and steps run once and in order. `TopicClaims`: no message reaches two monitors, each finds its reading. `CollectionHealth`: the verdict is about what is saved and is so now. `Alarms`: a reading that is offered has the alarms it is offered with. |
| `ModelKept` | `DetectorRun`: a baseline is fitted once, from its windows; no detector scores before it learned enough; no snapshot holds an uncertain state. `SensorAlignment`: no snapshot holds a reading newer than what was accepted. |
| `ComputedRight` | `PreparedStage` over `PipelineDesign`: a design that compiles is sound, a reverted observation leaves no trace, ranges hold. `Formula`: a text is read as meant, and what its analysis says holds of every row. `Datasets`: a dataset is what it says of itself, and the whole of its file (`DatasetTrue`, `WholeFile`). `DatasetLabels`: the metrics are what labels and alarms say. `PipelineLibrary`: a walk through the history of a run passes every predecessor. |
| `StaysOperable` | `ReleaseDeployment`: no monitor is lost, runs beside its replacement or has two. `Membership`: somebody can manage, links fit, one secret is in use. `Catalogue`: what a running monitor reads is recorded. `Favorites`: no more than `MAX_FAVORITES` are kept. |
| `EveryStepSound` | `SensorAlignment`: a vector never goes back in time. `LiveView`: dropped samples show as a gap. `Membership`: access that ended is not had again. `Retention`: only the oldest data is dropped, a run of the cap ends within it or with the days that were not over when it began, and every start puts the jobs in order without touching an operator's schedule. `Catalogue`: new readings wait for a review, revisions tell of changes, one change at a time. |
| `ServicesProgress` | a drain is answered, brokers that come back are recorded from, a worker gets its broker back or ends, a fit ends |

Five of the themes are proved for every value of the constants: `NothingLost`,
`ShownTruly`, `ModelKept`, `StaysOperable` and `EveryStepSound` (`NothingEverLost`,
`AlwaysShownTruly`, `ModelAlwaysKept`, `AlwaysOperable`, `StepsAlwaysSound`, and one
theorem for each action property of the last). The inductive invariant is
`PartWhole`: the part whose turn it is keeps an invariant of its own.

| Part | Invariant | What makes it inductive |
|---|---|---|
| `TelemetryWriter` | `WriterWhole` | no row is held twice; a loop that waits has no batch, one that tries or retains has one |
| `BrokerSupervision` | `BrokersWhole` | of each broker (`InHand`): who is in charge is a client of that broker, a backoff has none, what is shown as connected is up, and a broker without a connection has a deadline or a retry |
| `RadarWorker` | `WorkerWhole` | who holds the lock and where it is with it (`Locked`); every message is counted, but the one under way (`Counted`); what is saved, or is being saved, is covered by evidence (`Saved`) |
| `RunEvents` | `EventsWhole` | what waits are the newest events, in order; a heartbeat carries what waits, or what waited before a failure took it over; what nobody knows of was counted |
| `DetectorRun` | `DetectorWhole` | what was trained on is what the windows, the phase and the counters say, in the state, in the last snapshot and in the observations a background fit was submitted with (`Whole`, `Follows`, `FitOf`) |
| | `DetectorCounted` | beside it, in the state and in the snapshot: every observation is counted where it went, and the alarms are those raised where a window of the horizon begins or the value before did not cross |
| `SensorAlignment` | `AlignmentWhole` | a reading that was not yet emitted is later than its sensor's time in the last vector (`NewIsLater`) |
| `EvidenceReads` | `ChartsWhole` | what a writer inserted is later than all that is committed; a chart lacks only rows that come after its cursor, or came before its first page |
| `Alarms` | `AlarmsWhole` | no id comes back; what was there when the question was asked is on a page, or older than the cursor |
| `ReleaseDeployment` | `ReleaseWhole` | a replacement is not of the list and comes after its monitor was stopped; every monitor that was halted is noted, but the one whose command was killed in between |
| `Membership` | `MembersWhole` | rows and links fit each other; one secret of a sign-in is in use; a rotation holds the row it read; somebody manages as soon as anybody is a member |
| `Catalogue` | `CatalogueWhole` | bindings, rules and policies of a definition agree; a change that waits for monitors was proposed of the present definition, unless a revision has changed since, which its guard finds |
| `Favorites` | `FavoritesWhole` | one addition at a time holds the member's row, and what it found or counted holds until it ends |
| `Retention` | `RetentionWhole` | what a run of the cap dropped, and is about to drop, is of days that were over when it began, and nothing that it sees, whatever came since, is older; a job that is not there has no schedule (`RunWhole`) |
| `LiveView` | `LiveWhole` | samples are numbered up to the sequence, and no cursor below `minimum` is valid; every operation is a chain of parts that each cover what they drop (`Covers`, `Answerable`) |
| | `ViewWhole` | beside it: along the same chain, leases, connections, deadlines and records fit each other (`ViewSound`), a session shows what is asked for (`SessionFits`), and what is not newer than a page's cursor the page has seen (`PageFits`, `Succeeds`) |
| `PipelineLibrary` | `LibraryWhole` | one transaction at a time holds the row, over what its author saw; a version is the version of one state; fewer revisions than versions |
| `Migration` | `MigrationWhole` | one upgrade at a time; its ledger is that of the database it began with and of what it passed since, and what it defers it runs in order after the conversion (`Begun`) |
| `TopicClaims` | `ClaimsWhole` | filters overlap exactly when some topic matches both (`OverlapShares`, `SharedOverlaps`), so disjoint claims have no topic in common; the names of a claim are apart |
| `CollectionHealth` | `HealthWhole` | what the samples say of the messages that came and of the last one, and with it what a report said when it was written, and says no longer than it is fresh |
| `DatasetLabels` | `LabelsWhole` | one author at a time holds the lock, and what was checked under it holds until the commit |

The samples of `LiveView` are a set, ordered by their numbers, where the code keeps
a dictionary in that order; `Oldest` is the first of it.

Fairness is the sum of each part's: `First` and `Second` are the loops and awaits
of the part whose turn it is (the writer's loop, the ingress's upkeep, a worker's
reconnect, the background fit); a broker's callbacks (`SF`) come again and again.
Since `turn` never changes, one condition over the moving part's variables stands
for one per part.

Bounds (`Services.cfg`). They are chosen per part so that its interesting case
happens: a full batch with one row to reject (3 records, batch 2); one broker with
3 attempts, so that a callback of the first arrives when the third is in charge;
a worker that starts twice with a queue of 1 and 2 messages or faults; 2 sensors
and 2 chargers of which 1 is remembered; 2 pending events and 3 checks; some
hundred designs (chains of two steps, branches, joins, learning steps, wide
graphs) with 3 observations; 2 detectors, windows of 2 and 1, 6 observations; 2
monitors of which one has a saved launch, killed once; 2 leases over 2 brokers
and 3 streams, with a revision that drops one broker; formulas of at most 2
operations over ranges with infinity and around 0; 2 members, one custom role, 2
secrets; files of every kind of header; a database of any of 3 ages and 2
releases that follow each other and one that does not; 3 days and 2 rows, with 2
edits or starts, also during a run of the cap; 2 editors and 3 documents; 3 monitors claiming from 11 lists of filters; reports
older and newer than the clock; 2 writers of 3 rows in pages of 1; 2 alarms over 3
readings; 2 additions beside removals with room for 2 of 3 favorites.

Observations made while modelling the parts:

* Release: an abort between `stop_radar_service`'s commit and noting `stopped`
  does not report that monitor; a replacement created but not recorded is reported
  as not restarted; runs reserved by an aborted release stay `reserved`.
* Message path: `_on_subscribe` checks and then acts beside `_close_client`; the
  model takes a callback as one step. After `_fatal_error` a message is let go
  uncounted (`radar/service.py:417-421`).
* Run events: a failure report drains events while a heartbeat that carries them
  is in flight, or after its reply was lost, and they are stored twice; an ordinary
  stop loses unsent events; losses before the first health check count as history.
* Ingress: a broker whose client fails to initialise, or is blocked, is not
  retried; `_evict_oldest_entries` and `_process_failed` are unreachable.
* Retention: `now()` is that of the transaction, so a run of the cap over midnight
  leaves the day that ended meanwhile to the next run, though the tables are over
  the cap (`retention.py:53`), and works to its end with the limit it began with. What
  it drops is locked until it commits and is kept if it fails; deleting its job ends it.
* Collection health: the verdicts `ingress_disabled` and `broker_routes_failed` are
  for states nobody writes today; `waiting_for_measurements` needs a report without
  diagnostics.
* Live view: an operation that read the catalogue before the lock may stop the
  workers of a newer session; the next poll starts them again. A restart of TACTIC,
  which begins the sequence at 0 again (`system_live.py:577`), is not modelled.
* Formula: the error "every observation would be skipped" is not true of
  short-circuiting conditions, nor of a clip with swapped ends.
* Accounts: a rotation that commits while its sign-in is being revoked leaves its
  new secret.
* Alarms: `api/v1/alarms.py:63-66` of the gateway says that a multivariate alarm
  without recorded readings "belongs to every reading of its device", but
  `alarm_catalogue.py:30-34` returns it only when every reading of the device is
  selected.
* Favorites: a removal between an addition's commit and its final read makes the
  addition answer with an error although it was stored (`favorites.py:57`).
* Evidence: a retried transaction whose rows are already stored keeps their
  `created` (`on_conflict_do_nothing`).

Abstractions, beside those that the modules name: exponential smoothing, log and
square root, standard deviation and mean, and percentages other than by integer
division are left out of the Prepare stage; functions and exponents with irrational
values out of formulas; SQL text and lock timeouts out of migrations (`Abort` stands
for them); CSV cell texts and the median delay out of datasets; access checks,
labels and previews out of the catalogue; the catalogue that changes between two
pages out of alarms; blanks around levels out of topics. A release takes one
command at a time; `PipelineLibrary` claims nothing of the list of designs, which
pages by offset over `updated_at`.

## 9. Proofs

All theorems are checked by TLAPS with Z3, Zenon and LS4; none rests on an
unproved step. They hold for every value of the constants that satisfies the named
`ASSUME` of the module and the hypothesis stated here:

| Theorem | Property | Hypothesis |
|---|---|---|
| `TypeCorrect`, `ClaimsExclusive` | `TypeOK`, `ExclusiveClaims` | - |
| `ClaimCovers`, `LifecycleImplementsClaims`, `LifecycleHolds`, `SweepSpares` | `ClaimCoversWorker`, `RefinesClaims`, `LifecycleInvariant`, `SweepSparesRunning` | `MaxExternal = 0` |
| `NeverRevived`, `HeartbeatWins`, `StopsAwaitTasks` | `NoRevival`, `NoFailureOverHeartbeat`, `StopAwaitsTask` | - |
| `ResultsAccounted`, `SavedStateCovered`, `NeverFencedBySelf`, `FailureNotOverwritten`, `UncertainSavesNothing`, `WorkersKeepRecord` | `WriterInvariant`, `RecordInvariant`, `NoSelfFence`, `FailureStays`, `UncertainNeverSaved`, `RefinesRunRecord` | - |
| `QueueHolds`, `KeepsPromise` | `QueueInvariant`, `RefinesOutcomes` | - |
| `CollectionHolds`, `TakenOverIsSilent` | `CollectionInvariant`, `NoStaleEffect` | `Reverts = FALSE` for the first |
| `NothingEverLost`, `AlwaysShownTruly` (of `Services`) | `NothingLost`, `ShownTruly` | - |
| `ModelAlwaysKept`, `AlwaysOperable` (of `Services`) | `ModelKept`, `StaysOperable` | - |
| `StepsAlwaysSound` (of `Services`) | `EveryStepSound` | - |
| `VectorsAlwaysAdvance`, `GapsAlwaysShown`, `AccessAlwaysEnds`, `OldestAlwaysGoes`, `CapAlwaysHolds`, `SchedulesAlwaysKept`, `ReadingsAlwaysWait`, `ChangesAlwaysApart`, `RevisionsAlwaysTell` | the conjuncts of `EveryStepSound` | - |
| `OverlapIsExact` (of `TopicClaims`) | -: what `ShownTruly` says of topics rests on it | the filters fit (`FilterFits`) |
| `HandOver`, `EndedLeaves`, `PhasesGoForward`, `CancellationSpares`, `SweepSpares` (of activations) | `HandOverInvariant`, `EndedLeavesNothing`, `PhasesForward`, `CancelSparesPredecessor`, `SweepSparesPreflight` | - |
| `ActivationImplementsClaims` | `RefinesClaims` | `Deployed = {}` |

`MaxExternal = 0` and `Reverts = FALSE` are not technical: section 3 and section 7
say what happens without them. `Deployed = {}` only says that `SensorClaims`
begins before the first monitor; the other theorems about activations hold with
any monitors running at the start.

The assumptions on constants of `Services` (`ModelAssumption`,
`AdministrationAssumption`, `PartsAssumption`) are that bounds and sizes are natural
numbers, windows, queues, pages, batches, retention days and `MAX_FAVORITES` positive
as the settings and the limits in the code are, and that prefixes and topics have a
length; that there are finitely many services in a release and readings in a live
view, whose brokers are numbered from 1; that the monitors of a release are services and `NoService` is none; that the
four migrations the code knows by number are in that order and in every release; that
the levels of topics are not wildcards and the claims of earlier versions are valid
filters; that the proxy keeps two samples of its counters more than a rate's window
has ticks; and that no reading of an alarm is named like the multivariate key.

How the proofs are laid out. What an action does to one record (one worker's, one
agent's, one collector's) is first said as a relation between the record before and
after it; a case lemma then says that every step is one of a few such kinds
(`StepCases`, `NextCases`), and each conjunct of the invariant is preserved per
kind. The inductive invariants were checked by TLC before they were proved, and
attempts that failed corrected the models: an attachment whose conclusion bound to
one disjunct only, a name that was not told apart from workers, and a clause that
said less of a transaction under way than the code ensures.

Only model-checked:

* liveness (`ClaimsReleased`, `OrphanRemoved`, `StopsInTheEnd`, `QuarantineEnds`,
  `ActivationEnds`, `PreflightReaped`, `RunsEnd`, `RevisionApplied`,
  `ServicesProgress`): fairness and `ENABLED` are beyond the proof system;
* the theme `ComputedRight` of `Services`. Designs, formulas, files, the metrics of
  labels and the walk through a history are computed by folds and recursive functions
  over their data (`PipelineDesign`, `PreparedStage`, `Formula`, `Datasets`,
  `DatasetLabels`, `PipelineLibrary`): what those compute for every input needs
  induction over data, which the installed provers cannot do. Where a part needs no
  more than the least of some numbers (the nearest rule, the oldest sample, what is
  pruned, a free number), its proof rests on there being one (`LeastNumber`, `LeastOf`).

## 10. Not modelled, and why

`PROJECT.json` lists every component with what is left out of it. Real-valued
statistics (scores, martingales, models) are out of TLC's reach. The API and process
of TACTIC decode requests and start loops; the gateway forwards requests without
state of its own; the specification of a worker renders environment variables; the
frontend presents what the gateway answers; Ansible roles and scripts drive Docker
and the release commands. None of them keeps state whose steps could interleave.
