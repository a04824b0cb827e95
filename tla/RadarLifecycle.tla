--------------------------- MODULE RadarLifecycle ---------------------------
(***************************************************************************)
(* The life of a RADAR monitor: a row of the "services" table holds the    *)
(* durable intent and the claim on the monitor's readings, a Docker Swarm  *)
(* service holds the worker.  The two cannot be changed in one             *)
(* transaction, and several tasks of TACTIC (requests, the reconciler,     *)
(* pipeline activations, collection changes) work on both at the same      *)
(* time.  Each such task is an "agent" here; every action of an agent is   *)
(* one database transaction or one remote Docker call, so that everything  *)
(* the code can interleave between two awaits is interleaved.              *)
(*                                                                         *)
(* Only managed monitors (rows with a config_fingerprint) are modelled.    *)
(***************************************************************************)
EXTENDS Naturals, FiniteSets

CONSTANTS
  Monitor,       \* service ids; an id is assigned once, with its run
  NoMonitor,     \* the monitor of an idle agent
  Agent,         \* tasks of TACTIC that may act at the same time
  Overlap,       \* symmetric: the pairs whose MQTT topic filters overlap
  MaxWorkloads,  \* bound: Swarm services created under one durable name
  MaxVersion,    \* bound: lifecycle_version at which inputs may still change
  MaxFaults,     \* bound: crashes, timeouts and failed remote calls
  MaxExternal    \* bound: services removed behind TACTIC's back

ASSUME ConstantsAssumption ==
  /\ NoMonitor \notin Monitor
  /\ Overlap \in SUBSET (Monitor \X Monitor)
  /\ \A m, n \in Monitor : <<m, n>> \in Overlap => <<n, m>> \in Overlap
  /\ MaxWorkloads \in Nat \ {0}
  /\ MaxVersion \in Nat \ {0}
  /\ MaxFaults \in Nat
  /\ MaxExternal \in Nat

VARIABLES
  rows,      \* services: the durable intent of each monitor, or NoRow
  runs,      \* monitoring_pipeline_runs: outcome of each monitor's run
  svc,       \* Docker: the Swarm service under the name radar-<id>, or NoService
  created,   \* Docker: how many services ever had that name (their ids)
  label,     \* Docker: lifecycle version each of those services was made for
  task,      \* Docker: the task of each of those services
  inflight,  \* create calls Docker received whose caller gave up waiting
  agents,    \* what each task of TACTIC is doing
  fresh,     \* agents whose snapshot still shows operational_updated_at
  faults,    \* faults the environment may still inject
  external   \* external removals still to come

docker == <<svc, created, label, task, inflight, external>>
vars == <<rows, runs, docker, agents, fresh, faults>>

-----------------------------------------------------------------------------
Workload == 1 .. MaxWorkloads
NoWorkload == 0
Version == Nat

\* "terminal" stands for the stages in ABANDONED_STAGES, "live" for the others.
Stage == {"live", "terminal"}

Row == [desired : {"running", "stopped", "deleted", "absent"},
        version : Version,
        stop    : BOOLEAN,                      \* stop_requested_at is set
        cid     : Workload \cup {NoWorkload},   \* container_id
        status  : BOOLEAN,
        stage   : Stage]                        \* operational_stage

NoRow == [desired |-> "absent", version |-> 0, stop |-> FALSE,
          cid |-> NoWorkload, status |-> FALSE, stage |-> "terminal"]

Service == [id : Workload \cup {NoWorkload}, up : BOOLEAN]
NoService == [id |-> NoWorkload, up |-> FALSE]

TaskState == {"none", "starting", "admitted", "ended"}
Live == {"starting", "admitted"}
RunState == {"open", "failed", "ended"}

Creating == {"read", "find", "create", "validate", "attach", "confirm", "failed"}
Removing == {"removeId", "waitId", "removeName", "waitName"}
Removed == {"purge", "complete", "stopConfirmed"}
Observed == {"sawRunning", "sawTerminal"}
Pc == {"idle", "mark", "pauseRead", "cancel", "sweepRead", "inspect"}
        \cup Creating \cup Removing \cup Removed \cup Observed

\* Where a removal goes on: the transaction that needs it, or nowhere.
After == Removed \cup {"idle", "failed", "swept"}

AgentRecord == [pc   : Pc,
                mon  : Monitor \cup {NoMonitor},
                ver  : Version,                      \* version read or written
                wid  : Workload \cup {NoWorkload},   \* workload worked on
                snap : Row,                          \* snapshot of the row
                then : After]                        \* after the removal

AgentState == {s \in AgentRecord : s.pc # "idle" => s.mon \in Monitor}

Idle == [pc |-> "idle", mon |-> NoMonitor, ver |-> 0, wid |-> NoWorkload,
         snap |-> NoRow, then |-> "idle"]

TypeOK ==
  /\ rows \in [Monitor -> Row]
  /\ runs \in [Monitor -> RunState]
  /\ svc \in [Monitor -> Service]
  /\ created \in [Monitor -> 0 .. MaxWorkloads]
  /\ label \in [Monitor -> [Workload -> Version]]
  /\ task \in [Monitor -> [Workload -> TaskState]]
  /\ inflight \in SUBSET (Monitor \X Version)
  /\ agents \in [Agent -> AgentState]
  /\ fresh \in SUBSET Agent
  /\ faults \in 0 .. MaxFaults
  /\ external \in 0 .. MaxExternal

Init ==
  /\ rows = [m \in Monitor |-> NoRow]
  /\ runs = [m \in Monitor |-> "open"]     \* reserved with the activation
  /\ svc = [m \in Monitor |-> NoService]
  /\ created = [m \in Monitor |-> 0]
  /\ label = [m \in Monitor |-> [w \in Workload |-> 0]]
  /\ task = [m \in Monitor |-> [w \in Workload |-> "none"]]
  /\ inflight = {}
  /\ agents = [a \in Agent |-> Idle]
  /\ fresh = {}
  /\ faults = MaxFaults
  /\ external = MaxExternal

-----------------------------------------------------------------------------
(* The row and what the code asks of it.                                   *)

Present(m) == rows[m].desired # "absent"
RunEnded(m) == runs[m] # "open"

\* desired_state = 'running' AND stop_requested_at IS NULL
RunningIntent(m) == rows[m].desired = "running" /\ ~rows[m].stop

\* The row reserves its readings: nobody else may start on them.
Claims(m) == rows[m].status \/ rows[m].desired = "running"

Overlaps(m, n) == <<m, n>> \in Overlap

\* Writing operational_updated_at makes every older snapshot of it stale.
Touch(m) == fresh' = fresh \ {a \in Agent : agents[a].mon = m}

\* Mutant: the stop request gives the claim up at once.
RequestStopAndRelease(r) ==
  [r EXCEPT !.desired = "stopped", !.stop = TRUE, !.version = @ + 1, !.status = FALSE]

RequestStop(r) == [r EXCEPT !.desired = "stopped", !.stop = TRUE,
                            !.version = @ + 1]

\* Mutant: a desired state that no query knows.
MarkDeletingUnknown(r) ==
  [r EXCEPT !.desired = "deleting", !.stop = TRUE, !.version = @ + 1]

MarkDeleting(r) ==
  IF r.desired # "deleted" \/ ~r.stop
  THEN [r EXCEPT !.desired = "deleted", !.stop = TRUE, !.version = @ + 1]
  ELSE r

\* Mutant: the stopped row is handed back for another start.
CompleteStopRestartable(r) ==
  [r EXCEPT !.desired = "running", !.version = @ + 1, !.stage = "terminal", !.stop = FALSE]

CompleteStop(r) == [r EXCEPT !.status = FALSE, !.desired = "stopped",
                             !.version = @ + 1, !.stage = "terminal",
                             !.stop = FALSE]

\* End the run without replacing an outcome that is already recorded.
CompleteStoppedRun(m) ==
  runs' = [runs EXCEPT ![m] = IF @ = "open" THEN "ended" ELSE @]

PurgeRow(m) ==
  /\ CompleteStoppedRun(m)
  /\ rows' = [rows EXCEPT ![m] = NoRow]

CompleteRow(m) ==
  /\ CompleteStoppedRun(m)
  /\ rows' = [rows EXCEPT ![m] = CompleteStop(@)]

Mon(a) == agents[a].mon
At(a, pc) == agents[a].pc = pc
Become(a, s) == agents' = [agents EXCEPT ![a] = s]
Goto(a, pc) == agents' = [agents EXCEPT ![a].pc = pc]
Finish(a) == Become(a, Idle)
\* The collection lock is a transaction-level advisory lock; only a retire
\* that has read its row and not yet committed holds it across a step.
CollectionLocked == \E a \in Agent : At(a, "mark")

Begin(m, pc) == [Idle EXCEPT !.pc = pc, !.mon = m]
Fails(a) == Become(a, Begin(Mon(a), "failed"))

\* What a task remembers of a row it read.
Captured(r) == [r EXCEPT !.status = FALSE]

\* remove_intent or remove of workload w of m, going on at "then"
Remove(m, w, v, then) ==
  [Begin(m, "removeId") EXCEPT !.wid = w, !.ver = v, !.then = then]

-----------------------------------------------------------------------------
(* Creation: create_radar_service and RadarLifecycleController.            *)

\* Mutant: only monitors that want to run are asked, not those being stopped.
InputsFreeOfRunning(m) ==
  \A n \in Monitor \ {m} : rows[n].desired = "running" => ~Overlaps(m, n)

\* _pipeline_claims: no other monitor claims a reading of m.
InputsFree(m) == \A n \in Monitor \ {m} : Claims(n) => ~Overlaps(m, n)

\* create_radar_service for a pipeline activation: the claim check, the row
\* and the launch guard (the run has not ended) are one transaction under the
\* collection lock.  A managed row that is already there is resumed.
Launch(a, m) ==
  /\ agents[a] = Idle
  /\ ~CollectionLocked
  /\ ~RunEnded(m)
  /\ InputsFree(m)
  /\ \/ /\ ~Present(m)
        /\ rows' = [rows EXCEPT ![m] =
             [desired |-> "running", version |-> 1, stop |-> FALSE,
              cid |-> NoWorkload, status |-> TRUE, stage |-> "live"]]
     \/ /\ Present(m) /\ rows[m].status /\ RunningIntent(m)
        /\ UNCHANGED rows
  /\ Become(a, Begin(m, "read"))
  /\ UNCHANGED <<runs, docker, fresh, faults>>

\* recover_pending: the reconciler takes up a row that has no workload yet.
Recover(a, m) ==
  /\ agents[a] = Idle
  /\ RunningIntent(m) /\ rows[m].status /\ rows[m].cid = NoWorkload
  /\ Become(a, Begin(m, "read"))
  /\ UNCHANGED <<rows, runs, docker, fresh, faults>>

\* _complete_creation, first transaction: the intent and its version.
ReadIntent(a) ==
  /\ At(a, "read")
  /\ \/ ~RunningIntent(Mon(a)) /\ Fails(a)
     \/ RunningIntent(Mon(a)) /\ rows[Mon(a)].cid # NoWorkload /\ Finish(a)
     \/ /\ RunningIntent(Mon(a)) /\ rows[Mon(a)].cid = NoWorkload
        /\ agents' = [agents EXCEPT ![a].pc = "find",
                                    ![a].ver = rows[Mon(a)].version]
  /\ UNCHANGED <<rows, runs, docker, fresh, faults>>

\* The workload an agent found or created must carry the labels of the
\* generation it works for (has_labels in ensure).
Adopt(a, w, v) ==
  IF v = agents[a].ver
  THEN agents' = [agents EXCEPT ![a].pc = "validate", ![a].wid = w]
  ELSE Fails(a)

AdoptExisting(a, m) == Adopt(a, svc[m].id, label[m][svc[m].id])

FindWorkload(a) ==
  /\ At(a, "find")
  /\ IF svc[Mon(a)] = NoService
     THEN Goto(a, "create") ELSE AdoptExisting(a, Mon(a))
  /\ UNCHANGED <<rows, runs, docker, fresh, faults>>

\* Docker creates the service of m for generation v, unless its name is taken.
CanCreate(m) == svc[m] = NoService /\ created[m] < MaxWorkloads

NewId(m) == created[m] + 1

DockerCreate(m, v) ==
  /\ svc' = [svc EXCEPT ![m] = [id |-> NewId(m), up |-> TRUE]]
  /\ created' = [created EXCEPT ![m] = NewId(m)]
  /\ label' = [label EXCEPT ![m][NewId(m)] = v]

\* services.create; a 409 means another controller or a delayed call won.
CreateWorkload(a) ==
  LET m == Mon(a) IN
  /\ At(a, "create")
  /\ \/ /\ CanCreate(m)
        /\ DockerCreate(m, agents[a].ver)
        /\ Adopt(a, NewId(m), agents[a].ver)
     \/ /\ svc[m] # NoService
        /\ AdoptExisting(a, m)
        /\ UNCHANGED <<svc, created, label>>
     \/ /\ svc[m] = NoService /\ created[m] = MaxWorkloads   \* Docker refuses
        /\ Fails(a)
        /\ UNCHANGED <<svc, created, label>>
  /\ UNCHANGED <<rows, runs, task, inflight, external, fresh, faults>>

\* The caller gives up (timeout, lost connection, crash of the process) after
\* Docker has received the call: the outcome is unknown.
AbandonCreate(a) ==
  /\ At(a, "create")
  /\ faults > 0
  /\ inflight' = inflight \cup {<<Mon(a), agents[a].ver>>}
  /\ \/ Fails(a)
     \/ Finish(a)
  /\ faults' = faults - 1
  /\ UNCHANGED <<rows, runs, svc, created, label, task, external, fresh>>

\* Docker carries out, at any later time, a create call nobody waits for.
DelayedCreate(m, v) ==
  /\ <<m, v>> \in inflight
  /\ inflight' = inflight \ {<<m, v>>}
  /\ IF CanCreate(m) THEN DockerCreate(m, v) ELSE UNCHANGED <<svc, created, label>>
  /\ UNCHANGED <<rows, runs, task, external, agents, fresh, faults>>

\* validate_started, after the grace period: the newest task has not ended.
Validate(a) ==
  /\ At(a, "validate")
  /\ IF /\ svc[Mon(a)].id = agents[a].wid
        /\ task[Mon(a)][agents[a].wid] # "ended"
     THEN Goto(a, "attach") ELSE Fails(a)
  /\ UNCHANGED <<rows, runs, docker, fresh, faults>>

\* The conditional update that attaches the workload to its generation.
Attach(a) ==
  LET m == Mon(a) IN
  /\ At(a, "attach")
  /\ rows' = [rows EXCEPT ![m].cid =
       IF /\ RunningIntent(m)
          /\ rows[m].version = agents[a].ver
          /\ @ = NoWorkload
       THEN agents[a].wid ELSE @]
  /\ Goto(a, "confirm")
  /\ UNCHANGED <<runs, docker, fresh, faults>>

OwnsWorkload(a) ==
  /\ RunningIntent(Mon(a))
  /\ rows[Mon(a)].version = agents[a].ver
  /\ rows[Mon(a)].cid = agents[a].wid

\* Read the row again: a creation that lost its intent removes its workload
\* and then fails.
Confirm(a) ==
  /\ At(a, "confirm")
  /\ IF OwnsWorkload(a)
     THEN Finish(a)
     ELSE Become(a, Remove(Mon(a), agents[a].wid, 0, "failed"))
  /\ UNCHANGED <<rows, runs, docker, fresh, faults>>

\* A remote call or transaction of the creation raises.
CreationFails(a) ==
  /\ agents[a].pc \in {"read", "find", "create", "validate", "attach"}
  /\ faults > 0
  /\ Fails(a)
  /\ faults' = faults - 1
  /\ UNCHANGED <<rows, runs, docker, fresh>>

\* complete_creation's handler: a pending row becomes a visible failed launch
\* and keeps its claim.
RecordFailure(a) ==
  LET m == Mon(a) IN
  /\ At(a, "failed")
  /\ IF RunningIntent(m) /\ rows[m].cid = NoWorkload
     THEN rows' = [rows EXCEPT ![m].stage = "terminal"] /\ Touch(m)
     ELSE UNCHANGED <<rows, fresh>>
  /\ Finish(a)
  /\ UNCHANGED <<runs, docker, faults>>

-----------------------------------------------------------------------------
(* Removal of a workload: RadarWorkloadManager.remove and remove_intent.   *)

ScaleDown(m) == svc' = [svc EXCEPT ![m].up = FALSE]

\* remove(workload_id): scale the service to zero, if it still exists.
RemoveById(a) ==
  LET m == Mon(a) IN
  /\ At(a, "removeId")
  /\ \/ agents[a].wid = NoWorkload /\ Goto(a, "removeName") /\ UNCHANGED svc
     \/ /\ agents[a].wid # NoWorkload
        /\ IF svc[m].id = agents[a].wid THEN ScaleDown(m) ELSE UNCHANGED svc
        /\ Goto(a, "waitId")
  /\ UNCHANGED <<rows, runs, created, label, task, inflight, external, fresh, faults>>

\* Mutants: Docker accepting the new scale, or not finding the service, is
\* taken for the end of its tasks.
TasksScaledDown(a) == ~svc[Mon(a)].up
TasksUnlisted(a) ==
  svc[Mon(a)].id = agents[a].wid => task[Mon(a)][agents[a].wid] \notin Live

\* Every task of the workload has acknowledged its shutdown; only now is the
\* service removed.
TasksStopped(a) == task[Mon(a)][agents[a].wid] \notin Live

RemoveService(a) ==
  svc' = [svc EXCEPT ![Mon(a)] = IF @.id = agents[a].wid THEN NoService ELSE @]

AwaitById(a) ==
  /\ At(a, "waitId")
  /\ TasksStopped(a)
  /\ RemoveService(a)
  /\ IF agents[a].then = "swept" THEN Finish(a) ELSE Goto(a, "removeName")
  /\ UNCHANGED <<rows, runs, created, label, task, inflight, external, fresh, faults>>

Continue(a) ==
  IF agents[a].then \in {"idle", "swept"} THEN Finish(a) ELSE Goto(a, agents[a].then)

\* Mutant: remove instead of remove_intent, the durable name is not looked up.
RemoveByNameSkipped(a) ==
  /\ At(a, "removeName")
  /\ Continue(a)
  /\ UNCHANGED <<rows, runs, docker, fresh, faults>>

\* remove_intent: whatever an unknown create call left under the durable name.
RemoveByName(a) ==
  LET m == Mon(a) IN
  /\ At(a, "removeName")
  /\ \/ svc[m] = NoService /\ Continue(a) /\ UNCHANGED svc
     \/ /\ svc[m] # NoService
        /\ ScaleDown(m)
        /\ agents' = [agents EXCEPT ![a].pc = "waitName", ![a].wid = svc[m].id]
  /\ UNCHANGED <<rows, runs, created, label, task, inflight, external, fresh, faults>>

AwaitByName(a) ==
  /\ At(a, "waitName")
  /\ TasksStopped(a)
  /\ RemoveService(a)
  /\ Continue(a)
  /\ UNCHANGED <<rows, runs, created, label, task, inflight, external, fresh, faults>>

\* A remote call fails or the tasks do not stop in time: the caller gives up
\* and the row, with its claim, stays for the reconciler.
RemovalFails(a) ==
  /\ agents[a].pc \in Removing
  /\ faults > 0
  /\ IF agents[a].then = "failed" THEN Fails(a) ELSE Finish(a)
  /\ fresh' = fresh \ {a}
  /\ faults' = faults - 1
  /\ UNCHANGED <<rows, runs, docker>>

-----------------------------------------------------------------------------
(* Deletion: retire_service, and the cancellation of an activation.        *)

\* retire_service reads the row, without locking it, under the collection
\* lock of its caller ...
ReadToRetire(a, m) ==
  /\ ~CollectionLocked
  /\ Present(m)
  /\ Become(a, [Begin(m, "mark") EXCEPT !.snap = Captured(rows[m])])

Retire(a, m) ==
  /\ agents[a] = Idle
  /\ ReadToRetire(a, m)
  /\ UNCHANGED <<rows, runs, docker, fresh, faults>>

\* ... and commits the delete intent computed from what it read.
MarkRetired(a) ==
  LET m == Mon(a)
      r == MarkDeleting(agents[a].snap)
  IN
  /\ At(a, "mark")
  /\ \/ /\ r = agents[a].snap               \* already deleted: nothing to write
        /\ Become(a, Remove(m, r.cid, r.version, "purge"))
        /\ UNCHANGED rows
     \/ /\ r # agents[a].snap /\ Present(m)
        /\ rows' = [rows EXCEPT ![m].desired = r.desired, ![m].stop = r.stop,
                                ![m].version = r.version]
        /\ Become(a, Remove(m, r.cid, r.version, "purge"))
     \/ /\ r # agents[a].snap /\ ~Present(m)  \* the UPDATE matches no row
        /\ Finish(a)
        /\ UNCHANGED rows
  /\ UNCHANGED <<runs, docker, fresh, faults>>

\* The locked transaction that ends retire_service.
Purge(a) ==
  LET m == Mon(a) IN
  /\ At(a, "purge")
  /\ IF rows[m].desired = "deleted" /\ rows[m].version = agents[a].ver
     THEN PurgeRow(m) ELSE UNCHANGED <<rows, runs>>
  /\ Finish(a)
  /\ UNCHANGED <<docker, fresh, faults>>

\* A cancelled activation ends its run first and then removes the successor.
Cancel(a, m) ==
  /\ agents[a] = Idle
  /\ ~CollectionLocked
  /\ \/ RunEnded(m) /\ UNCHANGED runs
     \/ ~RunEnded(m) /\ \E outcome \in {"failed", "ended"} :
                          runs' = [runs EXCEPT ![m] = outcome]
  /\ Become(a, Begin(m, "cancel"))
  /\ UNCHANGED <<rows, docker, fresh, faults>>

CancelSuccessor(a) ==
  LET m == Mon(a) IN
  /\ At(a, "cancel")
  /\ ~CollectionLocked
  /\ \/ ReadToRetire(a, m)
     \/ ~Present(m) /\ Become(a, Remove(m, NoWorkload, 0, "idle"))
  /\ UNCHANGED <<rows, runs, docker, fresh, faults>>

-----------------------------------------------------------------------------
(* A collection change pauses the monitors it affects: pause_monitors.     *)

Pause(a, m) ==
  /\ agents[a] = Idle
  /\ ~CollectionLocked
  /\ Claims(m) /\ rows[m].desired # "deleted"
  /\ rows[m].version < MaxVersion
  /\ rows' = [rows EXCEPT ![m] = RequestStop(@)]
  /\ Become(a, Begin(m, "pauseRead"))
  /\ UNCHANGED <<runs, docker, fresh, faults>>

PauseRead(a) ==
  LET m == Mon(a) IN
  /\ At(a, "pauseRead")
  /\ IF rows[m].stop /\ rows[m].desired \in {"stopped", "deleted"}
     THEN Become(a, [Remove(m, rows[m].cid, rows[m].version, "complete")
                       EXCEPT !.snap.cid = rows[m].cid])
     ELSE Finish(a)
  /\ UNCHANGED <<rows, runs, docker, fresh, faults>>

Complete(a) ==
  LET m == Mon(a) IN
  /\ At(a, "complete")
  /\ IF /\ rows[m].desired = "stopped" /\ rows[m].stop
        /\ rows[m].version = agents[a].ver
        /\ rows[m].cid = agents[a].snap.cid
     THEN CompleteRow(m) /\ Touch(m) ELSE UNCHANGED <<rows, runs, fresh>>
  /\ Finish(a)
  /\ UNCHANGED <<docker, faults>>

-----------------------------------------------------------------------------
(* The reconciler: StopFailed, the orphan sweep, recovery and inspection.  *)

\* _reconcile first asks for the stop of every monitor whose run has failed.
StopFailed(m) ==
  /\ ~CollectionLocked
  /\ runs[m] = "failed" /\ RunningIntent(m)
  /\ rows' = [rows EXCEPT ![m] = RequestStop(@)]
  /\ UNCHANGED <<runs, docker, agents, fresh, faults>>

\* remove_orphans lists the managed workloads first ...
SweepList(a, m) ==
  /\ agents[a] = Idle
  /\ svc[m] # NoService
  /\ Become(a, [Begin(m, "sweepRead") EXCEPT !.wid = svc[m].id])
  /\ UNCHANGED <<rows, runs, docker, fresh, faults>>

\* Mutants: every workload that is not attached is an orphan; a workload whose
\* row is gone is not one.
SweepReadUnattached(a) ==
  /\ At(a, "sweepRead")
  /\ IF rows[Mon(a)].cid = agents[a].wid
     THEN Finish(a)
     ELSE Become(a, Remove(Mon(a), agents[a].wid, 0, "swept"))
  /\ UNCHANGED <<rows, runs, docker, fresh, faults>>

SweepReadKnown(a) ==
  /\ At(a, "sweepRead")
  /\ IF rows[Mon(a)].desired \in {"running", "absent"}
     THEN Finish(a)
     ELSE Become(a, Remove(Mon(a), agents[a].wid, 0, "swept"))
  /\ UNCHANGED <<rows, runs, docker, fresh, faults>>

\* ... and then reads which of their monitors want to run.
SweepRead(a) ==
  /\ At(a, "sweepRead")
  /\ IF rows[Mon(a)].desired = "running"
     THEN Finish(a)
     ELSE Become(a, Remove(Mon(a), agents[a].wid, 0, "swept"))
  /\ UNCHANGED <<rows, runs, docker, fresh, faults>>

\* Mutant: only rows with a workload are inspected.
SnapshotAttached(a, m) ==
  /\ agents[a] = Idle
  /\ rows[m].cid # NoWorkload
  /\ Become(a, [Begin(m, "inspect") EXCEPT !.snap = Captured(rows[m])])
  /\ fresh' = fresh \cup {a}
  /\ UNCHANGED <<rows, runs, docker, faults>>

Snapshot(a, m) ==
  /\ agents[a] = Idle
  /\ Present(m)
  /\ Become(a, [Begin(m, "inspect") EXCEPT !.snap = Captured(rows[m])])
  /\ fresh' = fresh \cup {a}
  /\ UNCHANGED <<rows, runs, docker, faults>>

\* What Docker says of workload w of m: the state of its newest task.
DockerStatus(m, w) ==
  IF svc[m].id # w THEN {"sawTerminal"}                 \* not_found
  ELSE CASE task[m][w] = "none" -> {"idle"}            \* no_tasks
         [] task[m][w] = "starting" -> {"idle", "sawRunning"}
         [] task[m][w] = "admitted" -> {"sawRunning"}
         [] task[m][w] = "ended" -> {"idle", "sawTerminal"}

\* The rows _inspect removes the workload of.
MustNotRun(s) == s.stop \/ s.desired # "running"

\* _inspect works from the snapshot alone: it removes the workload of a row
\* that should not run, and otherwise asks Docker for the state of its task.
Inspect(a) ==
  LET m == Mon(a)
      s == agents[a].snap
  IN
  /\ At(a, "inspect")
  /\ \/ /\ MustNotRun(s)
        /\ Become(a, [Remove(m, s.cid, 0, "stopConfirmed") EXCEPT !.snap = s])
        /\ UNCHANGED fresh
     \/ /\ ~MustNotRun(s)
        /\ \E seen \in IF s.cid = NoWorkload THEN {"idle"} ELSE DockerStatus(m, s.cid) :
             IF seen = "idle"
             THEN Finish(a) /\ fresh' = fresh \ {a}
             ELSE Goto(a, seen) /\ UNCHANGED fresh
  /\ UNCHANGED <<rows, runs, docker, faults>>

\* _ServiceSnapshot.matches.  stop_requested_at is a time stamp in the code;
\* two different stop requests differ in lifecycle_version here.
Matches(a) ==
  LET r == rows[Mon(a)]
      s == agents[a].snap
  IN  r.cid = s.cid /\ r.version = s.version /\ r.desired = s.desired /\ r.stop = s.stop

\* _apply_stopped: a deleted row is purged, a stop completed, and a row that
\* has been stopped for the retention period purged.
ApplyStopConfirmed(a) ==
  LET m == Mon(a) IN
  /\ At(a, "stopConfirmed")
  /\ \/ ~Matches(a) /\ UNCHANGED <<rows, runs>> /\ fresh' = fresh \ {a}
     \/ /\ Matches(a) /\ rows[m].desired = "deleted"
        /\ PurgeRow(m) /\ fresh' = fresh \ {a}
     \/ /\ Matches(a) /\ rows[m].desired # "deleted"
        /\ rows[m].stop \/ rows[m].status
        /\ CompleteRow(m) /\ Touch(m)
     \/ /\ Matches(a) /\ rows[m].desired # "deleted"
        /\ ~rows[m].stop /\ ~rows[m].status
        /\ PurgeRow(m) \/ UNCHANGED <<rows, runs>>     \* due, or not yet
        /\ fresh' = fresh \ {a}
  /\ Finish(a)
  /\ UNCHANGED <<docker, faults>>

\* A running observation restores the derived status of the row.
ApplyRunning(a) ==
  LET m == Mon(a) IN
  /\ At(a, "sawRunning")
  /\ IF Matches(a) /\ ~rows[m].status
     THEN rows' = [rows EXCEPT ![m].status = TRUE, ![m].stage = "live"] /\ Touch(m)
     ELSE UNCHANGED rows /\ fresh' = fresh \ {a}
  /\ Finish(a)
  /\ UNCHANGED <<runs, docker, faults>>

\* A terminal observation counts only while no heartbeat followed the
\* snapshot.  The first one records the Docker state; the next one, with no
\* heartbeat in between, gives the worker up: its run fails and it is stopped.
\* Mutant: the snapshot is trusted.
NoEvidence(a) == FALSE

NewerEvidence(a) == a \notin fresh
Abandoned(a) == agents[a].snap.stage = "terminal"

FailAbandoned(a) ==
  LET m == Mon(a) IN
  /\ runs' = [runs EXCEPT ![m] = IF @ = "open" THEN "failed" ELSE @]
  /\ rows' = [rows EXCEPT ![m] = [RequestStop(@) EXCEPT !.stage = "terminal"]]

ApplyTerminal(a) ==
  LET m == Mon(a) IN
  /\ At(a, "sawTerminal")
  /\ \/ /\ ~Matches(a) \/ NewerEvidence(a)
        /\ UNCHANGED <<rows, runs>>
        /\ fresh' = fresh \ {a}
     \/ /\ Matches(a) /\ ~NewerEvidence(a) /\ Abandoned(a)
        /\ FailAbandoned(a)
        /\ Touch(m)
     \/ /\ Matches(a) /\ ~NewerEvidence(a) /\ ~Abandoned(a)
        /\ rows' = [rows EXCEPT ![m].status = TRUE, ![m].stage = "terminal"]
        /\ UNCHANGED runs
        /\ Touch(m)
  /\ Finish(a)
  /\ UNCHANGED <<docker, faults>>

\* The process of an agent ends, or its request is cancelled, at any await.
Crash(a) ==
  /\ agents[a] # Idle
  /\ faults > 0
  /\ Finish(a)
  /\ fresh' = fresh \ {a}
  /\ faults' = faults - 1
  /\ UNCHANGED <<rows, runs, docker>>

-----------------------------------------------------------------------------
(* Docker's scheduler and the RADAR worker in the task.                    *)

SetTask(m, w, s) == task' = [task EXCEPT ![m][w] = s]

\* Swarm starts the task of a service, or restarts one that ended.
TaskStarts(m) ==
  LET w == svc[m].id IN
  /\ svc[m].up
  /\ task[m][w] \in {"none", "ended"}
  /\ SetTask(m, w, "starting")
  /\ UNCHANGED <<rows, runs, svc, created, label, inflight, external, agents, fresh, faults>>

\* Somebody removes the service with Docker's own tools: its task is told to
\* stop and goes on until it has.
ExternalRemove(m) ==
  /\ external > 0
  /\ svc[m] # NoService
  /\ svc' = [svc EXCEPT ![m] = NoService]
  /\ external' = external - 1
  /\ UNCHANGED <<rows, runs, created, label, task, inflight, agents, fresh, faults>>

\* require_monitor_admission: the generation of the task still owns a running
\* intent.  A worker that is refused exits.
Admissible(m, w) ==
  /\ RunningIntent(m)
  /\ rows[m].version = label[m][w]
  /\ ~RunEnded(m)

Admit(m, w) ==
  /\ task[m][w] = "starting"
  /\ SetTask(m, w, IF Admissible(m, w) THEN "admitted" ELSE "ended")
  /\ UNCHANGED <<rows, runs, svc, created, label, inflight, external, agents, fresh, faults>>

\* The task crashes, exits, or acknowledges that Docker shut it down.
TaskEnds(m, w) ==
  /\ task[m][w] \in Live
  /\ SetTask(m, w, "ended")
  /\ UNCHANGED <<rows, runs, svc, created, label, inflight, external, agents, fresh, faults>>

\* HEARTBEAT_UPDATE: an ended run is never reported on, and a stop request
\* fences every status but that the worker stops or failed.
Heartbeat(m, w, stage) ==
  /\ task[m][w] = "admitted"
  /\ Present(m) /\ ~RunEnded(m)
  /\ stage = "terminal" \/ RunningIntent(m)
  /\ rows' = [rows EXCEPT ![m].stage = stage]
  /\ Touch(m)
  /\ UNCHANGED <<runs, docker, agents, faults>>

\* fail_pipeline_run: the worker ends its run as failed, whatever was recorded
\* for it, while its checkpoint, which goes with the row, is still its own.
WorkerFails(m, w) ==
  /\ task[m][w] = "admitted"
  /\ Present(m)
  /\ runs' = [runs EXCEPT ![m] = "failed"]
  /\ rows' = [rows EXCEPT ![m].stage = "terminal"]
  /\ Touch(m)
  /\ UNCHANGED <<docker, agents, faults>>

-----------------------------------------------------------------------------
Create(a) ==
  \/ ReadIntent(a) \/ FindWorkload(a) \/ CreateWorkload(a) \/ Validate(a)
  \/ Attach(a) \/ Confirm(a) \/ RecordFailure(a)

RemoveIntent(a) ==
  RemoveById(a) \/ AwaitById(a) \/ RemoveByName(a) \/ AwaitByName(a)

\* What an agent does once it has begun; no request is involved.
Proceed(a) ==
  \/ Create(a) \/ RemoveIntent(a)
  \/ MarkRetired(a) \/ Purge(a) \/ CancelSuccessor(a)
  \/ PauseRead(a) \/ Complete(a)
  \/ SweepRead(a) \/ Inspect(a)
  \/ ApplyStopConfirmed(a) \/ ApplyRunning(a) \/ ApplyTerminal(a)

Request(a) ==
  \E m \in Monitor : Launch(a, m) \/ Retire(a, m) \/ Cancel(a, m) \/ Pause(a, m)

Reconcile(a) ==
  \E m \in Monitor : Recover(a, m) \/ SweepList(a, m) \/ Snapshot(a, m)

Fault(a) == AbandonCreate(a) \/ CreationFails(a) \/ RemovalFails(a) \/ Crash(a)

Worker(m) ==
  \E w \in Workload :
    \/ Admit(m, w) \/ TaskEnds(m, w) \/ WorkerFails(m, w)
    \/ \E stage \in Stage : Heartbeat(m, w, stage)

Next ==
  \/ \E a \in Agent : Request(a) \/ Reconcile(a) \/ Proceed(a) \/ Fault(a)
  \/ \E m \in Monitor : StopFailed(m) \/ TaskStarts(m) \/ Worker(m) \/ ExternalRemove(m)
  \/ \E i \in inflight : DelayedCreate(i[1], i[2])

Spec == Init /\ [][Next]_vars

\* Every await of a started task of TACTIC returns, the reconciler's passes
\* reach every row and every service again and again, Docker carries out the
\* calls it received and ends the task of a service that is gone or scaled
\* down.  Nothing is assumed of requests, workers and faults.
Fairness ==
  /\ \A a \in Agent : WF_vars(Proceed(a))
  /\ \A m \in Monitor :
       /\ SF_vars(StopFailed(m))
       /\ SF_vars(\E a \in Agent : SweepList(a, m))
       /\ SF_vars(\E a \in Agent : Snapshot(a, m))
       /\ \A w \in Workload :
            WF_vars(svc[m] # [id |-> w, up |-> TRUE] /\ TaskEnds(m, w))
  /\ WF_vars(\E i \in inflight : DelayedCreate(i[1], i[2]))

FairSpec == Spec /\ Fairness

-----------------------------------------------------------------------------
(* Properties.                                                             *)

Admitted(m) == \E w \in Workload : task[m][w] = "admitted"

\* A worker that was admitted to write holds the claim on its readings until
\* its task has stopped: no update of the row releases a claim while the
\* task may still be consuming ("Confirm task termination before releasing a
\* workload's sensor claim", RadarWorkloadManager.remove).
ClaimCoversWorker == \A m \in Monitor : Admitted(m) => Claims(m)

\* Two monitors whose MQTT filters overlap never hold their claims together
\* (_pipeline_claims and monitor_claim_condition in create_radar_service).
ExclusiveClaims ==
  \A m, n \in Monitor : m # n /\ Overlaps(m, n) => ~(Claims(m) /\ Claims(n))

\* "Durable intents never transition back to running under the same ID": only
\* a monitor that never had a workload may start to want one (the assumption
\* remove_orphans rests on when it reads the intents after the list).
NoRevival ==
  [][\A m \in Monitor :
       rows'[m].desired = "running" /\ rows[m].desired # "running" => created[m] = 0]_vars

\* No task of TACTIC removes the service of a monitor that should run,
\* whatever it had read before (stale sweep lists, snapshots and requests).
SweepSparesRunning ==
  [][\A m \in Monitor :
       svc[m] # NoService /\ svc'[m] # svc[m] /\ external' = external
         => ~RunningIntent(m)]_vars

\* A stop is only completed once the task of the attached workload is gone,
\* even one attached while the stop was being carried out, and even when its
\* service was removed from outside (_ServiceSnapshot.matches and the
\* container_id comparison of pause_monitors).
StopAwaitsTask ==
  [][\A m \in Monitor :
       rows[m].status /\ ~rows'[m].status /\ Present(m)' /\ rows[m].cid # NoWorkload
         => task[m][rows[m].cid] \notin Live]_vars

\* The reconciler fails the run of a worker it gives up only while the stage
\* on record is terminal: a heartbeat that arrives after the Docker snapshot
\* is newer evidence and wins (_apply_observation).
NoFailureOverHeartbeat ==
  [][\A m \in Monitor :
       RunningIntent(m) /\ runs[m] = "open"
         /\ rows'[m].desired = "stopped" /\ runs'[m] = "failed"
         => rows[m].stage = "terminal"]_vars

\* A stop or delete intent is carried out whatever becomes of the request that
\* recorded it: its claim is released in the end.
StopReleases ==
  \A m \in Monitor : (Present(m) /\ ~RunningIntent(m)) ~> ~Claims(m)

\* A failed run never keeps its readings for ever (StopFailed in _reconcile).
FailedRunReleases ==
  \A m \in Monitor : runs[m] = "failed" ~> ~Claims(m)

\* A monitor does not keep its claim for ever while its attached service is
\* gone and no other came up in its place ("without this the row would keep
\* its readings and capacity forever", _is_abandoned).
LostWorkerReleases ==
  \A m \in Monitor :
    []<>~(Claims(m) /\ rows[m].cid # NoWorkload /\ svc[m] = NoService)

\* No claim is kept for ever: not after a stop, not by a failed run, not by a
\* worker that is lost.
ClaimsReleased == StopReleases /\ FailedRunReleases /\ LostWorkerReleases

\* A service whose monitor does not want to run, a late create included, is
\* removed in the end (remove_orphans).
OrphanRemoved ==
  \A m \in Monitor :
    (svc[m] # NoService /\ rows[m].desired # "running") ~> svc[m] = NoService

-----------------------------------------------------------------------------
(* What the claims promise, and the invariant that shows it.               *)

Abstract == INSTANCE SensorClaims WITH
  holders <- {m \in Monitor : Claims(m)},
  workers <- {m \in Monitor : Admitted(m)},
  closed <- {m \in Monitor : RunEnded(m)}

\* Every step of the lifecycle is a step of the abstract claims, or none.
RefinesClaims == Abstract!Spec

\* Nothing will ever admit another worker of m.
Retired(m) ==
  /\ ~RunningIntent(m)
  /\ Present(m) \/ RunEnded(m)

RowsConsistent ==
  \A m \in Monitor :
    /\ rows[m].desired = "running" => rows[m].status /\ ~rows[m].stop
    /\ rows[m].status => Present(m)

\* A task lives only as long as the service it belongs to.
TasksInService ==
  \A m \in Monitor : \A w \in Workload : task[m][w] \in Live => svc[m].id = w

\* What an agent has read of the intent of its monitor still holds: a monitor
\* that was once found retired stays retired.
IntentKnown(a) ==
  LET m == Mon(a) IN
  /\ At(a, "mark") => agents[a].snap.desired # "absent"
  /\ At(a, "mark") /\ agents[a].snap.desired = "deleted" => Retired(m)
  /\ At(a, "inspect") /\ MustNotRun(agents[a].snap) => Retired(m)
  /\ agents[a].pc \in Observed => agents[a].snap.desired = "running"
  /\ agents[a].pc \in Removing /\ agents[a].then \in Removed => Retired(m)
  /\ agents[a].pc \in Removed => Retired(m)

\* What a removal has established of the workers of its monitor.
WorkersGone(a) ==
  LET m == Mon(a) IN
  /\ At(a, "waitName") /\ agents[a].then \in Removed
       => \A w \in Workload : task[m][w] = "admitted" => w = agents[a].wid
  /\ agents[a].pc \in Removed => ~Admitted(m)

\* The inductive invariant behind ExclusiveClaims.
IntentInvariant ==
  /\ RowsConsistent
  /\ \A a \in Agent : IntentKnown(a)
  /\ ExclusiveClaims

\* Without external removals, the inductive invariant behind ClaimCoversWorker
\* and the refinement: the tasks of a monitor live only in its service, and an
\* agent that is about to release a claim has seen the last of them end.
ClaimInvariant ==
  /\ IntentInvariant
  /\ TasksInService
  /\ \A a \in Agent : WorkersGone(a)
  /\ ClaimCoversWorker

-----------------------------------------------------------------------------
(* What the properties of steps rest on.                                   *)

\* The monitor has been launched, or never will be.
Spent(m) == Present(m) \/ RunEnded(m)

\* Nothing exists, and nobody works, for a monitor that may still be launched
\* for the first time: the inductive invariant behind NoRevival.
LaunchInvariant ==
  /\ \A m \in Monitor : created[m] > 0 => Spent(m)
  /\ \A m \in Monitor : svc[m] # NoService => created[m] > 0 /\ svc[m].id # NoWorkload
  /\ \A i \in inflight : Spent(i[1])
  /\ \A a \in Agent : ~At(a, "idle") => Spent(Mon(a))

\* A snapshot without newer evidence shows the stage on record, if the row is
\* still there: the inductive invariant behind NoFailureOverHeartbeat.
SnapshotsFresh ==
  \A a \in fresh :
    /\ agents[a].pc \in {"inspect", "stopConfirmed"} \cup Observed \cup Removing
    /\ agents[a].pc \in Removing => agents[a].then = "stopConfirmed"
    /\ Present(Mon(a)) => rows[Mon(a)].stage = agents[a].snap.stage

\* Workload w of m is gone for good.
Gone(m, w) == task[m][w] \notin Live /\ svc[m].id # w /\ w <= created[m]

WorkloadsCreated ==
  /\ \A m \in Monitor : svc[m].id <= created[m] /\ rows[m].cid <= created[m]
  /\ \A a \in Agent : ~At(a, "idle") =>
       agents[a].wid <= created[Mon(a)] /\ agents[a].snap.cid <= created[Mon(a)]

\* An agent that is about to complete a stop has seen the task end of the
\* workload that it read from the row.
AttachedGone(a) ==
  LET w == agents[a].snap.cid
      completing == {"complete", "stopConfirmed"}
      gone == w = NoWorkload \/ Gone(Mon(a), w)
  IN
  /\ agents[a].pc \in {"removeId", "waitId"} /\ agents[a].then \in completing
       => agents[a].wid = w
  /\ agents[a].pc \in {"removeName", "waitName"} /\ agents[a].then \in completing => gone
  /\ agents[a].pc \in completing => gone

\* The inductive invariant behind StopAwaitsTask.
RemovalInvariant == WorkloadsCreated /\ \A a \in Agent : AttachedGone(a)

\* Without external removals a monitor that should run has one workload: what
\* is attached, validated or looked for is this one.
OneWorkload ==
  \A m \in Monitor : RunningIntent(m) =>
    /\ rows[m].version = 1
    /\ rows[m].cid \in {NoWorkload, svc[m].id}
    /\ \A a \in Agent : Mon(a) = m =>
         /\ agents[a].pc \in {"find", "create", "validate", "attach", "confirm"}
              => agents[a].ver = 1
         /\ agents[a].pc \in {"validate", "attach", "confirm"}
              => agents[a].wid = svc[m].id /\ agents[a].wid # NoWorkload
         /\ At(a, "confirm") => rows[m].cid = agents[a].wid

\* ... and nobody removes a workload before its monitor is retired: the
\* inductive invariant behind SweepSparesRunning.
OnlyRetiredRemoved ==
  \A a \in Agent : agents[a].pc \in Removing => Retired(Mon(a))

\* What the run of one monitor checks of all this.
LifecycleInvariant ==
  /\ ClaimInvariant
  /\ LaunchInvariant /\ SnapshotsFresh /\ RemovalInvariant
  /\ OneWorkload /\ OnlyRetiredRemoved
=============================================================================
