-------------------------- MODULE PipelineActivation --------------------------
(***************************************************************************)
(* The activation of a monitoring pipeline in TACTIC: a durable request    *)
(* that claims readings, is checked by a preflight job, retires the        *)
(* monitor it replaces, launches its own and waits for its first healthy   *)
(* heartbeat.  Controllers advance it one phase at a time under a lease; a *)
(* controller whose lease expired is still somewhere in its phase when     *)
(* another one takes over.                                                 *)
(*                                                                         *)
(* An action is one transaction or one remote call.  Every transaction of  *)
(* a controller, of a request and of a launch holds the collection lock.   *)
(* The rows of the services are kept in less detail than RadarLifecycle    *)
(* has them: the intent, the claim, and whether the workload is attached.  *)
(***************************************************************************)
EXTENDS Naturals, FiniteSets

CONSTANTS
  Activation,    \* requests; each has a service and a run of its own
  Controller,    \* tasks that advance activations
  NoActivation,
  NoController,
  Reading,
  Requests,      \* the sets of readings that requests ask for, never empty
  Deployed,      \* activations that have succeeded before, their monitors run
  Capacity,      \* radar_max_active_monitors
  MaxFaults      \* bound: crashes, failed remote calls, leases outlived

ASSUME ConstantsAssumption ==
  /\ NoActivation \notin Activation
  /\ NoController \notin Controller
  /\ Requests \in SUBSET (SUBSET Reading) /\ {} \notin Requests
  /\ Deployed \in SUBSET Activation /\ IsFiniteSet(Deployed)
  /\ Cardinality(Deployed) <= Capacity
  /\ Capacity \in Nat
  /\ MaxFaults \in Nat

VARIABLES
  act,      \* monitoring_pipeline_activations
  run,      \* monitoring_pipeline_runs: the run reserved by each activation
  svc,      \* services: the row of each activation's successor
  worker,   \* services with a worker admitted to write
  jobs,     \* preflight jobs that exist in Docker
  calls,    \* preflight creations whose caller no longer waits
  ctl,      \* what each controller is doing
  sweep,    \* the preflight job that the sweep is about to remove
  faults

vars == <<act, run, svc, worker, jobs, calls, ctl, sweep, faults>>

-----------------------------------------------------------------------------
Terminal == {"succeeded", "cancelled", "failed"}
\* RETIRED_PREDECESSOR_PHASES and DEADLINE_PHASES
RetiredPhases == {"retiring", "starting", "awaiting_heartbeat"}
DeadlinePhases == {"requested", "preflighting", "validated", "retiring", "starting"}
Phase == {"none", "awaiting_heartbeat", "cancelling"} \cup DeadlinePhases \cup Terminal

Row ==
  [phase   : Phase,
   inputs  : SUBSET Reading,
   pred    : Activation \cup {NoActivation},  \* predecessor_service_id
   retired : BOOLEAN,                         \* retirement_started
   token   : Controller \cup {NoController},  \* controller_token
   leased  : BOOLEAN,                         \* the lease has not expired
   cancel  : BOOLEAN,                         \* cancel_requested
   error   : BOOLEAN,
   late    : BOOLEAN]                         \* heartbeat_deadline has passed

NoRow == [phase |-> "none", inputs |-> {}, pred |-> NoActivation, retired |-> FALSE,
          token |-> NoController, leased |-> FALSE, cancel |-> FALSE,
          error |-> FALSE, late |-> FALSE]

\* A row of "services": who set the operational stage to "failed", the launch
\* or the worker, and the receipt of the first healthy heartbeat.
Service ==
  [intent : {"none", "running", "stopped", "deleted"}, claim : BOOLEAN,
   attached : BOOLEAN, failed : {"no", "launch", "worker"}, beat : {"none", "timely", "late"}]

NoService == [intent |-> "none", claim |-> FALSE, attached |-> FALSE,
              failed |-> "no", beat |-> "none"]

RunState == {"none", "open", "failed", "ended"}

\* Where a controller is: in a transaction of its phase, in a remote call ...
Unjob == {"unjob", "unjobRejecting", "unjobFailing", "unjobInterrupted"}
Remote == {"job", "report", "absent", "shutdown", "create", "absentSuccessor", "stop",
           "cleanup"} \cup Unjob
Pc == {"idle", "preflighting", "preflighted", "validated", "retiring", "purge",
       "retired", "starting", "launch", "started", "awaiting_heartbeat",
       "cancelling", "delete", "purgeSuccessor", "confirm", "stopped", "end",
       "error", "reject", "finish"} \cup Remote

Task == [pc : Pc, act : Activation \cup {NoActivation}, phase : Phase]
Idle == [pc |-> "idle", act |-> NoActivation, phase |-> "none"]

TypeOK ==
  /\ act \in [Activation -> Row]
  /\ run \in [Activation -> RunState]
  /\ svc \in [Activation -> Service]
  /\ worker \in SUBSET Activation
  /\ jobs \in SUBSET Activation
  /\ calls \in SUBSET Activation
  /\ ctl \in [Controller -> Task]
  /\ sweep \in Activation \cup {NoActivation}
  /\ faults \in 0 .. MaxFaults

\* The monitors that run already have readings of their own.
Init ==
  /\ \E inputs \in [Deployed -> Requests] :
       /\ \A a, b \in Deployed : a # b => inputs[a] \cap inputs[b] = {}
       /\ act = [a \in Activation |->
                  IF a \in Deployed
                  THEN [NoRow EXCEPT !.phase = "succeeded", !.inputs = inputs[a]]
                  ELSE NoRow]
  /\ run = [a \in Activation |-> IF a \in Deployed THEN "open" ELSE "none"]
  /\ svc = [a \in Activation |->
             IF a \in Deployed
             THEN [intent |-> "running", claim |-> TRUE, attached |-> TRUE,
                   failed |-> "no", beat |-> "timely"]
             ELSE NoService]
  /\ worker = Deployed
  /\ jobs = {}
  /\ calls = {}
  /\ ctl = [c \in Controller |-> Idle]
  /\ sweep = NoActivation
  /\ faults = MaxFaults

world == <<worker, jobs, calls, sweep>>

-----------------------------------------------------------------------------
(* The claims of activations and services.                                 *)

Pending == {a \in Activation : act[a].phase \notin Terminal \cup {"none"}}

\* Mutant: a request to stop gives the claim up.
HoldersRunning == {s \in Activation : svc[s].intent = "running"}
\* monitor_claim_condition
Holders == {s \in Activation : svc[s].claim \/ svc[s].intent = "running"}

Retiring == {act[a].pred : a \in Pending}
\* claim_owners
Owners == (Holders \ Retiring) \cup Pending

Inputs(s) == IF s = NoActivation THEN {} ELSE act[s].inputs
\* claim_topics
Claim(a) == Inputs(a) \cup Inputs(act[a].pred)

RunEnded(a) == run[a] \in {"failed", "ended"}

\* Mutant: a row is purged without a word to its run.
LeftOpen(r) == r
\* complete_stopped_runs
Closed(r) == IF r = "open" THEN "ended" ELSE r

\* mark_deleting
MarkDeleting(s) == [s EXCEPT !.intent = "deleted"]

\* purge_service_rows
Purge(s) ==
  /\ svc' = [svc EXCEPT ![s] = NoService]
  /\ run' = [run EXCEPT ![s] = Closed(@)]

-----------------------------------------------------------------------------
(* Requests of users.                                                      *)

OwnersWithout(p) == Owners \ {p}

\* _submit: a request for the inputs, which replaces p, or nothing.
Submit(a, inputs, p) ==
  LET claimed == inputs \cup Inputs(p) IN
  /\ act[a].phase = "none"
  /\ p # NoActivation => svc[p].claim /\ svc[p].intent = "running"
  /\ \A b \in Pending : /\ p # NoActivation => act[b].pred # p
                        /\ claimed \cap Claim(b) = {}
  /\ \A s \in Holders \ {p} : claimed \cap Inputs(s) = {}
  /\ Cardinality(OwnersWithout(p)) < Capacity
  /\ act' = [act EXCEPT ![a] = [NoRow EXCEPT !.phase = "requested", !.inputs = inputs,
                                            !.pred = p]]
  /\ run' = [run EXCEPT ![a] = "open"]
  /\ UNCHANGED <<svc, world, ctl, faults>>

\* cancel: refused once the predecessor is gone.
RequestCancel(a) ==
  /\ a \in Pending
  /\ ~(act[a].retired /\ act[a].phase \in RetiredPhases)
  /\ act' = [act EXCEPT ![a].cancel = TRUE]
  /\ UNCHANGED <<run, svc, world, ctl, faults>>

\* delete_radar_service and stop_radar_service; what retire_service does after
\* its first transaction is done by ServiceRemoved as well.
DeleteService(s) ==
  LET affected == {a \in Pending : a = s \/ act[a].pred = s} IN
  /\ affected # {} \/ svc[s].intent # "none"
  /\ act' = [a \in Activation |-> IF a \in affected THEN [act[a] EXCEPT !.cancel = TRUE]
                                  ELSE act[a]]
  /\ svc' = IF svc[s].intent = "none" THEN svc
            ELSE [svc EXCEPT ![s] = MarkDeleting(@)]
  /\ UNCHANGED <<run, world, ctl, faults>>

-----------------------------------------------------------------------------
(* The lifecycle of the services, as in RadarLifecycle.                    *)

\* A monitor whose run failed is stopped, a workload that is gone given up.
GiveUp(s) ==
  /\ svc[s].intent = "running"
  /\ run[s] = "failed" \/ (svc[s].attached /\ s \notin worker)
  /\ svc' = [svc EXCEPT ![s].intent = "stopped"]
  /\ run' = [run EXCEPT ![s] = IF @ = "open" THEN "failed" ELSE @]
  /\ UNCHANGED <<act, world, ctl, faults>>

ServiceRemoved(s) ==
  /\ s \notin worker
  /\ \/ /\ svc[s].intent = "stopped" /\ svc[s].claim
        /\ svc' = [svc EXCEPT ![s] = [NoService EXCEPT !.intent = "stopped"]]
        /\ run' = [run EXCEPT ![s] = Closed(@)]
     \/ svc[s].intent = "deleted" /\ Purge(s)
  /\ UNCHANGED <<act, world, ctl, faults>>

\* recover_pending finishes a creation that was interrupted.
RecoverPending(s) ==
  /\ svc[s].intent = "running" /\ ~svc[s].attached
  /\ svc' = [svc EXCEPT ![s].attached = TRUE]
  /\ UNCHANGED <<act, run, world, ctl, faults>>

\* require_monitor_admission
WorkerStarts(s) ==
  /\ svc[s].intent = "running" /\ ~RunEnded(s) /\ s \notin worker
  /\ worker' = worker \cup {s}
  /\ UNCHANGED <<act, run, svc, jobs, calls, ctl, sweep, faults>>

WorkerStops(s) ==
  /\ s \in worker
  /\ worker' = worker \ {s}
  /\ UNCHANGED <<act, run, svc, jobs, calls, ctl, sweep, faults>>

\* HEARTBEAT_UPDATE keeps the receipt of the first healthy heartbeat, until a
\* heartbeat says that the worker failed; that one is stored whatever the intent.
\* The status of a monitor whose activation has ended concerns nobody here.
Heartbeat(s) ==
  /\ s \in worker \cap Pending /\ svc[s].intent # "none" /\ ~RunEnded(s)
  /\ \/ svc' = [svc EXCEPT ![s].failed = "worker", ![s].beat = "none"]
     \/ /\ svc[s].intent = "running"
        /\ svc' = [svc EXCEPT
             ![s].failed = "no",
             ![s].beat = IF @ # "none" THEN @ ELSE IF act[s].late THEN "late" ELSE "timely"]
  /\ UNCHANGED <<act, run, world, ctl, faults>>

\* fail_pipeline_run
WorkerFails(s) ==
  /\ s \in worker /\ svc[s].intent # "none" /\ run[s] # "failed"
  /\ run' = [run EXCEPT ![s] = "failed"]
  /\ svc' = [svc EXCEPT ![s].failed = "worker", ![s].beat = "none"]
  /\ UNCHANGED <<act, world, ctl, faults>>

DeadlinePasses(a) ==
  /\ act[a].phase = "awaiting_heartbeat" /\ ~act[a].late
  /\ act' = [act EXCEPT ![a].late = TRUE]
  /\ UNCHANGED <<run, svc, world, ctl, faults>>

-----------------------------------------------------------------------------
(* A controller takes an activation and gives it back: advance.            *)

At(c, pc) == ctl[c].pc = pc
Act(c) == ctl[c].act
Goto(c, pc) == ctl' = [ctl EXCEPT ![c].pc = pc]

\* Mutant: an activation with a token is left alone, its lease over or not.
Unclaimed(a) == act[a].token = NoController
Available(a) == act[a].token = NoController \/ ~act[a].leased

\* "expired": the phase has outlasted its budget.
Take(c, a, expired) ==
  LET r == act[a]
      cancel == r.cancel \/ RunEnded(a) \/ expired
      phase == IF cancel THEN "cancelling"
               ELSE IF r.phase = "requested" THEN "preflighting" ELSE r.phase
  IN
  /\ ctl[c] = Idle
  /\ a \in Pending /\ Available(a)
  /\ expired => r.phase \in DeadlinePhases /\ ~r.cancel /\ ~RunEnded(a)
  /\ act' = [act EXCEPT ![a] =
       [r EXCEPT !.token = c, !.leased = TRUE, !.cancel = cancel, !.phase = phase,
                 !.error = @ \/ expired \/ run[a] = "failed"]]
  /\ ctl' = [ctl EXCEPT ![c] = [pc |-> phase, act |-> a, phase |-> phase]]
  /\ UNCHANGED <<run, svc, world, faults>>

\* Mutant: whoever comes back from a remote call goes on with its phase.
OwnsAlways(c) == TRUE
\* _owned_row
Owns(c) ==
  LET r == act[Act(c)] IN r.token = c /\ r.leased /\ r.phase = ctl[c].phase

\* ActivationOwnershipLost leaves the activation untouched.
Lose(c) ==
  /\ ctl[c].pc \in {"preflighting", "preflighted", "validated", "retiring", "retired",
                    "starting", "started", "awaiting_heartbeat", "cancelling",
                    "delete", "stopped", "end", "error", "reject"}
  /\ ~Owns(c)
  /\ Goto(c, "finish")
  /\ UNCHANGED <<act, run, svc, world, faults>>

\* A transaction of the controller that owns its activation.
Owned(c, pc) == At(c, pc) /\ Owns(c)

\* The row of the activation of c becomes r, and c goes on at pc.
Update(c, r, pc) ==
  /\ act' = [act EXCEPT ![Act(c)] = r]
  /\ Goto(c, pc)

\* The phase changes, or the activation is cancelled instead if asked to.
Enter(r, phase) == [r EXCEPT !.phase = IF r.cancel THEN "cancelling" ELSE phase]
Cancelling(r) == [r EXCEPT !.phase = "cancelling", !.cancel = TRUE]
Failing(r) == [Cancelling(r) EXCEPT !.error = TRUE]

\* _record_controller_error
RecordError(c) ==
  /\ \/ Owned(c, "error") /\ Update(c, [act[Act(c)] EXCEPT !.error = TRUE], "finish")
     \/ Owned(c, "reject") /\ Update(c, Failing(act[Act(c)]), "finish")
  /\ UNCHANGED <<run, svc, world, faults>>

Finish(c) ==
  /\ At(c, "finish")
  /\ act' = IF act[Act(c)].token = c
            THEN [act EXCEPT ![Act(c)].token = NoController, ![Act(c)].leased = FALSE]
            ELSE act
  /\ ctl' = [ctl EXCEPT ![c] = Idle]
  /\ UNCHANGED <<run, svc, world, faults>>

-----------------------------------------------------------------------------
(* Preflight: a job in the image of the worker builds the pipeline.        *)

\* _preflight commits, with the image, before the job is created.
Preflight(c) ==
  /\ Owned(c, "preflighting")
  /\ Goto(c, "job")
  /\ UNCHANGED <<act, run, svc, world, faults>>

\* _ensure finds the job by its name, or creates it.
EnsureJob(c) ==
  /\ At(c, "job")
  /\ jobs' = jobs \cup {Act(c)}
  /\ Goto(c, "report")
  /\ UNCHANGED <<act, run, svc, worker, calls, sweep, faults>>

\* The job passed, or it failed or timed out: the request is rejected.
ReadReport(c) ==
  /\ At(c, "report")
  /\ \E pc \in {"unjob", "unjobRejecting"} : Goto(c, pc)
  /\ UNCHANGED <<act, run, svc, world, faults>>

\* The "finally" of PipelinePreflight.run.
AfterJob == [unjob |-> "preflighted", unjobRejecting |-> "reject",
             unjobFailing |-> "error", unjobInterrupted |-> "finish"]

RemoveJob(c) ==
  /\ ctl[c].pc \in Unjob
  /\ Goto(c, AfterJob[ctl[c].pc])
  /\ jobs' = jobs \ {Act(c)}
  /\ UNCHANGED <<act, run, svc, worker, calls, sweep, faults>>

\* The inputs or the catalogue may have changed since the request.
Preflighted(c) ==
  /\ Owned(c, "preflighted")
  /\ \/ Goto(c, "reject") /\ UNCHANGED act
     \/ Update(c, [Enter(act[Act(c)], "validated") EXCEPT !.error = FALSE], "finish")
  /\ UNCHANGED <<run, svc, world, faults>>

Validated(c) ==
  LET r == act[Act(c)]
      next == IF r.pred = NoActivation THEN "starting" ELSE "retiring"
  IN
  /\ Owned(c, "validated")
  /\ \/ Goto(c, "reject") /\ UNCHANGED act
     \/ Update(c, Enter(r, next), "finish")
  /\ UNCHANGED <<run, svc, world, faults>>

-----------------------------------------------------------------------------
(* The predecessor is retired: _retire and retire_service.                 *)

\* Mutant: a request to cancel is looked at once the predecessor is gone.
RetireRegardless(r) == FALSE
\* _retire returns early
RetireCancelled(r) == r.cancel

Retire(c) ==
  LET r == act[Act(c)]
      p == svc[r.pred].intent
  IN
  /\ Owned(c, "retiring")
  /\ \/ /\ RetireCancelled(r)
        /\ Update(c, Enter(r, "retiring"), "finish")
        /\ UNCHANGED svc
     \/ /\ ~RetireCancelled(r)
        /\ IF r.retired THEN p \notin {"none", "deleted"} ELSE p # "running"
        /\ Goto(c, "reject")
        /\ UNCHANGED <<act, svc>>
     \/ /\ ~RetireCancelled(r)
        /\ IF r.retired THEN p = "deleted" ELSE p = "running"
        /\ Update(c, [r EXCEPT !.retired = TRUE], "shutdown")
        /\ svc' = [svc EXCEPT ![r.pred] = MarkDeleting(@)]
     \/ /\ ~RetireCancelled(r)
        /\ r.retired /\ p = "none"
        /\ Goto(c, "absent")
        /\ UNCHANGED <<act, svc>>
  /\ UNCHANGED <<run, world, faults>>

\* remove_intent and remove, as RadarLifecycle has them
Shutdown(s) == s \notin worker

AwaitShutdown(c) ==
  /\ \/ At(c, "shutdown") /\ Shutdown(act[Act(c)].pred) /\ Goto(c, "purge")
     \/ At(c, "absent") /\ Shutdown(act[Act(c)].pred) /\ Goto(c, "retired")
     \/ At(c, "stop") /\ Shutdown(Act(c)) /\ Goto(c, "purgeSuccessor")
     \/ At(c, "absentSuccessor") /\ Shutdown(Act(c)) /\ Goto(c, "stopped")
  /\ UNCHANGED <<act, run, svc, world, faults>>

\* The last transaction of retire_service, on the row of s.
PurgeRetired(c, s, purged, superseded) ==
  /\ Goto(c, IF svc[s].intent \in {"none", "deleted"} THEN purged ELSE superseded)
  /\ IF svc[s].intent = "deleted" THEN Purge(s) ELSE UNCHANGED <<run, svc>>

PurgeRow(c) ==
  /\ \/ At(c, "purge") /\ PurgeRetired(c, act[Act(c)].pred, "retired", "error")
     \/ At(c, "purgeSuccessor") /\ PurgeRetired(c, Act(c), "stopped", "confirm")
  /\ UNCHANGED <<act, world, faults>>

Retired(c) ==
  /\ Owned(c, "retired")
  /\ Update(c, [Enter(act[Act(c)], "starting") EXCEPT !.error = FALSE], "finish")
  /\ UNCHANGED <<run, svc, world, faults>>

-----------------------------------------------------------------------------
(* The successor is launched and verified: _start and _verify.             *)

Start(c) ==
  /\ Owned(c, "starting")
  /\ Goto(c, "launch")
  /\ UNCHANGED <<act, run, svc, world, faults>>

\* Mutant: the phase is taken for granted, and the run only has to exist.
LaunchByRun(a) == run[a] # "none"
\* _activation_for_launch: the token of the caller is not looked at.
MayLaunch(a) == act[a].phase = "starting" /\ ~act[a].cancel /\ run[a] = "open"

\* _assert_topics_available and _pipeline_claims
InputsAvailable(a) ==
  /\ \A s \in Holders \ {a} : Inputs(a) \cap Inputs(s) = {}
  /\ \A b \in Pending \ {a} : Inputs(a) \cap Claim(b) = {}

\* create_radar_service: the row of an earlier attempt is resumed.  It may also
\* be refused, because the inputs are not those of the preflight any more.
Launch(c) ==
  LET a == Act(c)
      granted == MayLaunch(a) /\ InputsAvailable(a)
  IN
  /\ At(c, "launch")
  /\ \/ Goto(c, "error") /\ UNCHANGED svc
     \/ /\ granted /\ svc[a].intent \in {"none", "running"}
        /\ Goto(c, "create")
        /\ svc' = IF svc[a].intent = "running" THEN svc
                  ELSE [svc EXCEPT ![a] = [NoService EXCEPT !.intent = "running",
                                                            !.claim = TRUE]]
  /\ UNCHANGED <<act, run, world, faults>>

\* complete_creation
CreateWorkload(c) ==
  LET a == Act(c) IN
  /\ At(c, "create")
  /\ \/ /\ svc[a].intent = "running"
        /\ svc' = [svc EXCEPT ![a].attached = TRUE]
        /\ Goto(c, "started")
     \/ /\ svc[a].intent # "running"
        /\ Goto(c, "error")
        /\ UNCHANGED svc
  /\ UNCHANGED <<act, run, world, faults>>

Started(c) ==
  LET r == [act[Act(c)] EXCEPT !.late = FALSE] IN
  /\ Owned(c, "started")
  /\ Update(c, IF RunEnded(Act(c)) THEN Failing(r)
               ELSE [Enter(r, "awaiting_heartbeat") EXCEPT !.error = FALSE],
            "finish")
  /\ UNCHANGED <<run, svc, world, faults>>

\* "recent": the last heartbeat is recent enough to count as healthy.
Verify(c, recent) ==
  LET a == Act(c)
      r == act[a]
      wanted == svc[a].intent = "running" /\ ~RunEnded(a)
      healthy == svc[a].beat = "timely" /\ recent
  IN
  /\ Owned(c, "awaiting_heartbeat")
  /\ Update(c, IF ~wanted THEN Cancelling(r)
               ELSE IF svc[a].failed # "no" THEN Failing(r)
               ELSE IF healthy THEN [r EXCEPT !.phase = "succeeded", !.error = FALSE]
               ELSE IF r.late THEN Failing(r)
               ELSE r,
            "finish")
  /\ UNCHANGED <<run, svc, world, faults>>

-----------------------------------------------------------------------------
(* The successor is removed: _cancel.                                      *)

CloseRun(c) ==
  LET a == Act(c) IN
  /\ Owned(c, "cancelling")
  /\ run' = IF run[a] # "open" THEN run
            ELSE [run EXCEPT ![a] = IF act[a].error THEN "failed" ELSE "ended"]
  /\ Goto(c, "delete")
  /\ UNCHANGED <<act, svc, world, faults>>

DeleteSuccessor(c) ==
  LET a == Act(c) IN
  /\ Owned(c, "delete")
  /\ IF svc[a].intent = "none"
     THEN Goto(c, "absentSuccessor") /\ UNCHANGED svc
     ELSE Goto(c, "stop") /\ svc' = [svc EXCEPT ![a] = MarkDeleting(@)]
  /\ UNCHANGED <<act, run, world, faults>>

\* _require_deleting: the reconciler finishes what is durably deleted.
RequireDeleting(c) ==
  /\ At(c, "confirm")
  /\ Goto(c, IF svc[Act(c)].intent \in {"none", "deleted"} THEN "stopped" ELSE "error")
  /\ UNCHANGED <<act, run, svc, world, faults>>

Stopped(c) ==
  /\ Owned(c, "stopped")
  /\ Goto(c, "cleanup")
  /\ UNCHANGED <<act, run, svc, world, faults>>

\* remove_for
CleanUpJob(c) ==
  /\ At(c, "cleanup")
  /\ jobs' = jobs \ {Act(c)}
  /\ Goto(c, "end")
  /\ UNCHANGED <<act, run, svc, worker, calls, sweep, faults>>

End(c) ==
  LET r == act[Act(c)] IN
  /\ Owned(c, "end")
  /\ Update(c, [r EXCEPT !.phase = IF r.error THEN "failed" ELSE "cancelled"], "finish")
  /\ UNCHANGED <<run, svc, world, faults>>

-----------------------------------------------------------------------------
(* Faults, and the sweep of preflight jobs.                                *)

Fault == faults > 0 /\ faults' = faults - 1

\* The call of c may still reach Docker although c no longer waits for it.
Abandon(c) ==
  IF At(c, "job") THEN calls' = calls \cup {Act(c)} ELSE UNCHANGED calls

\* A remote call fails.  Once delete is durable, retire_service returns FALSE
\* and _require_deleting looks; a failed creation is shown to the operators.
RemoteFails(c) ==
  LET a == Act(c) IN
  /\ ctl[c].pc \in Remote
  /\ Fault
  /\ Abandon(c)
  /\ Goto(c, IF At(c, "stop") THEN "confirm"
             ELSE IF At(c, "report") THEN "unjobFailing" ELSE "error")
  /\ svc' = IF At(c, "create") /\ svc[a].intent = "running" /\ ~svc[a].attached
            THEN [svc EXCEPT ![a].failed = "launch"] ELSE svc
  /\ UNCHANGED <<act, run, worker, jobs, sweep>>

\* The process dies and leaves its token, or the task is cancelled and, in its
\* "finally" clauses, removes its job and gives the token back.
Crash(c) ==
  /\ ctl[c] # Idle
  /\ Fault
  /\ Abandon(c)
  /\ \/ ctl' = [ctl EXCEPT ![c] = Idle]
     \/ Goto(c, IF At(c, "report") THEN "unjobInterrupted" ELSE "finish")
  /\ UNCHANGED <<act, run, svc, worker, jobs, sweep>>

\* A lease outlasts what its controller does, unless that takes too long.
LeaseExpires(a) ==
  LET c == act[a].token IN
  /\ c # NoController /\ act[a].leased
  /\ IF Act(c) = a THEN Fault ELSE UNCHANGED faults
  /\ act' = [act EXCEPT ![a].leased = FALSE]
  /\ UNCHANGED <<run, svc, world, ctl>>

\* A creation whose caller is gone takes effect.
DelayedJob(a) ==
  /\ a \in calls
  /\ calls' = calls \ {a}
  /\ jobs' = jobs \cup {a}
  /\ UNCHANGED <<act, run, svc, worker, ctl, sweep, faults>>

\* Mutants: a job is kept while its activation exists, or while it is leased.
KeptWhileKnown(a) == act[a].phase # "none"
NeededWhileLeased(a) == act[a].phase = "preflighting" /\ act[a].leased
\* _needed
Needed(a) == act[a].phase = "preflighting"

SweepRead(a) ==
  /\ sweep = NoActivation
  /\ a \in jobs /\ ~Needed(a)
  /\ sweep' = a
  /\ UNCHANGED <<act, run, svc, worker, jobs, calls, ctl, faults>>

SweepRemove ==
  /\ sweep # NoActivation
  /\ jobs' = jobs \ {sweep}
  /\ sweep' = NoActivation
  /\ UNCHANGED <<act, run, svc, worker, calls, ctl, faults>>

-----------------------------------------------------------------------------
User ==
  \E a \in Activation :
    \/ \E inputs \in Requests, p \in (Activation \ {a}) \cup {NoActivation} :
         Submit(a, inputs, p)
    \/ RequestCancel(a) \/ DeleteService(a)

Lifecycle ==
  \E s \in Activation :
    \/ GiveUp(s) \/ ServiceRemoved(s) \/ RecoverPending(s)
    \/ WorkerStarts(s) \/ WorkerStops(s) \/ Heartbeat(s) \/ WorkerFails(s)
    \/ DeadlinePasses(s)

Step(c) ==
  \/ Lose(c) \/ RecordError(c) \/ Finish(c)
  \/ Preflight(c) \/ EnsureJob(c) \/ ReadReport(c) \/ RemoveJob(c) \/ Preflighted(c)
  \/ Validated(c)
  \/ Retire(c) \/ AwaitShutdown(c) \/ PurgeRow(c) \/ Retired(c)
  \/ Start(c) \/ Launch(c) \/ CreateWorkload(c) \/ Started(c)
  \/ \E recent \in BOOLEAN : Verify(c, recent)
  \/ CloseRun(c) \/ DeleteSuccessor(c) \/ RequireDeleting(c) \/ Stopped(c)
  \/ CleanUpJob(c) \/ End(c)

Environment ==
  \/ \E c \in Controller : RemoteFails(c) \/ Crash(c)
  \/ \E a \in Activation : LeaseExpires(a) \/ DelayedJob(a) \/ SweepRead(a)
  \/ SweepRemove

Next ==
  \/ User \/ Lifecycle \/ Environment
  \/ \E c \in Controller : Step(c) \/ \E a \in Activation, expired \in BOOLEAN :
                                        Take(c, a, expired)

Spec == Init /\ [][Next]_vars

-----------------------------------------------------------------------------
(* Fairness: a controller goes on once it has taken an activation, until   *)
(* it is idle; the supervisor takes what is pending every second, and a    *)
(* phase cannot outlast its budget; Docker stops a workload it was told to *)
(* remove; the cleanup loop sweeps the preflight jobs every second.        *)

Supervise(c) == \E a \in Activation, expired \in BOOLEAN : Take(c, a, expired)
Stops(s) == svc[s].intent # "running" /\ WorkerStops(s)

Fairness ==
  /\ \A c \in Controller : WF_vars(Step(c))
  /\ \A a \in Activation :
       /\ SF_vars(\E c \in Controller : Take(c, a, FALSE))
       /\ SF_vars(\E c \in Controller : Take(c, a, TRUE))
       /\ WF_vars(LeaseExpires(a) /\ Act(act[a].token) # a)
       /\ WF_vars(DeadlinePasses(a))
       /\ WF_vars(Stops(a))
       /\ WF_vars(SweepRead(a))
  /\ WF_vars(SweepRemove)

FairSpec == Spec /\ Fairness

-----------------------------------------------------------------------------
(* Properties.                                                             *)

\* One monitor per reading: no two services claim, or still read, the same one,
\* whatever a launch, a retirement and a request that overlap each other do.
ReadingsExclusive ==
  \A s, t \in Holders \cup worker : s # t => Inputs(s) \cap Inputs(t) = {}

\* A pending activation reserves the slot of its successor instead of that of
\* its predecessor, so the limit holds before, during and after a replacement.
CapacityHeld ==
  Cardinality(Owners) <= Capacity /\ Cardinality(Holders) <= Capacity

\* Well-typed, and a hand-over never has one monitor too many.
HandOverInvariant == TypeOK /\ ReadingsExclusive /\ CapacityHeld

\* An activation that ended without success leaves no monitor that could run,
\* also when its launch was still under way in a controller that lost the lease.
EndedLeavesNothing ==
  \A a \in Activation :
    act[a].phase \in {"cancelled", "failed"} => RunEnded(a) /\ svc[a].intent # "running"

Rank ==
  [none |-> 0, requested |-> 1, preflighting |-> 2, validated |-> 3, retiring |-> 4,
   starting |-> 5, awaiting_heartbeat |-> 6, cancelling |-> 7, succeeded |-> 8,
   cancelled |-> 8, failed |-> 8]

\* "Stale replies cannot move a newer activation back to an earlier phase"
\* (monitoring-pipelines.md:430-432), nor out of the phase it ended in.
PhasesForward ==
  [][\A a \in Activation :
       act'[a].phase = act[a].phase \/ Rank[act[a].phase] < Rank[act'[a].phase]]_vars

\* "Cancellation before retirement preserves the predecessor"
\* (monitoring-pipelines.md:423-424): once accepted, retirement never starts.
CancelSparesPredecessor ==
  [][\A a \in Activation : act[a].cancel /\ ~act[a].retired => ~act'[a].retired]_vars

\* The sweep never takes the job of a preflight that is still under way: what
\* it read of the phase stays true until the removal.
SweepSparesPreflight ==
  [][\A a \in jobs \ jobs' : act[a].phase = "preflighting" =>
       \E c \in Controller : Act(c) = a /\ ctl[c].pc \in Unjob \cup {"cleanup"}
     ]_vars

\* A monitor is a service with the readings it was requested for.
Monitors(S) == {<<s, act[s].inputs>> : s \in S}
Overlap == {mn \in (Activation \X Requests) \X (Activation \X Requests) :
              mn[1][1] # mn[2][1] /\ mn[1][2] \cap mn[2][2] # {}}
Claims == INSTANCE SensorClaims
            WITH Monitor <- Activation \X Requests,
                 holders <- Monitors(Holders), workers <- Monitors(worker),
                 closed <- Monitors({a \in Activation : RunEnded(a)})

\* Whatever the order of requests, launches and removals, the monitors together
\* keep what SensorClaims promises: a worker never outlives its claim, and a
\* claim that was given up is never taken again.
RefinesClaims == Claims!Spec

\* A request never stays pending: it succeeds, or it is cleaned up.
ActivationEnds ==
  \A a \in Activation : a \in Pending ~> a \notin Pending

\* A job that outlives its preflight, created late or left by a crash, goes.
PreflightReaped ==
  \A a \in Activation : a \in jobs /\ act[a].phase # "preflighting" ~> a \notin jobs

=============================================================================
