----------------------------- MODULE RadarWorker -----------------------------
(***************************************************************************)
(* One RADAR worker from its start to its end: the network thread that     *)
(* takes messages in, the task that handles them one at a time, the loop   *)
(* that saves snapshots, the reconnect task and the order of a shutdown.   *)
(* The writer behind a snapshot is CheckpointWriter; here a commit is one  *)
(* step.  A callback of the network thread is one step too.                *)
(***************************************************************************)
EXTENDS Integers

CONSTANTS QueueLimit,                  \* max_queue_size
          MaxStarts,
          Budget                       \* of messages and faults together

WorkerAssumption ==
  /\ QueueLimit \in Nat \ {0}
  /\ MaxStarts \in Nat \ {0} /\ Budget \in Nat

VARIABLES
  svc,      \* where start, run and stop of the service are
  halt,     \* its shutdown_event
  fatal,    \* _fatal_error
  fenced,   \* another worker owns the snapshots
  net,      \* the client's connection
  linked,   \* is_connected
  future,   \* _connection_result
  ensure,   \* _ensure_reconnect_task is scheduled
  retry,    \* the reconnect task
  queue,    \* messages in message_queue
  handler,  \* the message that is being handled
  saver,    \* the checkpoint loop
  lock,     \* who holds _processing_lock
  step,     \* and where it is
  n,        \* counters of the runtime
  cap,      \* the state that is being saved
  snap,     \* the stored snapshot
  starts, faults

link == <<net, linked, future, ensure, retry>>
vars == <<svc, halt, fatal, fenced, link, queue, handler, saver, lock, step, n, cap, snap,
          starts, faults>>

\* got, lost, gaps: coverage; seen: messages through the pipeline; model, evid: observations
\* the model advanced by, and those whose evidence is queued; gone: received, and neither.
Counts == [got : Nat, lost : Nat, gaps : Nat, seen : Nat, model : Nat, evid : Nat, gone : Nat]
Zero == [got |-> 0, lost |-> 0, gaps |-> 0, seen |-> 0, model |-> 0, evid |-> 0, gone |-> 0]
NoSnapshot == [got |-> -1]

WorkerTypeOK ==
  /\ svc \in {"down", "first", "connecting", "running", "closing", "draining", "final"}
  /\ {halt, fenced, linked, ensure} \subseteq BOOLEAN
  /\ fatal \in {"none", "persistence", "execution"}
  /\ net \in {"none", "subscribing", "up"} /\ future \in {"none", "pending", "ok", "failed"}
  /\ retry \in {"none", "waiting", "connecting"} /\ queue \in 0 .. QueueLimit
  /\ handler \in {"idle", "waiting", "busy", "failing"}
  /\ saver \in {"off", "idle", "busy", "failing"}
  /\ lock \in {"none", "handler", "saver"}
  /\ step \in {"none", "model", "evidence", "save", "commit"}
  /\ n \in Counts /\ {cap, snap} \subseteq Counts \cup {NoSnapshot}
  /\ starts \in 0 .. MaxStarts /\ faults \in 0 .. Budget

Init ==
  /\ svc = "down" /\ halt = FALSE /\ fatal = "none" /\ fenced = FALSE
  /\ net = "none" /\ linked = FALSE /\ future = "none" /\ ensure = FALSE /\ retry = "none"
  /\ queue = 0 /\ handler = "idle" /\ saver = "off" /\ lock = "none" /\ step = "none"
  /\ n = Zero /\ cap = NoSnapshot /\ snap = NoSnapshot /\ starts = 0 /\ faults = 0

WithinBudget == n.got + faults < Budget
Fault == WithinBudget /\ faults' = faults + 1
\* What a process takes with it when it ends.
Ends ==
  /\ svc' = "down" /\ halt' = FALSE /\ fatal' = "none" /\ fenced' = FALSE
  /\ net' = "none" /\ linked' = FALSE /\ future' = "none" /\ ensure' = FALSE /\ retry' = "none"
  /\ queue' = 0 /\ handler' = "idle" /\ saver' = "off" /\ lock' = "none" /\ step' = "none"
  /\ n' = Zero /\ cap' = NoSnapshot

\* The client's own shutdown_event is not set.
Live == svc \in {"connecting", "running", "closing"}
Count(f) == n' = [n EXCEPT ![f] = @ + 1]
Counted(f, g) == n' = [n EXCEPT ![f] = @ + 1, ![g] = @ + 1]

-----------------------------------------------------------------------------
(* Start.                                                                  *)

\* A worker without a snapshot starts from nothing; what a snapshot had received and
\* neither handled nor counted died with the worker that saved it.
Start ==
  /\ svc = "down" /\ starts < MaxStarts
  /\ starts' = starts + 1
  /\ n' = IF snap = NoSnapshot THEN Zero
          ELSE [snap EXCEPT !.gone = snap.got - snap.lost - snap.seen, !.evid = snap.model]
  /\ svc' = "first"
  /\ UNCHANGED <<halt, fatal, fenced, link, queue, handler, saver, lock, step, cap, snap, faults>>

\* Mutant: a restart is not a gap.
NoGap == n
RestartGap == IF snap = NoSnapshot THEN n ELSE [n EXCEPT !.gaps = @ + 1]

\* The forced snapshot that precedes the first message, then the client.
FirstSave ==
  /\ svc = "first" /\ ~fenced
  /\ snap' = n
  /\ n' = RestartGap
  /\ svc' = "connecting" /\ net' = "subscribing" /\ future' = "pending"
  /\ UNCHANGED <<halt, fatal, fenced, linked, ensure, retry, queue, handler, saver, lock, step,
                 cap, starts, faults>>

StartFails ==
  /\ \/ svc = "first" /\ Fault
     \/ svc = "first" /\ fenced /\ UNCHANGED faults
     \/ svc = "connecting" /\ future = "failed" /\ UNCHANGED faults
  /\ svc' = "closing" /\ halt' = TRUE
  /\ UNCHANGED <<fatal, fenced, link, queue, handler, saver, lock, step, n, cap, snap, starts>>

Started ==
  /\ svc = "connecting" /\ future = "ok"
  /\ svc' = "running" /\ future' = "none" /\ saver' = "idle"
  /\ UNCHANGED <<halt, fatal, fenced, net, linked, ensure, retry, queue, handler, lock, step, n,
                 cap, snap, starts, faults>>

-----------------------------------------------------------------------------
(* The network thread and the reconnect task.                              *)

Rest == <<halt, fatal, fenced, queue, handler, saver, lock, step, cap, snap, starts>>

\* _on_subscribe, for the last topic
Suback ==
  /\ Live /\ net = "subscribing" /\ future = "pending"
  /\ net' = "up" /\ linked' = TRUE /\ future' = "ok"
  /\ UNCHANGED <<svc, ensure, retry, n, Rest, faults>>

\* The connection or a topic is refused, or nothing answers in time.
ConnectFails ==
  /\ Live /\ net = "subscribing" /\ future = "pending"
  /\ Fault
  /\ future' = "failed"
  /\ UNCHANGED <<svc, net, linked, ensure, retry, n, Rest>>

\* _on_disconnect
Disconnect ==
  /\ Live /\ net # "none"
  /\ Fault
  /\ net' = "none" /\ linked' = FALSE /\ ensure' = TRUE
  /\ future' = IF future = "pending" THEN "failed" ELSE future
  /\ IF linked THEN Count("gaps") ELSE UNCHANGED n
  /\ UNCHANGED <<svc, retry, Rest>>

\* _ensure_reconnect_task
Ensure ==
  /\ Live /\ ensure
  /\ ensure' = FALSE
  /\ retry' = IF retry = "none" THEN "waiting" ELSE retry
  /\ UNCHANGED <<svc, net, linked, future, n, Rest, faults>>

Reconnect ==
  /\ svc \in {"running", "closing"} /\ retry = "waiting"
  /\ IF linked THEN retry' = "none" /\ UNCHANGED <<net, linked, future>>
     ELSE retry' = "connecting" /\ net' = "subscribing" /\ linked' = FALSE /\ future' = "pending"
  /\ UNCHANGED <<svc, ensure, n, Rest, faults>>

\* Mutant: an attempt that succeeded ends the task.
DoneOnSuccess == future = "ok"
ReconnectDone == linked

ReconnectReturns ==
  /\ Live /\ retry = "connecting" /\ future \in {"ok", "failed"}
  /\ future' = "none"
  /\ IF future = "failed" THEN net' = "none" /\ linked' = FALSE ELSE UNCHANGED <<net, linked>>
  /\ retry' = IF ReconnectDone THEN "none" ELSE "waiting"
  /\ UNCHANGED <<svc, ensure, n, Rest, faults>>

\* _on_message; too large, over the rate or too many
Receive ==
  /\ Live /\ net = "up" /\ WithinBudget
  /\ \/ Counted("got", "lost") /\ UNCHANGED queue
     \/ queue < QueueLimit /\ Count("got") /\ queue' = queue + 1
  /\ UNCHANGED <<svc, halt, fatal, fenced, link, handler, saver, lock, step, cap, snap, starts,
                 faults>>

-----------------------------------------------------------------------------
(* Handling a message.                                                     *)

Away == <<svc, fenced, link, starts>>

Take ==
  /\ Live /\ handler = "idle" /\ queue > 0
  /\ queue' = queue - 1 /\ handler' = "waiting"
  /\ UNCHANGED <<Away, halt, fatal, saver, lock, step, n, cap, snap, faults>>

Stops(cause) == fatal' = cause /\ halt' = TRUE

\* After a fatal error a message is let go; so is one that meets the fence.
Begin ==
  /\ handler = "waiting" /\ lock = "none"
  /\ IF fatal = "none" /\ ~fenced
       THEN handler' = "busy" /\ lock' = "handler" /\ step' = "model"
            /\ UNCHANGED <<fatal, halt, n>>
       ELSE /\ handler' = "idle" /\ Count("gone")
            /\ IF fatal = "none" THEN Stops("persistence") ELSE UNCHANGED <<fatal, halt>>
            /\ UNCHANGED <<lock, step>>
  /\ UNCHANGED <<Away, queue, saver, cap, snap, faults>>

\* process_message_sync: dropped, held for alignment, or advanced
Infer ==
  /\ lock = "handler" /\ step = "model"
  /\ \/ Count("lost") /\ step' = "save"
     \/ Count("seen") /\ step' = "save"
     \/ Counted("seen", "model") /\ step' = "evidence"
  /\ UNCHANGED <<Away, halt, fatal, queue, handler, saver, lock, cap, snap, faults>>

Release == lock' = "none" /\ step' = "none" /\ cap' = NoSnapshot
\* The one that holds the lock is through with it.
Idle == IF lock = "handler" THEN handler' = "idle" /\ UNCHANGED saver
                            ELSE saver' = "idle" /\ UNCHANGED handler
Fails == IF lock = "handler" THEN handler' = "idle" /\ UNCHANGED saver
                             ELSE saver' = "off" /\ UNCHANGED handler

\* FatalExecutionError: a handler quarantines the model with the lock, the loop without it.
ExecutionFails ==
  /\ step \in {"model", "save"}
  /\ Fault
  /\ fatal' = "execution"
  /\ IF step = "model" THEN Count("lost") ELSE UNCHANGED n
  /\ IF lock = "handler" THEN handler' = "failing" /\ step' = "none"
                              /\ UNCHANGED <<saver, lock, cap>>
                         ELSE saver' = "failing" /\ Release /\ UNCHANGED handler
  /\ UNCHANGED <<Away, halt, queue, snap>>

\* write_result
Enqueue ==
  /\ step = "evidence"
  /\ IF fenced THEN Stops("persistence") /\ Release /\ handler' = "idle" /\ UNCHANGED n
               ELSE Count("evid") /\ step' = "save" /\ UNCHANGED <<fatal, halt, lock, handler, cap>>
  /\ UNCHANGED <<Away, queue, saver, snap, faults>>

\* The failure of the run is stored, or belongs to a successor, or nobody waits for it.
FailureReported ==
  /\ \/ handler = "failing" /\ handler' = "idle" /\ Release /\ UNCHANGED saver
     \/ saver = "failing" /\ saver' = "off" /\ UNCHANGED <<handler, lock, step, cap>>
  /\ halt' = TRUE
  /\ UNCHANGED <<Away, fatal, queue, n, snap, faults>>

-----------------------------------------------------------------------------
(* Snapshots.                                                              *)

SaverWakes ==
  /\ saver = "idle" /\ lock = "none" /\ ~halt
  /\ saver' = "busy" /\ lock' = "saver" /\ step' = "save"
  /\ UNCHANGED <<Away, halt, fatal, queue, handler, n, cap, snap, faults>>

\* _checkpoint_if_due: the fence, then what is frozen on the model's thread
SaveOrNot ==
  /\ step = "save"
  /\ \/ /\ fenced /\ Stops("persistence") /\ Release /\ Fails
     \/ /\ ~fenced /\ cap' = n /\ step' = "commit"
        /\ UNCHANGED <<fatal, halt, lock, handler, saver>>
     \/ /\ ~fenced /\ Release /\ Idle
        /\ UNCHANGED <<fatal, halt>>
  /\ UNCHANGED <<Away, queue, n, snap, faults>>

Commit ==
  /\ step = "commit" /\ ~fenced
  /\ snap' = cap
  /\ Release /\ Idle
  /\ UNCHANGED <<Away, halt, fatal, queue, n, faults>>

CommitFails ==
  /\ step = "commit"
  /\ IF fenced THEN UNCHANGED <<faults, snap>> ELSE Fault /\ snap' \in {snap, cap}
  /\ Stops("persistence") /\ Release /\ Fails
  /\ UNCHANGED <<Away, queue, n>>

-----------------------------------------------------------------------------
(* The end.                                                                *)

\* SIGTERM
Terminate ==
  /\ svc \in {"first", "connecting", "running"} /\ ~halt
  /\ halt' = TRUE
  /\ UNCHANGED <<Away, fatal, queue, handler, saver, lock, step, n, cap, snap, faults>>

Closes ==
  /\ svc = "running" /\ halt
  /\ svc' = "closing"
  /\ UNCHANGED <<halt, fatal, fenced, link, queue, handler, saver, lock, step, n, cap, snap,
                 starts, faults>>

\* The loop is cancelled, and the client stopped.
StopIngestion ==
  /\ svc = "closing" /\ ~(lock = "saver" /\ step = "save")
  /\ IF lock = "saver" THEN Release /\ snap' \in (IF fenced THEN {snap} ELSE {snap, cap})
                       ELSE UNCHANGED <<lock, step, cap, snap>>
  /\ saver' = "off" /\ svc' = "draining"
  /\ net' = "none" /\ linked' = FALSE /\ future' = "none" /\ ensure' = FALSE /\ retry' = "none"
  /\ UNCHANGED <<halt, fatal, fenced, queue, handler, n, starts, faults>>

\* Mutant: a handler is cancelled where it is.
Interrupted == TRUE
\* The shield lets the handler finish.
HandlerDone == handler = "idle"

\* The rest of the queue is counted as lost.
Drained ==
  /\ svc = "draining" /\ HandlerDone
  /\ n' = [n EXCEPT !.lost = @ + queue]
  /\ queue' = 0 /\ svc' = "final"
  /\ handler' = "idle" /\ Release
  /\ UNCHANGED <<halt, fatal, fenced, link, saver, snap, starts, faults>>

FinalSave ==
  /\ svc = "final"
  /\ IF fatal = "execution" \/ fenced THEN UNCHANGED <<snap, faults>>
     ELSE \/ snap' = n /\ UNCHANGED faults
          \/ Fault /\ UNCHANGED snap
  /\ Ends
  /\ UNCHANGED starts

Crash ==
  /\ svc # "down"
  /\ Fault
  /\ Ends
  /\ snap' \in (IF step = "commit" /\ ~fenced THEN {snap, cap} ELSE {snap})
  /\ UNCHANGED starts

\* A successor signs snapshots of its own.
Fenced ==
  /\ svc # "down" /\ ~fenced
  /\ Fault
  /\ fenced' = TRUE
  /\ UNCHANGED <<svc, halt, fatal, link, queue, handler, saver, lock, step, n, cap, snap, starts>>

Alive == svc # "down"

\* The network thread, the reconnect task and the threads of the worker.
Network ==
  /\ Alive
  /\ Suback \/ ConnectFails \/ Disconnect \/ Ensure \/ Reconnect \/ ReconnectReturns \/ Receive

Worker ==
  /\ Alive
  /\ \/ FirstSave \/ StartFails \/ Started \/ Take \/ Begin \/ Infer \/ ExecutionFails
     \/ Enqueue \/ FailureReported \/ SaverWakes \/ SaveOrNot \/ Commit \/ CommitFails
     \/ Terminate \/ Closes \/ StopIngestion \/ Drained \/ FinalSave

Next == Start \/ Network \/ Worker \/ Crash \/ Fenced

\* The tasks run, and a broker that is asked answers.
Spec ==
  /\ Init /\ [][Next]_vars
  /\ WF_vars(Ensure \/ Reconnect \/ ReconnectReturns) /\ WF_vars(Suback)

-----------------------------------------------------------------------------
(* Every message is queued, under way, counted as lost, through the        *)
(* pipeline, or gone; and nothing is under way at the final snapshot.      *)
EveryMessage ==
  Alive =>
    /\ n.got = n.lost + n.seen + n.gone + queue
               + (IF handler = "waiting" \/ step = "model" THEN 1 ELSE 0)
    /\ svc = "final" => queue = 0 /\ handler = "idle" /\ lock = "none"

(* A worker that runs and missed a message shows a gap, whichever of its   *)
(* predecessors missed it, or is about to fail.                            *)
MissedIsShown ==
  svc = "running" /\ n.gone > 0 => n.gaps > 0 \/ fatal # "none"

(* No snapshot holds an observation whose evidence was not queued.         *)
EvidenceFirst == snap # NoSnapshot => snap.model <= snap.evid

(* A worker that lost the broker gets it back, or ends.                    *)
Reconnects == (svc = "running" /\ ~linked) ~> (linked \/ svc # "running")
=============================================================================
