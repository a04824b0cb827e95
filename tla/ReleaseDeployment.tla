--------------------------- MODULE ReleaseDeployment ---------------------------
(***************************************************************************)
(* A release of the software: every monitor is stopped and a replacement   *)
(* is started under the new version.  The commands of the release may be   *)
(* killed between any two transactions and run again; what is to be done   *)
(* is in the maintenance row alone.  One command runs at a time.           *)
(***************************************************************************)
EXTENDS Integers, FiniteSets

CONSTANTS Service, NoService,
          Monitors,               \* the services that run at first,
          Form,                   \* those that setup forms saved,
          Legacy,                 \* and those without a saved launch
          Revision,
          MaxBreaks, MaxAborts

ReleaseAssumption ==
  /\ Monitors \subseteq Service /\ Form \subseteq Monitors /\ Legacy \subseteq Monitors
  /\ IsFiniteSet(Service) /\ NoService \notin Service
  /\ MaxBreaks \in Nat /\ MaxAborts \in Nat

VARIABLES
  op,         \* the row of deployment_maintenance
  service,    \* [intent, worker, run] of every service
  captured,   \* services with a saved launch
  command,    \* the command that runs, and the monitors resume has left
  halted,     \* monitors the release stopped
  told,       \* monitors an abort reported
  untold,     \* and those it stopped and did not
  breaks, aborts

vars == <<op, service, captured, command, halted, told, untold, breaks, aborts>>

NoCommand == [does |-> "nothing", todo |-> {}]
Unused == [intent |-> "none", worker |-> "none", run |-> "none"]
Going == [intent |-> "running", worker |-> "up", run |-> "running"]

ReleaseTypeOK ==
  /\ op.phase \in {"none", "quiescing", "preparing", "stopped", "restarted", "complete"}
  /\ DOMAIN op.monitors \subseteq Service
  /\ \A m \in DOMAIN op.monitors : op.monitors[m].replacement \in Service \cup {NoService}
  /\ \A s \in Service :
       /\ service[s].intent \in {"none", "running", "stopping", "stopped"}
       /\ service[s].worker \in {"none", "up", "retiring", "gone"}
       /\ service[s].run \in {"none", "reserved", "starting", "running", "ended"}
  /\ command.does \in {"nothing", "begin", "resume"} /\ command.todo \subseteq Service
  /\ halted \cup told \cup untold \cup captured \subseteq Service

Init ==
  /\ op = [phase |-> "none", revision |-> "none", monitors |-> <<>>]
  /\ service = [s \in Service |-> IF s \in Monitors THEN Going ELSE Unused]
  /\ captured = Monitors \ Legacy
  /\ command = NoCommand
  /\ halted = {} /\ told = {} /\ untold = {} /\ breaks = 0 /\ aborts = 0

\* monitor_claim_condition
Claims == {s \in Service : service[s].intent \in {"running", "stopping"}}
Set(s, field, value) == service' = [service EXCEPT ![s][field] = value]
Break == breaks < MaxBreaks /\ breaks' = breaks + 1
Open == op.phase \in {"none", "complete"}

-----------------------------------------------------------------------------
(* Everyone else.                                                          *)

\* Mutant: what members do is not looked at.
Unguarded == TRUE
\* require_application_writes, without a revision
ApplicationWrites == Open

\* The services an operator has room for
Fresh == {s \in Service : service[s] = Unused}
AFresh == CHOOSE s \in Fresh : TRUE

MemberStarts ==
  /\ ApplicationWrites /\ Fresh # {} /\ Cardinality(Claims) < Cardinality(Monitors)
  /\ service' = [service EXCEPT ![AFresh] = Going]
  /\ captured' = captured \cup {AFresh}
  /\ UNCHANGED <<op, command, halted, told, untold, breaks, aborts>>

MemberStops(s) ==
  /\ ApplicationWrites /\ service[s].intent = "running"
  /\ Set(s, "intent", "stopping")
  /\ UNCHANGED <<op, captured, command, halted, told, untold, breaks, aborts>>

\* Reconciliation of a stop that was requested goes on during a release.
StopCompletes(s) ==
  /\ service[s].intent = "stopping"
  /\ service' = [service EXCEPT ![s] = [@ EXCEPT !.intent = "stopped", !.worker = "gone",
                                                 !.run = "ended"]]
  /\ UNCHANGED <<op, captured, command, halted, told, untold, breaks, aborts>>

TaskEnds(s) ==
  /\ service[s].worker = "retiring"
  /\ Set(s, "worker", "gone")
  /\ UNCHANGED <<op, captured, command, halted, told, untold, breaks, aborts>>

WorkerFails(s) ==
  /\ service[s].worker = "up" /\ service[s].run # "ended"
  /\ Break
  /\ Set(s, "run", "ended")
  /\ UNCHANGED <<op, captured, command, halted, told, untold, aborts>>

\* The command is killed, or a step of it raises.
Interrupted ==
  /\ command # NoCommand
  /\ Break
  /\ command' = NoCommand
  /\ UNCHANGED <<op, service, captured, halted, told, untold, aborts>>

-----------------------------------------------------------------------------
(* The commands.                                                           *)

\* Another release has to be recovered first.
Free(r) == command = NoCommand /\ (Open \/ op.revision = r)

Capture ==
  /\ command = NoCommand /\ (Open \/ op.phase = "quiescing")
  /\ captured' = captured \cup Claims
  /\ UNCHANGED <<op, service, command, halted, told, untold, breaks, aborts>>

Listed(ms, configured) ==
  [m \in ms |-> [config |-> m \in configured, replacement |-> NoService, preflight |-> FALSE,
                 stopped |-> FALSE, restarted |-> FALSE]]

Reserve(r) ==
  /\ Free(r) /\ Open
  /\ op' = [phase |-> "quiescing", revision |-> r, monitors |-> Listed(Claims, Claims)]
  /\ halted' = {} /\ told' = {} /\ untold' = {}
  /\ UNCHANGED <<service, captured, command, breaks, aborts>>

\* prepare_operation: monitors that are to run again, but for those of forms whose readings are
\* no longer there; a monitor whose stop was requested is stopped and not restarted.
Prepare(r) ==
  LET again == {m \in Claims : service[m].intent = "running"} IN
  /\ Free(r) /\ op.phase \in {"none", "complete", "quiescing"}
  /\ again \subseteq captured
  /\ \E retired \in SUBSET (again \cap Form) :
       op' = [phase |-> "preparing", revision |-> r, monitors |-> Listed(Claims, again \ retired)]
  /\ command' = [does |-> "begin", todo |-> {}]
  /\ halted' = {} /\ told' = {} /\ untold' = {}
  /\ UNCHANGED <<service, captured, breaks, aborts>>

BeginAgain(r) ==
  /\ Free(r) /\ op.phase = "preparing"
  /\ command' = [does |-> "begin", todo |-> {}]
  /\ UNCHANGED <<op, service, captured, halted, told, untold, breaks, aborts>>

Beginning == command.does = "begin" /\ op.phase = "preparing"
Configured == {m \in DOMAIN op.monitors : op.monitors[m].config}
Noted(m, field, value) == op' = [op EXCEPT !.monitors[m][field] = value]

\* _prepare_graph_run: the run and the id of the replacement in one transaction
PrepareRun(m) ==
  /\ Beginning /\ m \in Configured /\ op.monitors[m].replacement = NoService /\ Fresh # {}
  /\ Noted(m, "replacement", AFresh)
  /\ Set(AFresh, "run", "reserved")
  /\ UNCHANGED <<captured, command, halted, told, untold, breaks, aborts>>

Preflight(m) ==
  /\ Beginning /\ op.monitors[m].replacement # NoService /\ ~op.monitors[m].preflight
  /\ Noted(m, "preflight", TRUE)
  /\ UNCHANGED <<service, captured, command, halted, told, untold, breaks, aborts>>

\* Monitors are stopped one after the other, when every replacement passed its preflight.
ToStop == {m \in DOMAIN op.monitors : ~op.monitors[m].stopped}
Stopping(m) ==
  /\ Beginning /\ \A c \in Configured : op.monitors[c].preflight
  /\ ToStop # {} /\ m = CHOOSE x \in ToStop : TRUE

ScaleDown(m) ==
  /\ Stopping(m) /\ service[m].worker = "up"
  /\ Set(m, "worker", "retiring")
  /\ UNCHANGED <<op, captured, command, halted, told, untold, breaks, aborts>>

\* Mutant: replicas of zero are enough.
ScaledDown(m) == service[m].worker # "up"
\* wait_stopped
Stopped(m) == service[m].worker \in {"none", "gone"}

StopService(m) ==
  /\ Stopping(m) /\ Stopped(m) /\ service[m].intent # "stopped"
  /\ service' = [service EXCEPT ![m] = [@ EXCEPT !.intent = "stopped", !.run = "ended"]]
  /\ halted' = halted \cup {m}
  /\ UNCHANGED <<op, captured, command, told, untold, breaks, aborts>>

NoteStopped(m) ==
  /\ Stopping(m) /\ Stopped(m) /\ service[m].intent = "stopped"
  /\ Noted(m, "stopped", TRUE)
  /\ UNCHANGED <<service, captured, command, halted, told, untold, breaks, aborts>>

AllStopped ==
  /\ Beginning /\ ToStop = {}
  /\ op' = [op EXCEPT !.phase = "stopped"]
  /\ command' = NoCommand
  /\ UNCHANGED <<service, captured, halted, told, untold, breaks, aborts>>

Resume(r) ==
  /\ Free(r) /\ op.phase \in {"stopped", "restarted"}
  /\ command' = [does |-> "resume", todo |-> Configured]
  /\ UNCHANGED <<op, service, captured, halted, told, untold, breaks, aborts>>

Restarting(m) == command.does = "resume" /\ command.todo # {} /\ m = CHOOSE x \in command.todo : TRUE

\* Mutant: a service that is created again is another one.
Another(m) == IF service[op.monitors[m].replacement].intent = "none" \/ Fresh = {}
                THEN op.monitors[m].replacement ELSE AFresh
\* execution_service_id
Replacement(m) == op.monitors[m].replacement

CreateService(m) ==
  LET f == Replacement(m) IN
  /\ Restarting(m) /\ service[f].intent = "none"
  /\ Set(f, "intent", "running")
  /\ captured' = captured \cup {f}
  /\ UNCHANGED <<op, command, halted, told, untold, breaks, aborts>>

\* complete_creation, also of a service that is there
Attach(m) ==
  LET f == Replacement(m) IN
  /\ Restarting(m) /\ service[f].intent = "running" /\ service[f].worker = "none"
  /\ Set(f, "worker", "up")
  /\ UNCHANGED <<op, captured, command, halted, told, untold, breaks, aborts>>

Restarted(m) ==
  LET f == Replacement(m) IN
  /\ Restarting(m) /\ service[f].intent = "running" /\ service[f].worker # "none"
  /\ IF service[f].run = "ended" THEN UNCHANGED service ELSE Set(f, "run", "starting")
  /\ Noted(m, "restarted", TRUE)
  /\ command' = [command EXCEPT !.todo = @ \ {m}]
  /\ UNCHANGED <<captured, halted, told, untold, breaks, aborts>>

AllRestarted ==
  /\ command.does = "resume" /\ command.todo = {}
  /\ op' = [op EXCEPT !.phase = "restarted"]
  /\ command' = NoCommand
  /\ UNCHANGED <<service, captured, halted, told, untold, breaks, aborts>>

\* Mutant: only a finish settles the runs.
Unsettled == service
\* Runs of replacements that were restarted count as running from now on.
Settled ==
  LET started == {op.monitors[m].replacement : m \in {x \in DOMAIN op.monitors : op.monitors[x].restarted}} IN
  [s \in Service |-> IF s \in started /\ service[s].run # "ended"
                       THEN [service[s] EXCEPT !.run = "running"] ELSE service[s]]

\* verify_restarted, under locks, and finish; a worker that is up may have a recent heartbeat.
Finish(r) ==
  /\ Free(r) /\ op.phase = "restarted"
  /\ \A m \in Configured : LET s == service[op.monitors[m].replacement] IN
       s.run # "ended" /\ s.worker = "up" /\ s.intent = "running"
  /\ service' = Settled
  /\ op' = [op EXCEPT !.phase = "complete"]
  /\ UNCHANGED <<captured, command, halted, told, untold, breaks, aborts>>

\* Mutant: what the release had only begun to stop is not told, however far it went.
ToldWhenAll == IF op.phase \in {"stopped", "restarted"} THEN DOMAIN op.monitors ELSE {}
\* not_restarted
ToTell ==
  {m \in DOMAIN op.monitors :
     ~op.monitors[m].restarted /\ (op.monitors[m].stopped \/ op.phase \in {"stopped", "restarted"})}

Abort(r) ==
  /\ Free(r) /\ ~Open
  /\ aborts < MaxAborts /\ aborts' = aborts + 1
  /\ service' = Settled
  /\ op' = [op EXCEPT !.phase = "complete"]
  /\ told' = told \cup ToTell
  /\ untold' = {m \in halted \ ToTell : ~op.monitors[m].restarted}
  /\ UNCHANGED <<captured, command, halted, breaks>>

Next ==
  \/ MemberStarts \/ Capture \/ Interrupted \/ AllStopped \/ AllRestarted
  \/ \E s \in Service : \/ MemberStops(s) \/ StopCompletes(s) \/ TaskEnds(s) \/ WorkerFails(s)
  \/ \E r \in Revision : \/ Reserve(r) \/ Prepare(r) \/ BeginAgain(r) \/ Resume(r) \/ Finish(r)
                         \/ Abort(r)
  \/ \E m \in DOMAIN op.monitors : \/ PrepareRun(m) \/ Preflight(m) \/ ScaleDown(m)
                                   \/ StopService(m) \/ NoteStopped(m) \/ CreateService(m)
                                   \/ Attach(m) \/ Restarted(m)

Spec == Init /\ [][Next]_vars

-----------------------------------------------------------------------------
(* No monitor that the release stopped is lost: while the release is open  *)
(* it is on its list with a replacement that passed its preflight, and     *)
(* afterwards it was restarted or the abort told of it; an abort misses at *)
(* most the one whose stop was being noted.                                *)
NoMonitorLost ==
  /\ \A m \in halted :
       /\ m \in DOMAIN op.monitors
       /\ op.monitors[m].config => op.monitors[m].preflight
       /\ Open => m \in told \cup untold \/ op.monitors[m].restarted \/ ~op.monitors[m].config
  /\ Cardinality(untold) <= 1

(* A monitor and its replacement never run together, whatever is killed    *)
(* and repeated.                                                           *)
NeverTogether ==
  \A m \in DOMAIN op.monitors :
    LET f == op.monitors[m].replacement IN
    f # NoService /\ service[f].worker \in {"up", "retiring"} =>
      service[m].worker \in {"none", "gone"}

(* A release starts no more than it stops: a monitor has one replacement.  *)
OneReplacement ==
  op.phase \in {"preparing", "stopped", "restarted"} =>
    Cardinality({s \in Service : service[s].intent = "running"}) <= Cardinality(DOMAIN op.monitors)

(* When a release is over, no run is left as starting.                     *)
RunsSettled == op.phase = "complete" => \A s \in Service : service[s].run # "starting"
=============================================================================
