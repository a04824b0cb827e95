------------------------------ MODULE RunEvents ------------------------------
(***************************************************************************)
(* How a worker judges its own health and tells the story of its run:      *)
(* every check turns what the components report into a stage; a change of  *)
(* stage, of the reason for a bad one, or a loss of messages becomes an    *)
(* event, which waits for a heartbeat to store it, or for the report of a  *)
(* failure, which takes over whatever is still waiting.                    *)
(***************************************************************************)
EXTENDS Integers, Sequences, FiniteSetsExt

CONSTANTS MaxPending,            \* MAX_PENDING_EVENTS
          MaxChecks, MaxLosses

EventsAssumption == MaxPending \in Nat \ {0} /\ MaxChecks \in Nat /\ MaxLosses \in Nat

VARIABLES
  checks,     \* health checks so far
  losses,     \* dropped messages and possible gaps, in the coverage
  known,      \* _losses
  recent,     \* the last coverage event is younger than its interval
  started, stage, reason,
  waiting,    \* _pending, by number
  recorded,   \* the number of the last event
  overflow,   \* _dropped
  beat,       \* the events of the heartbeat that is being written, or NoBeat
  suspended,  \* _publication_suspended
  report,     \* the events of the failure that is being written, or NoBeat
  table,      \* events in monitoring_pipeline_run_events, by number
  unsaved     \* events that a failed INSERT or the end of the worker took

vars == <<checks, losses, known, recent, started, stage, reason, waiting, recorded, overflow,
          beat, suspended, report, table, unsaved>>

NoBeat == <<0>>

\* What a health check collects.
View == {v \in [processed : BOOLEAN, model : {"preparing", "learning", "ready", "failed"},
                inferred : BOOLEAN, alert : {"none", "link", "detector", "other"},
                stalled : {"none", "inputs", "inference", "evidence"}, lost : 0 .. MaxLosses] :
           /\ v.inferred => v.processed
           /\ v.stalled = "inference" => v.model = "ready"}

Stages == {"none", "waiting_for_data", "learning", "operational", "degraded", "failed"}
Reasons == {"none", "failed", "inputs", "inference", "evidence", "gaps", "degraded"}

\* _running_stage: preparing comes first, then the phases of the strategy
RunningStage(v) == IF v.model = "ready" THEN "operational" ELSE "learning"

\* _collect_active_alerts: any of them degrades the service.
Alerted(v) == v.alert # "none" \/ v.stalled # "none" \/ v.lost > 0

\* Mutant: a detector that learns is not judged by its inputs.
JudgedWhenReady(v) == Alerted(v) /\ v.model = "ready"
Degraded(v) == Alerted(v)

\* _build_operational_status
StageOf(v) ==
  CASE v.model = "failed" -> "failed"
    [] v.model # "failed" /\ Degraded(v) -> "degraded"
    [] OTHER -> IF ~v.processed THEN "waiting_for_data"
                ELSE IF RunningStage(v) = "operational" /\ ~v.inferred THEN "waiting_for_data"
                ELSE RunningStage(v)

\* The detail of a stage whose reason is an event of its own.
ReasonOf(v) ==
  CASE StageOf(v) = "failed" -> "failed"
    [] StageOf(v) = "degraded" -> IF v.stalled # "none" THEN v.stalled
                                  ELSE IF v.lost > 0 THEN "gaps" ELSE "degraded"
    [] OTHER -> "none"

EventsTypeOK ==
  /\ checks \in 0 .. MaxChecks /\ losses \in 0 .. MaxLosses /\ known \in 0 .. MaxLosses
  /\ {recent, started, suspended} \subseteq BOOLEAN
  /\ stage \in Stages /\ reason \in Reasons
  /\ recorded \in Nat /\ overflow \in Nat /\ table \subseteq 1 .. recorded
  /\ unsaved \subseteq 1 .. recorded
  /\ \A q \in {waiting, beat, report} : q \in Seq(0 .. recorded)

Init ==
  /\ checks = 0 /\ losses \in 0 .. MaxLosses /\ known = 0 /\ recent = FALSE
  /\ started = FALSE /\ stage = "none" /\ reason = "none"
  /\ waiting = <<>> /\ recorded = 0 /\ overflow = 0
  /\ beat = NoBeat /\ suspended = FALSE /\ report = NoBeat
  /\ table = {} /\ unsaved = {}

-----------------------------------------------------------------------------
(* A health check.                                                         *)

Numbered(count) == [i \in 1 .. count |-> recorded + i]

\* Mutant: a full queue forgets without counting.
Uncounted(count) == overflow
\* record: the newest are kept, the oldest dropped and counted.
Overflow(count) == overflow + Max({0, Len(waiting) + count - MaxPending})

Record(count) ==
  LET all == waiting \o Numbered(count) IN
  /\ waiting' = IF Len(all) > MaxPending THEN SubSeq(all, Len(all) - MaxPending + 1, Len(all))
                                         ELSE all
  /\ recorded' = recorded + count
  /\ overflow' = Overflow(count)

\* What a restored snapshot had lost is no news.
Told(v) == IF started THEN known ELSE v.lost
NewLosses(v) == v.lost > Told(v) /\ ~recent
Changed(v) == StageOf(v) # stage \/ ReasonOf(v) # reason
One(condition) == IF condition THEN 1 ELSE 0

\* observe and _observe_coverage; then the heartbeat takes what is waiting.
Check(v) ==
  /\ ~suspended /\ beat = NoBeat /\ checks < MaxChecks
  /\ v.lost >= losses
  /\ checks' = checks + 1 /\ losses' = v.lost
  /\ Record(One(~started) + One(Changed(v)) + One(NewLosses(v)))
  /\ started' = TRUE /\ stage' = StageOf(v) /\ reason' = ReasonOf(v)
  /\ known' = IF NewLosses(v) THEN v.lost ELSE Told(v)
  /\ recent' = (recent \/ NewLosses(v))
  /\ beat' = waiting'
  /\ UNCHANGED <<suspended, report, table, unsaved>>

AnHourLater ==
  /\ recent
  /\ recent' = FALSE
  /\ UNCHANGED <<checks, losses, known, started, stage, reason, waiting, recorded, overflow,
                 beat, suspended, report, table, unsaved>>

-----------------------------------------------------------------------------
(* write_heartbeat.                                                        *)

Story == <<checks, losses, known, recent, started, stage, reason, recorded, overflow>>

\* Mutant: events are forgotten once they were sent.
ForgetSent(stored) == SubSeq(waiting, Min({Len(beat), Len(waiting)}) + 1, Len(waiting))
\* acknowledge, when the heartbeat stored them
Acknowledge(stored) ==
  IF stored THEN SubSeq(waiting, Min({Len(beat), Len(waiting)}) + 1, Len(waiting)) ELSE waiting

HeartbeatStored ==
  /\ beat # NoBeat
  /\ table' = table \cup Range(beat)
  /\ \E answered \in BOOLEAN : waiting' = Acknowledge(answered)
  /\ beat' = NoBeat
  /\ UNCHANGED <<Story, suspended, report, unsaved>>

\* The status or the events could not be stored.
HeartbeatFails ==
  /\ beat # NoBeat
  /\ waiting' = Acknowledge(FALSE)
  /\ beat' = NoBeat
  /\ UNCHANGED <<Story, suspended, report, table, unsaved>>

-----------------------------------------------------------------------------
(* The failure of the run, and the end.                                    *)

\* _fail_execution: drain
FailExecution ==
  /\ ~suspended
  /\ suspended' = TRUE
  /\ report' = waiting /\ waiting' = <<>>
  /\ UNCHANGED <<Story, beat, table, unsaved>>

\* fail_pipeline_run: the events, or only the failure, which is told in any case
FailureStored ==
  /\ report # NoBeat
  /\ \/ table' = table \cup Range(report) /\ UNCHANGED unsaved
     \/ unsaved' = unsaved \cup Range(report) /\ UNCHANGED table
  /\ report' = NoBeat
  /\ UNCHANGED <<Story, waiting, beat, suspended>>

\* The monitor's task is cancelled.
Stop ==
  /\ ~suspended
  /\ suspended' = TRUE
  /\ \/ UNCHANGED table
     \/ beat # NoBeat /\ table' = table \cup Range(beat)
  /\ beat' = NoBeat
  /\ unsaved' = unsaved \cup Range(waiting) /\ waiting' = <<>>
  /\ UNCHANGED <<Story, report>>

Next ==
  \/ \E v \in View : Check(v)
  \/ AnHourLater \/ HeartbeatStored \/ HeartbeatFails \/ FailExecution \/ FailureStored \/ Stop

Spec == Init /\ [][Next]_vars

-----------------------------------------------------------------------------
(* Every event is stored, waiting, carried by a report that is still being *)
(* written, counted as dropped, or was taken by the end of the worker.     *)
NoEventForgotten ==
  LET kept == table \cup unsaved \cup Range(waiting) \cup (Range(report) \ {0}) IN
  Cardinality((1 .. recorded) \ kept) <= overflow

(* Those that wait are the newest, in order.                               *)
WaitingInOrder ==
  \A i \in DOMAIN waiting : waiting[i] = recorded - Len(waiting) + i

(* A worker whose stage is neither failed nor degraded has no alert: no    *)
(* gap, no stalled input, no lost link; and a reason is told with it.      *)
ShownHealthy ==
  \A v \in View : /\ StageOf(v) \notin {"failed", "degraded"} =>
                       v.alert = "none" /\ v.stalled = "none" /\ v.lost = 0
                  /\ (ReasonOf(v) = "none") = (StageOf(v) \notin {"failed", "degraded"})
=============================================================================
