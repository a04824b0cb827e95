------------------------ MODULE RadarLifecycleProofs ------------------------
(***************************************************************************)
(* Type correctness, the inductive invariant of the claims, and the        *)
(* refinement of SensorClaims, for every set of monitors and agents and    *)
(* every bound.  The proof follows what one step can do to one variable:   *)
(* first the types, then a list of the ways in which a row can change      *)
(* (RowSteps), then what a step can do to a task, and from these the       *)
(* invariant, without another look at the actions that do not matter.      *)
(*                                                                         *)
(* Then what a step of the lifecycle may never do: revive an intent, fail  *)
(* a run over a heartbeat, complete a stop before the attached task is     *)
(* gone, or remove the service of a monitor that should run.  Each rests   *)
(* on what an agent still knows of the row and the workload it read        *)
(* earlier.                                                                *)
(***************************************************************************)
EXTENDS RadarLifecycle, TLAPS

-----------------------------------------------------------------------------
(* Types of the values the actions are built from.                         *)

\* The version numbers an update writes are version numbers.
LEMMA VersionFacts ==
  /\ 0 \in Version
  /\ 1 \in Version
  /\ \A v \in Version : v + 1 \in Version
BY DEF Version

\* Every primitive of monitor_intent.py maps a row to a row.
LEMMA RowTypes ==
  /\ NoRow \in Row
  /\ \A r \in Row : /\ RequestStop(r) \in Row
                    /\ MarkDeleting(r) \in Row
                    /\ CompleteStop(r) \in Row
                    /\ Captured(r) \in Row
<1>1. NoRow \in Row BY VersionFacts DEF Row, NoRow, Stage
<1>2. SUFFICES ASSUME NEW r \in Row
               PROVE  /\ RequestStop(r) \in Row
                      /\ MarkDeleting(r) \in Row
                      /\ CompleteStop(r) \in Row
                      /\ Captured(r) \in Row BY <1>1
<1>3. r.version + 1 \in Version BY VersionFacts DEF Row
<1>4. RequestStop(r) \in Row BY <1>3 DEF Row, RequestStop
<1>5. MarkDeleting(r) \in Row BY <1>3 DEF Row, MarkDeleting
<1>6. CompleteStop(r) \in Row BY <1>3 DEF Row, CompleteStop, Stage
<1>7. Captured(r) \in Row BY DEF Row, Captured
<1> QED BY <1>4, <1>5, <1>6, <1>7

\* The places an agent can be at.
LEMMA PcFacts ==
  /\ {"idle", "mark", "pauseRead", "cancel", "sweepRead", "inspect"} \subseteq Pc
  /\ Creating \subseteq Pc
  /\ Removing \subseteq Pc
  /\ Removed \subseteq Pc
  /\ Observed \subseteq Pc
BY DEF Pc

\* An agent starts in a well-formed state, whatever it starts with.
LEMMA AgentTypes ==
  /\ Idle \in AgentState
  /\ \A m \in Monitor, pc \in Pc : Begin(m, pc) \in AgentState
  /\ \A m \in Monitor, w \in Workload \cup {NoWorkload}, v \in Version, t \in After :
       Remove(m, w, v, t) \in AgentState
<1>1. Idle \in AgentRecord BY RowTypes, VersionFacts, PcFacts DEF Idle, AgentRecord, After
<1>2. \A m \in Monitor, pc \in Pc : Begin(m, pc) \in AgentState BY <1>1 DEF Begin, AgentRecord, AgentState
<1>3. "removeId" \in Pc BY PcFacts DEF Removing
<1>4. \A m \in Monitor, w \in Workload \cup {NoWorkload}, v \in Version, t \in After :
        Remove(m, w, v, t) \in AgentState
  <2> SUFFICES ASSUME NEW m \in Monitor, NEW w \in Workload \cup {NoWorkload},
                      NEW v \in Version, NEW t \in After
               PROVE  Remove(m, w, v, t) \in AgentState OBVIOUS
  <2>1. Begin(m, "removeId") \in AgentRecord /\ Begin(m, "removeId").mon = m
    BY <1>1, <1>2, <1>3 DEF Begin, AgentState, AgentRecord
  <2>2. Remove(m, w, v, t) \in AgentRecord /\ Remove(m, w, v, t).mon = m BY <2>1 DEF Remove, AgentRecord
  <2> QED BY <2>2 DEF AgentState
<1> QED BY <1>1, <1>2, <1>4 DEF AgentState, Idle

\* A service Docker may create gets an id within the bound.
LEMMA NewIdFacts ==
  ASSUME TypeOK, NEW m \in Monitor, CanCreate(m)
  PROVE  NewId(m) \in Workload /\ NewId(m) \in 0 .. MaxWorkloads
BY ConstantsAssumption DEF TypeOK, CanCreate, NewId, Workload, ConstantsAssumption

-----------------------------------------------------------------------------
(* A step of an agent changes the state of this agent only.                *)

Moves(a) == \E s \in AgentState : agents' = [agents EXCEPT ![a] = s]

AgentsTyped == agents \in [Agent -> AgentState]

\* Becoming a well-formed state is a move ...
LEMMA BecomeMoves ==
  ASSUME NEW a \in Agent, NEW s \in AgentState, Become(a, s)
  PROVE  Moves(a)
BY DEF Become, Moves

\* ... and so is becoming idle ...
LEMMA FinishMoves ==
  ASSUME NEW a \in Agent, Finish(a)
  PROVE  Moves(a)
BY BecomeMoves, AgentTypes DEF Finish

\* ... failing ...
LEMMA FailsMoves ==
  ASSUME NEW a \in Agent, Mon(a) \in Monitor, Fails(a)
  PROVE  Moves(a)
<1>1. "failed" \in Pc BY PcFacts DEF Creating
<1> QED BY <1>1, BecomeMoves, AgentTypes DEF Fails

\* ... and going on elsewhere.
LEMMA GotoMoves ==
  ASSUME AgentsTyped, NEW a \in Agent, Mon(a) \in Monitor, NEW pc \in Pc, Goto(a, pc)
  PROVE  Moves(a)
<1>1. agents[a] \in AgentState BY DEF AgentsTyped
<1>2. [agents[a] EXCEPT !.pc = pc] \in AgentState BY <1>1 DEF AgentState, AgentRecord, Mon
<1> QED BY <1>2 DEF Goto, Moves, AgentsTyped

\* A busy agent works on a monitor.
LEMMA BusyMon ==
  ASSUME AgentsTyped, NEW a \in Agent, agents[a].pc # "idle"
  PROVE  Mon(a) \in Monitor
BY DEF AgentsTyped, AgentState, AgentRecord, Mon

\* The steps of a creation are moves.
LEMMA CreateMoves ==
  ASSUME TypeOK, NEW a \in Agent, Create(a)
  PROVE  Moves(a)
<1> DEFINE m == Mon(a)
<1> USE PcFacts, GotoMoves, FinishMoves, FailsMoves, BusyMon DEF At
<1>0. AgentsTyped /\ agents[a] \in AgentState BY DEF TypeOK, AgentsTyped
<1>1. CASE ReadIntent(a)
  <2>1. m \in Monitor BY <1>0, <1>1 DEF ReadIntent
  <2>2. rows[m].version \in Version BY <2>1 DEF TypeOK, Row
  <2>3. [agents[a] EXCEPT !.pc = "find", !.ver = rows[m].version] \in AgentState
    BY <1>0, <2>1, <2>2 DEF AgentState, AgentRecord, Creating, Mon
  <2>4. \/ Fails(a)
        \/ Finish(a)
        \/ agents' = [agents EXCEPT ![a].pc = "find", ![a].ver = rows[m].version] BY <1>1 DEF ReadIntent
  <2>5. CASE agents' = [agents EXCEPT ![a].pc = "find", ![a].ver = rows[m].version]
    <3>1. agents' = [agents EXCEPT ![a] = [agents[a] EXCEPT !.pc = "find", !.ver = rows[m].version]]
      BY <2>5, <1>0 DEF AgentsTyped
    <3> QED BY <3>1, <2>3 DEF Moves
  <2> QED BY <2>1, <2>4, <2>5
<1>2. ASSUME NEW w \in Workload \cup {NoWorkload}, NEW v, Adopt(a, w, v), m \in Monitor
      PROVE  Moves(a)
  <2>1. [agents[a] EXCEPT !.pc = "validate", !.wid = w] \in AgentState
    BY <1>0, <1>2 DEF AgentState, AgentRecord, Creating, Mon
  <2>2. CASE agents' = [agents EXCEPT ![a].pc = "validate", ![a].wid = w]
    <3>1. agents' = [agents EXCEPT ![a] = [agents[a] EXCEPT !.pc = "validate", !.wid = w]]
      BY <2>2, <1>0 DEF AgentsTyped
    <3> QED BY <3>1, <2>1 DEF Moves
  <2> QED BY <1>2, <2>2 DEF Adopt
<1>3. m \in Monitor => svc[m].id \in Workload \cup {NoWorkload} BY DEF TypeOK, Service
<1>4. CASE FindWorkload(a)
  <2>1. m \in Monitor BY <1>0, <1>4 DEF FindWorkload
  <2> QED BY <1>0, <1>2, <1>3, <1>4, <2>1 DEF FindWorkload, AdoptExisting, Creating
<1>5. CASE CreateWorkload(a)
  <2>1. m \in Monitor BY <1>0, <1>5 DEF CreateWorkload
  <2>2. CanCreate(m) => NewId(m) \in Workload \cup {NoWorkload} BY <2>1, NewIdFacts
  <2>3. \/ CanCreate(m) /\ Adopt(a, NewId(m), agents[a].ver)
        \/ AdoptExisting(a, m)
        \/ Fails(a) BY <1>5 DEF CreateWorkload
  <2>4. CASE CanCreate(m) /\ Adopt(a, NewId(m), agents[a].ver) BY <1>2, <2>1, <2>2, <2>4
  <2>5. CASE AdoptExisting(a, m) BY <1>2, <1>3, <2>1, <2>5 DEF AdoptExisting
  <2> QED BY <2>1, <2>3, <2>4, <2>5
<1>6. CASE Validate(a) BY <1>0, <1>6 DEF Validate, Creating
<1>7. CASE Attach(a) BY <1>0, <1>7 DEF Attach, Creating
<1>8. CASE Confirm(a)
  BY <1>0, <1>8, AgentTypes, VersionFacts, BecomeMoves DEF Confirm, AgentState, AgentRecord, After
<1>9. CASE RecordFailure(a) BY <1>9 DEF RecordFailure
<1> QED BY <1>1, <1>4, <1>5, <1>6, <1>7, <1>8, <1>9 DEF Create

\* The steps of a removal are moves.
LEMMA RemoveMoves ==
  ASSUME TypeOK, NEW a \in Agent, RemoveIntent(a)
  PROVE  Moves(a)
<1> DEFINE m == Mon(a)
<1> USE PcFacts, GotoMoves, FinishMoves, FailsMoves, BusyMon DEF At
<1>0. AgentsTyped /\ agents[a] \in AgentState BY DEF TypeOK, AgentsTyped
<1>1. agents[a].pc \in Removing /\ m \in Monitor
  BY <1>0 DEF RemoveIntent, RemoveById, AwaitById, RemoveByName, AwaitByName, Removing
<1>2. ASSUME Continue(a) PROVE Moves(a)
  <2>1. agents[a].then \in Pc \cup {"swept"} BY <1>0 DEF AgentState, AgentRecord, After, Creating
  <2> QED BY <1>0, <1>1, <1>2, <2>1 DEF Continue
<1>3. CASE RemoveById(a) BY <1>0, <1>1, <1>3 DEF RemoveById, Removing
<1>4. CASE AwaitById(a) BY <1>0, <1>1, <1>4 DEF AwaitById, Removing
<1>5. CASE RemoveByName(a)
  <2>1. svc[m].id \in Workload \cup {NoWorkload} BY <1>1 DEF TypeOK, Service
  <2>2. [agents[a] EXCEPT !.pc = "waitName", !.wid = svc[m].id] \in AgentState
    BY <1>0, <1>1, <2>1 DEF AgentState, AgentRecord, Removing, Mon
  <2>3. CASE agents' = [agents EXCEPT ![a].pc = "waitName", ![a].wid = svc[m].id]
    <3>1. agents' = [agents EXCEPT ![a] = [agents[a] EXCEPT !.pc = "waitName", !.wid = svc[m].id]]
      BY <2>3, <1>0 DEF AgentsTyped
    <3> QED BY <3>1, <2>2 DEF Moves
  <2> QED BY <1>2, <1>5, <2>3 DEF RemoveByName
<1>6. CASE AwaitByName(a) BY <1>2, <1>6 DEF AwaitByName
<1> QED BY <1>3, <1>4, <1>5, <1>6 DEF RemoveIntent

\* Taking up work is a move.
LEMMA BeginMoves ==
  ASSUME TypeOK, NEW a \in Agent, Request(a) \/ Reconcile(a)
  PROVE  Moves(a)
<1> USE PcFacts, BecomeMoves, AgentTypes
<1>1. PICK m \in Monitor : \/ Launch(a, m) \/ Retire(a, m) \/ Cancel(a, m) \/ Pause(a, m)
                           \/ Recover(a, m) \/ SweepList(a, m) \/ Snapshot(a, m) BY DEF Request, Reconcile
<1>2. rows[m] \in Row /\ Captured(rows[m]) \in Row /\ svc[m].id \in Workload \cup {NoWorkload}
  BY RowTypes DEF TypeOK, Service
<1>3. ASSUME NEW pc \in Pc
      PROVE  /\ [Begin(m, pc) EXCEPT !.snap = Captured(rows[m])] \in AgentState
             /\ [Begin(m, pc) EXCEPT !.wid = svc[m].id] \in AgentState BY <1>2 DEF AgentState, AgentRecord
<1>4. CASE Launch(a, m) BY <1>4 DEF Launch, Creating
<1>5. CASE Retire(a, m) BY <1>3, <1>5 DEF Retire, ReadToRetire
<1>6. CASE Cancel(a, m) BY <1>6 DEF Cancel
<1>7. CASE Pause(a, m) BY <1>7 DEF Pause
<1>8. CASE Recover(a, m) BY <1>8 DEF Recover, Creating
<1>9. CASE SweepList(a, m) BY <1>3, <1>9 DEF SweepList
<1>10. CASE Snapshot(a, m) BY <1>3, <1>10 DEF Snapshot
<1> QED BY <1>1, <1>4, <1>5, <1>6, <1>7, <1>8, <1>9, <1>10

\* The other steps of a started agent are moves.
LEMMA OtherMoves ==
  ASSUME TypeOK, NEW a \in Agent,
         \/ MarkRetired(a) \/ Purge(a) \/ CancelSuccessor(a)
         \/ PauseRead(a) \/ Complete(a) \/ SweepRead(a) \/ Inspect(a)
         \/ ApplyStopConfirmed(a) \/ ApplyRunning(a) \/ ApplyTerminal(a)
         \/ Fault(a)
  PROVE  Moves(a)
<1> DEFINE m == Mon(a)
<1> USE PcFacts, GotoMoves, FinishMoves, FailsMoves, BusyMon, BecomeMoves, AgentTypes DEF At
<1>0. /\ AgentsTyped /\ agents[a] \in AgentState
      /\ agents[a].snap \in Row
      /\ agents[a].wid \in Workload \cup {NoWorkload} BY DEF TypeOK, AgentsTyped, AgentState, AgentRecord
<1>1. m \in Monitor => rows[m] \in Row /\ Captured(rows[m]) \in Row BY RowTypes DEF TypeOK
<1>2. CASE MarkRetired(a)
  <2>1. m \in Monitor BY <1>0, <1>2 DEF MarkRetired
  <2>2. MarkDeleting(agents[a].snap) \in Row BY <1>0, RowTypes
  <2>3. Remove(m, MarkDeleting(agents[a].snap).cid, MarkDeleting(agents[a].snap).version, "purge") \in AgentState
    BY <2>1, <2>2 DEF Row, Removed, After
  <2> QED BY <1>2, <2>3 DEF MarkRetired
<1>3. CASE Purge(a) BY <1>3 DEF Purge
<1>4. CASE CancelSuccessor(a)
  <2>1. m \in Monitor BY <1>0, <1>4 DEF CancelSuccessor
  <2>2. [Begin(m, "mark") EXCEPT !.snap = Captured(rows[m])] \in AgentState
    BY <1>1, <2>1 DEF AgentState, AgentRecord
  <2> QED BY <1>4, <2>1, <2>2, VersionFacts DEF CancelSuccessor, ReadToRetire, After
<1>5. CASE PauseRead(a)
  <2>1. m \in Monitor BY <1>0, <1>5 DEF PauseRead
  <2>2. Remove(m, rows[m].cid, rows[m].version, "complete") \in AgentState
    BY <1>1, <2>1 DEF Row, Removed, After
  <2>3. [Remove(m, rows[m].cid, rows[m].version, "complete") EXCEPT !.snap.cid = rows[m].cid] \in AgentState
    BY <1>1, <2>1, <2>2 DEF Row, AgentState, AgentRecord
  <2> QED BY <1>5, <2>3 DEF PauseRead
<1>6. CASE Complete(a) BY <1>6 DEF Complete
<1>7. CASE SweepRead(a) BY <1>0, <1>7, VersionFacts DEF SweepRead, After
<1>8. CASE Inspect(a)
  <2>1. m \in Monitor BY <1>0, <1>8 DEF Inspect
  <2>2. Remove(m, agents[a].snap.cid, 0, "stopConfirmed") \in AgentState
    BY <1>0, <2>1, VersionFacts DEF Row, Removed, After
  <2>3. [Remove(m, agents[a].snap.cid, 0, "stopConfirmed") EXCEPT !.snap = agents[a].snap] \in AgentState
    BY <1>0, <2>2 DEF AgentState, AgentRecord
  <2>4. ASSUME NEW seen \in (IF agents[a].snap.cid = NoWorkload
                             THEN {"idle"} ELSE DockerStatus(m, agents[a].snap.cid))
        PROVE  seen \in Pc
    <3>1. task[m][agents[a].snap.cid] \in TaskState \/ agents[a].snap.cid = NoWorkload
      BY <1>0, <2>1 DEF TypeOK, Row
    <3> QED BY <2>4, <3>1 DEF DockerStatus, Observed, TaskState
  <2> QED BY <1>0, <1>8, <2>1, <2>3, <2>4 DEF Inspect
<1>9. CASE ApplyStopConfirmed(a) BY <1>9 DEF ApplyStopConfirmed
<1>10. CASE ApplyRunning(a) BY <1>10 DEF ApplyRunning
<1>11. CASE ApplyTerminal(a) BY <1>11 DEF ApplyTerminal
<1>12. CASE Fault(a)
  <2>1. agents[a] # Idle => m \in Monitor \/ Finish(a)
    BY <1>0, <1>12, BusyMon DEF Fault, AbandonCreate, CreationFails, RemovalFails, Crash, Removing
  <2>2. Finish(a) \/ (Fails(a) /\ m \in Monitor) \/ (Goto(a, "failed") /\ m \in Monitor)
    BY <1>0, <1>12, BusyMon DEF Fault, AbandonCreate, CreationFails, RemovalFails, Crash, Removing
  <2> QED BY <1>0, <2>2 DEF Creating
<1> QED BY <1>2, <1>3, <1>4, <1>5, <1>6, <1>7, <1>8, <1>9, <1>10, <1>11, <1>12

AgentAction(a) == Request(a) \/ Reconcile(a) \/ Proceed(a) \/ Fault(a)

\* Whatever an agent does changes its own state, within its type.
LEMMA AgentMoves ==
  ASSUME TypeOK, NEW a \in Agent, AgentAction(a)
  PROVE  Moves(a)
BY CreateMoves, RemoveMoves, BeginMoves, OtherMoves DEF AgentAction, Proceed

-----------------------------------------------------------------------------
(* What a step can do to a row and its run.                                *)

\* The intent, the claim and the type of the row of m stay.
Kept(m) ==
  /\ rows'[m] \in Row
  /\ rows'[m].desired = rows[m].desired
  /\ rows'[m].stop = rows[m].stop
  /\ rows'[m].status = rows[m].status

Launched(m) ==
  /\ ~Present(m) /\ ~RunEnded(m) /\ InputsFree(m)
  /\ rows'[m] \in Row
  /\ rows'[m].desired = "running" /\ ~rows'[m].stop /\ rows'[m].status
  /\ \A n \in Monitor \ {m} : rows'[n] = rows[n]
  /\ runs' = runs

StopAsked(m) ==
  /\ Present(m)
  /\ rows'[m] \in Row
  /\ rows'[m].desired \in {"stopped", "deleted"} /\ rows'[m].stop
  /\ rows'[m].status = rows[m].status

Released(m) ==
  /\ \E a \in Agent : agents[a].pc \in Removed /\ Mon(a) = m
  /\ rows'[m] \in Row
  /\ rows'[m].desired \in {"stopped", "absent"} /\ ~rows'[m].status
  /\ RunEnded(m)'
  /\ \A n \in Monitor \ {m} : rows'[n] = rows[n] /\ runs'[n] = runs[n]
  /\ UNCHANGED task

\* A row that wants to run shows again that it does.
Shown(m) ==
  /\ rows[m].desired = "running"
  /\ rows'[m] \in Row
  /\ rows'[m].desired = "running" /\ rows'[m].stop = rows[m].stop /\ rows'[m].status

RowStep(m) == Kept(m) \/ Launched(m) \/ StopAsked(m) \/ Released(m) \/ Shown(m)

RowSteps ==
  /\ rows' \in [Monitor -> Row]
  /\ \A m \in Monitor : RowStep(m)

\* A step that leaves the rows alone.
LEMMA RowsUnchanged ==
  ASSUME TypeOK, UNCHANGED rows
  PROVE  RowSteps
BY DEF TypeOK, RowSteps, RowStep, Kept

\* A step that writes the row of m only.
LEMMA RowWritten ==
  ASSUME TypeOK, NEW m \in Monitor, NEW r \in Row, rows' = [rows EXCEPT ![m] = r], RowStep(m)
  PROVE  RowSteps
BY DEF TypeOK, RowSteps, RowStep, Kept

\* Completing or purging a stop ends the run and releases the claim.
LEMMA ReleaseStep ==
  ASSUME TypeOK, NEW a \in Agent, agents[a].pc \in Removed, UNCHANGED task,
         NEW m \in Monitor, Mon(a) = m,
         CompleteRow(m) \/ PurgeRow(m)
  PROVE  RowSteps
<1>1. /\ RunEnded(m)'
      /\ \A n \in Monitor \ {m} : runs'[n] = runs[n]
  BY DEF CompleteRow, PurgeRow, CompleteStoppedRun, RunEnded, TypeOK
<1>2. CASE CompleteRow(m)
  <2>1. CompleteStop(rows[m]) \in Row /\ rows' = [rows EXCEPT ![m] = CompleteStop(rows[m])]
    BY <1>2, RowTypes DEF CompleteRow, TypeOK
  <2>2. CompleteStop(rows[m]).desired = "stopped" /\ ~CompleteStop(rows[m]).status
    BY DEF CompleteStop, TypeOK, Row
  <2>3. rows'[m] = CompleteStop(rows[m]) /\ \A n \in Monitor \ {m} : rows'[n] = rows[n] BY <2>1 DEF TypeOK
  <2>4. Released(m) BY <1>1, <2>1, <2>2, <2>3 DEF Released
  <2> QED BY <2>1, <2>4, RowWritten DEF RowStep
<1>3. CASE PurgeRow(m)
  <2>1. NoRow \in Row /\ rows' = [rows EXCEPT ![m] = NoRow] BY <1>3, RowTypes DEF PurgeRow
  <2>2. rows'[m] = NoRow /\ \A n \in Monitor \ {m} : rows'[n] = rows[n] BY <2>1 DEF TypeOK
  <2>3. Released(m) BY <1>1, <2>1, <2>2 DEF Released, NoRow
  <2> QED BY <2>1, <2>3, RowWritten DEF RowStep
<1> QED BY <1>2, <1>3

\* A stop request bumps the version and keeps the claim.
LEMMA StopStep ==
  ASSUME TypeOK, NEW m \in Monitor, Present(m),
         \/ rows' = [rows EXCEPT ![m] = RequestStop(@)]
         \/ rows' = [rows EXCEPT ![m] = [RequestStop(@) EXCEPT !.stage = "terminal"]]
  PROVE  RowSteps
<1> DEFINE r == RequestStop(rows[m])
           t == [r EXCEPT !.stage = "terminal"]
<1>1. r \in Row /\ t \in Row
  <2>1. r \in Row BY RowTypes DEF TypeOK
  <2> HIDE DEF r
  <2> QED BY <2>1 DEF Row, Stage
<1>2. /\ r.desired = "stopped" /\ r.stop /\ r.status = rows[m].status
      /\ t.desired = "stopped" /\ t.stop /\ t.status = rows[m].status
  <2>1. rows[m] \in Row BY DEF TypeOK
  <2> QED BY <2>1 DEF RequestStop, Row
<1>3. \E q \in {r, t} : rows' = [rows EXCEPT ![m] = q] OBVIOUS
<1>4. PICK q \in {r, t} : rows' = [rows EXCEPT ![m] = q] BY <1>3
<1>5. q \in Row /\ q.desired = "stopped" /\ q.stop /\ q.status = rows[m].status BY <1>1, <1>2
<1>6. rows'[m] = q BY <1>4 DEF TypeOK
<1>7. StopAsked(m) BY <1>5, <1>6 DEF StopAsked
<1> HIDE DEF r, t
<1> QED BY <1>4, <1>5, <1>7, RowWritten DEF RowStep

\* A write of the stage or the container id keeps the intent and the claim.
LEMMA StatusStep ==
  ASSUME TypeOK, NEW m \in Monitor,
         \/ \E s \in Stage : rows' = [rows EXCEPT ![m].stage = s]
         \/ \E w \in Workload \cup {NoWorkload} : rows' = [rows EXCEPT ![m].cid = w]
         \/ /\ rows[m].desired = "running"
            /\ \E s \in Stage : rows' = [rows EXCEPT ![m].status = TRUE, ![m].stage = s]
  PROVE  RowSteps
<1>0. rows[m] \in Row BY DEF TypeOK
<1>1. CASE \E s \in Stage : rows' = [rows EXCEPT ![m].stage = s]
  <2>1. PICK s \in Stage : rows' = [rows EXCEPT ![m].stage = s] BY <1>1
  <2>2. [rows[m] EXCEPT !.stage = s] \in Row BY <1>0 DEF Row
  <2>3. rows' = [rows EXCEPT ![m] = [rows[m] EXCEPT !.stage = s]] /\ rows'[m] = [rows[m] EXCEPT !.stage = s]
    BY <2>1 DEF TypeOK
  <2>4. Kept(m) BY <1>0, <2>2, <2>3 DEF Kept, Row
  <2> QED BY <2>2, <2>3, <2>4, RowWritten DEF RowStep
<1>2. CASE \E w \in Workload \cup {NoWorkload} : rows' = [rows EXCEPT ![m].cid = w]
  <2>1. PICK w \in Workload \cup {NoWorkload} : rows' = [rows EXCEPT ![m].cid = w] BY <1>2
  <2>2. [rows[m] EXCEPT !.cid = w] \in Row BY <1>0 DEF Row
  <2>3. rows' = [rows EXCEPT ![m] = [rows[m] EXCEPT !.cid = w]] /\ rows'[m] = [rows[m] EXCEPT !.cid = w]
    BY <2>1 DEF TypeOK
  <2>4. Kept(m) BY <1>0, <2>2, <2>3 DEF Kept, Row
  <2> QED BY <2>2, <2>3, <2>4, RowWritten DEF RowStep
<1>3. CASE /\ rows[m].desired = "running"
           /\ \E s \in Stage : rows' = [rows EXCEPT ![m].status = TRUE, ![m].stage = s]
  <2>1. PICK s \in Stage : rows' = [rows EXCEPT ![m].status = TRUE, ![m].stage = s] BY <1>3
  <2> DEFINE r == [rows[m] EXCEPT !.status = TRUE, !.stage = s]
  <2>2. r \in Row /\ r.desired = rows[m].desired /\ r.stop = rows[m].stop /\ r.status BY <1>0 DEF Row
  <2>3. rows' = [rows EXCEPT ![m] = r] /\ rows'[m] = r BY <2>1 DEF TypeOK
  <2> HIDE DEF r
  <2>4. Shown(m) BY <1>3, <2>2, <2>3 DEF Shown
  <2> QED BY <2>2, <2>3, <2>4, RowWritten DEF RowStep
<1> QED BY <1>1, <1>2, <1>3

\* Every step changes rows in one of the listed ways only.
LEMMA RowStepsOfNext ==
  ASSUME TypeOK, RowsConsistent, \A a \in Agent : IntentKnown(a), Next
  PROVE  RowSteps
<1> USE RowsUnchanged
<1>1. ASSUME NEW a \in Agent, Request(a) PROVE RowSteps
  <2>1. PICK m \in Monitor : Launch(a, m) \/ Retire(a, m) \/ Cancel(a, m) \/ Pause(a, m) BY <1>1 DEF Request
  <2>2. CASE Launch(a, m)
    <3> DEFINE r == [desired |-> "running", version |-> 1, stop |-> FALSE,
                     cid |-> NoWorkload, status |-> TRUE, stage |-> "live"]
    <3>1. r \in Row /\ r.desired = "running" /\ ~r.stop /\ r.status BY VersionFacts DEF Row, Stage
    <3>2. CASE rows' = [rows EXCEPT ![m] = r] /\ ~Present(m)
      <4> HIDE DEF r
      <4>1. rows'[m] = r /\ \A n \in Monitor \ {m} : rows'[n] = rows[n] BY <3>2 DEF TypeOK
      <4>2. Launched(m) BY <2>2, <3>1, <3>2, <4>1 DEF Launched, Launch
      <4> QED BY <3>1, <3>2, <4>2, RowWritten DEF RowStep
    <3> QED BY <2>2, <3>2 DEF Launch
  <2>3. CASE Pause(a, m)
    <3>1. Present(m) BY <2>3 DEF Pause, Claims, RowsConsistent, Present
    <3> QED BY <2>3, <3>1, StopStep DEF Pause
  <2> QED BY <2>1, <2>2, <2>3 DEF Retire, Cancel
<1>2. ASSUME NEW a \in Agent, Reconcile(a) PROVE RowSteps BY <1>2 DEF Reconcile, Recover, SweepList, Snapshot
<1>3. ASSUME NEW a \in Agent, Create(a) PROVE RowSteps
  <2>1. CASE Attach(a)
    <3>1. Mon(a) \in Monitor /\ agents[a].wid \in Workload \cup {NoWorkload}
      BY <2>1, BusyMon DEF TypeOK, AgentsTyped, AgentState, AgentRecord, Attach, At
    <3>2. rows[Mon(a)].cid \in Workload \cup {NoWorkload} BY <3>1 DEF TypeOK, Row
    <3>3. \E w \in Workload \cup {NoWorkload} : rows' = [rows EXCEPT ![Mon(a)].cid = w]
      BY <2>1, <3>1, <3>2 DEF Attach
    <3> QED BY <3>1, <3>3, StatusStep
  <2>2. CASE RecordFailure(a)
    <3>1. Mon(a) \in Monitor BY <2>2, BusyMon DEF TypeOK, AgentsTyped, RecordFailure, At
    <3> QED BY <2>2, <3>1, StatusStep DEF RecordFailure, Stage
  <2> QED BY <1>3, <2>1, <2>2 DEF Create, ReadIntent, FindWorkload, CreateWorkload, Validate, Confirm
<1>4. ASSUME NEW a \in Agent, RemoveIntent(a) PROVE RowSteps
  BY <1>4 DEF RemoveIntent, RemoveById, AwaitById, RemoveByName, AwaitByName
<1>5. ASSUME NEW a \in Agent, MarkRetired(a) PROVE RowSteps
  <2> DEFINE m == Mon(a)
             r == MarkDeleting(agents[a].snap)
             q == [rows[m] EXCEPT !.desired = r.desired, !.stop = r.stop, !.version = r.version]
  <2>1. m \in Monitor /\ agents[a].snap \in Row
    BY <1>5, BusyMon DEF TypeOK, AgentsTyped, AgentState, AgentRecord, MarkRetired, At
  <2>2. rows[m] \in Row /\ r \in Row BY <2>1, RowTypes DEF TypeOK
  <2>3. r # agents[a].snap => r.desired = "deleted" /\ r.stop BY <2>1 DEF MarkDeleting, Row
  <2>4. CASE /\ r # agents[a].snap /\ Present(m)
             /\ rows' = [rows EXCEPT ![m].desired = r.desired, ![m].stop = r.stop,
                                     ![m].version = r.version]
    <3> HIDE DEF r
    <3>1. q \in Row /\ q.desired = r.desired /\ q.stop = r.stop /\ q.status = rows[m].status BY <2>2 DEF Row
    <3>2. rows' = [rows EXCEPT ![m] = q] /\ rows'[m] = q BY <2>1, <2>4 DEF TypeOK
    <3> HIDE DEF q
    <3>3. StopAsked(m) BY <2>3, <2>4, <3>1, <3>2 DEF StopAsked
    <3> QED BY <2>1, <3>1, <3>2, <3>3, RowWritten DEF RowStep
  <2> QED BY <1>5, <2>4 DEF MarkRetired
<1>6. ASSUME NEW a \in Agent, Purge(a) \/ Complete(a) \/ ApplyStopConfirmed(a) PROVE RowSteps
  <2>1. agents[a].pc \in Removed /\ Mon(a) \in Monitor
    BY <1>6, BusyMon DEF TypeOK, AgentsTyped, Purge, Complete, ApplyStopConfirmed, At, Removed
  <2>2. UNCHANGED rows \/ ((CompleteRow(Mon(a)) \/ PurgeRow(Mon(a))) /\ UNCHANGED task)
    BY <1>6 DEF Purge, Complete, ApplyStopConfirmed, docker
  <2> QED BY <2>1, <2>2, ReleaseStep
<1>7. ASSUME NEW a \in Agent, ApplyRunning(a) PROVE RowSteps
  <2>1. Mon(a) \in Monitor /\ agents[a].snap.desired = "running"
    BY <1>7, BusyMon DEF TypeOK, AgentsTyped, ApplyRunning, At, IntentKnown, Observed
  <2>2. Matches(a) => rows[Mon(a)].desired = "running" BY <2>1 DEF Matches
  <2> QED BY <1>7, <2>1, <2>2, StatusStep DEF ApplyRunning, Stage
<1>8. ASSUME NEW a \in Agent, ApplyTerminal(a) PROVE RowSteps
  <2>1. Mon(a) \in Monitor /\ agents[a].snap.desired = "running"
    BY <1>8, BusyMon DEF TypeOK, AgentsTyped, ApplyTerminal, At, IntentKnown, Observed
  <2>2. Matches(a) => rows[Mon(a)].desired = "running" /\ Present(Mon(a)) BY <2>1 DEF Matches, Present
  <2>3. CASE Matches(a) /\ FailAbandoned(a) BY <2>1, <2>2, <2>3, StopStep DEF FailAbandoned
  <2> QED BY <1>8, <2>1, <2>2, <2>3, StatusStep DEF ApplyTerminal, Stage
<1>9. ASSUME NEW a \in Agent, Fault(a) PROVE RowSteps
  BY <1>9 DEF Fault, AbandonCreate, CreationFails, RemovalFails, Crash
<1>10. ASSUME NEW a \in Agent, CancelSuccessor(a) \/ PauseRead(a) \/ SweepRead(a) \/ Inspect(a)
       PROVE  RowSteps BY <1>10 DEF CancelSuccessor, PauseRead, SweepRead, Inspect
<1>11. ASSUME NEW m \in Monitor, StopFailed(m) \/ TaskStarts(m) \/ Worker(m) \/ ExternalRemove(m)
       PROVE  RowSteps
  <2>1. CASE StopFailed(m) BY <2>1, StopStep DEF StopFailed, RunningIntent, Present
  <2>2. CASE Worker(m) BY <2>2, StatusStep DEF Worker, Admit, TaskEnds, WorkerFails, Heartbeat, Stage
  <2> QED BY <1>11, <2>1, <2>2 DEF TaskStarts, ExternalRemove
<1>12. ASSUME NEW i \in inflight, DelayedCreate(i[1], i[2]) PROVE RowSteps BY <1>12 DEF DelayedCreate
<1> QED BY <1>1, <1>2, <1>3, <1>4, <1>5, <1>6, <1>7, <1>8, <1>9, <1>10, <1>11, <1>12 DEF Next, Proceed

-----------------------------------------------------------------------------
(* Type correctness.                                                       *)

DockerTyped ==
  /\ svc \in [Monitor -> Service]
  /\ created \in [Monitor -> 0 .. MaxWorkloads]
  /\ label \in [Monitor -> [Workload -> Version]]
  /\ task \in [Monitor -> [Workload -> TaskState]]
  /\ inflight \in SUBSET (Monitor \X Version)
  /\ external \in 0 .. MaxExternal

\* Docker creating a service keeps the types of Docker's state.
LEMMA DockerCreateTypes ==
  ASSUME TypeOK, NEW m \in Monitor, NEW v \in Version, CanCreate(m), DockerCreate(m, v)
  PROVE  /\ svc' \in [Monitor -> Service]
         /\ created' \in [Monitor -> 0 .. MaxWorkloads]
         /\ label' \in [Monitor -> [Workload -> Version]]
<1>1. NewId(m) \in Workload /\ NewId(m) \in 0 .. MaxWorkloads BY NewIdFacts
<1>2. [id |-> NewId(m), up |-> TRUE] \in Service BY <1>1 DEF Service
<1> QED BY <1>1, <1>2 DEF DockerCreate, TypeOK

\* A service that is scaled down or removed is still a service or none.
LEMMA ServiceTypes ==
  ASSUME TypeOK, NEW m \in Monitor, NEW s \in Service, svc' = [svc EXCEPT ![m] = s]
  PROVE  svc' \in [Monitor -> Service]
BY DEF TypeOK

\* Removals keep the types of Docker's state.
LEMMA RemoveDocker ==
  ASSUME TypeOK, NEW a \in Agent, RemoveIntent(a)
  PROVE  DockerTyped'
<1> DEFINE m == Mon(a)
<1>1. m \in Monitor
  BY BusyMon DEF TypeOK, AgentsTyped, RemoveIntent, RemoveById, AwaitById, RemoveByName, AwaitByName, At
<1>2. svc[m] \in Service /\ NoService \in Service BY <1>1 DEF TypeOK, Service, NoService
<1>3. [svc[m] EXCEPT !.up = FALSE] \in Service BY <1>2 DEF Service
<1>4. svc' \in [Monitor -> Service]
  <2>1. CASE UNCHANGED svc BY <2>1 DEF TypeOK
  <2>2. CASE ScaleDown(m)
    <3>1. svc' = [svc EXCEPT ![m] = [svc[m] EXCEPT !.up = FALSE]] BY <2>2 DEF ScaleDown, TypeOK
    <3> QED BY <1>1, <1>3, <3>1, ServiceTypes
  <2>3. CASE RemoveService(a) BY <1>1, <1>2, <2>3, ServiceTypes DEF RemoveService
  <2> QED BY <2>1, <2>2, <2>3 DEF RemoveIntent, RemoveById, AwaitById, RemoveByName, AwaitByName
<1> QED BY <1>4 DEF TypeOK, DockerTyped, RemoveIntent, RemoveById, AwaitById, RemoveByName, AwaitByName

\* Every step keeps the types of Docker's state.
LEMMA DockerOfNext ==
  ASSUME TypeOK, Next
  PROVE  DockerTyped'
<1>0. DockerTyped BY DEF TypeOK, DockerTyped
<1>1. ASSUME NEW a \in Agent, Create(a) PROVE DockerTyped'
  <2>1. CASE CreateWorkload(a)
    <3>1. Mon(a) \in Monitor /\ agents[a].ver \in Version
      BY <2>1, BusyMon DEF TypeOK, AgentsTyped, AgentState, AgentRecord, CreateWorkload, At
    <3> QED BY <2>1, <3>1, DockerCreateTypes DEF CreateWorkload, TypeOK, DockerTyped
  <2> QED BY <1>0, <1>1, <2>1
    DEF Create, ReadIntent, FindWorkload, Validate, Attach, Confirm, RecordFailure, docker, DockerTyped
<1>2. ASSUME NEW a \in Agent, Fault(a) PROVE DockerTyped'
  <2>1. CASE AbandonCreate(a)
    <3>1. Mon(a) \in Monitor /\ agents[a].ver \in Version
      BY <2>1, BusyMon DEF TypeOK, AgentsTyped, AgentState, AgentRecord, AbandonCreate, At
    <3> QED BY <1>0, <2>1, <3>1 DEF AbandonCreate, DockerTyped
  <2> QED BY <1>0, <1>2, <2>1 DEF Fault, CreationFails, RemovalFails, Crash, docker, DockerTyped
<1>3. ASSUME NEW i \in inflight, DelayedCreate(i[1], i[2]) PROVE DockerTyped'
  <2>1. i[1] \in Monitor /\ i[2] \in Version BY DEF TypeOK
  <2> QED BY <1>3, <2>1, DockerCreateTypes DEF DelayedCreate, TypeOK, DockerTyped
<1>4. ASSUME NEW m \in Monitor, TaskStarts(m) \/ Worker(m) \/ ExternalRemove(m) \/ StopFailed(m)
      PROVE  DockerTyped'
  <2>1. ASSUME NEW w, NEW s \in TaskState, SetTask(m, w, s)
        PROVE  task' \in [Monitor -> [Workload -> TaskState]] BY <2>1 DEF SetTask, TypeOK
  <2>2. CASE TaskStarts(m) BY <1>0, <2>1, <2>2 DEF TaskStarts, TaskState, DockerTyped
  <2>3. CASE Worker(m)
    <3>1. ASSUME NEW w \in Workload, Admit(m, w) \/ TaskEnds(m, w) PROVE DockerTyped'
      BY <1>0, <2>1, <3>1 DEF Admit, TaskEnds, TaskState, DockerTyped
    <3> QED BY <1>0, <2>3, <3>1 DEF Worker, WorkerFails, Heartbeat, docker, DockerTyped
  <2>4. CASE ExternalRemove(m)
    <3>1. NoService \in Service BY DEF NoService, Service, TypeOK
    <3>2. external' \in 0 .. MaxExternal
      BY <2>4, ConstantsAssumption DEF ExternalRemove, TypeOK, ConstantsAssumption
    <3> QED BY <1>0, <2>4, <3>1, <3>2, ServiceTypes DEF ExternalRemove, DockerTyped
  <2> QED BY <1>0, <1>4, <2>2, <2>3, <2>4 DEF StopFailed, docker, DockerTyped
<1>5. ASSUME NEW a \in Agent, Request(a) \/ Reconcile(a) PROVE DockerTyped' BY <1>0, <1>5
  DEF Request, Reconcile, Launch, Retire, Cancel, Pause, Recover, SweepList, Snapshot, docker, DockerTyped
<1>6. ASSUME NEW a \in Agent, Proceed(a) PROVE DockerTyped' BY <1>0, <1>1, <1>6, RemoveDocker
  DEF Proceed, MarkRetired, Purge, CancelSuccessor, PauseRead, Complete, SweepRead, Inspect,
      ApplyStopConfirmed, ApplyRunning, ApplyTerminal, docker, DockerTyped
<1> QED BY <1>2, <1>3, <1>4, <1>5, <1>6 DEF Next

\* Every step keeps the outcomes of runs typed, and an ended run ended.
LEMMA RunsOfNext ==
  ASSUME TypeOK, Next
  PROVE  /\ runs' \in [Monitor -> RunState]
         /\ \A m \in Monitor : RunEnded(m) => RunEnded(m)'
<1> DEFINE Goal == /\ runs' \in [Monitor -> RunState]
                   /\ \A m \in Monitor : RunEnded(m) => RunEnded(m)'
<1>1. ASSUME UNCHANGED runs PROVE Goal BY <1>1 DEF TypeOK, RunEnded
<1>2. ASSUME NEW m \in Monitor, NEW o \in RunState \ {"open"}, runs' = [runs EXCEPT ![m] = o]
      PROVE  Goal BY <1>2 DEF TypeOK, RunEnded
<1>3. ASSUME NEW m \in Monitor, NEW o \in RunState \ {"open"},
             runs' = [runs EXCEPT ![m] = IF @ = "open" THEN o ELSE @]
      PROVE  Goal BY <1>3 DEF TypeOK, RunEnded
<1>4. {"failed", "ended"} \subseteq RunState \ {"open"} BY DEF RunState
<1> HIDE DEF Goal
<1>5. ASSUME NEW a \in Agent, Request(a) \/ Reconcile(a) PROVE Goal
  <2>1. ASSUME NEW m \in Monitor, Cancel(a, m) PROVE Goal BY <1>1, <1>2, <1>4, <2>1 DEF Cancel
  <2> QED BY <1>1, <1>5, <2>1 DEF Request, Reconcile, Launch, Retire, Pause, Recover, SweepList, Snapshot
<1>6. ASSUME NEW a \in Agent, Proceed(a) PROVE Goal
  <2>1. ASSUME NEW m \in Monitor, CompleteRow(m) \/ PurgeRow(m) PROVE Goal
    BY <1>3, <1>4, <2>1 DEF CompleteRow, PurgeRow, CompleteStoppedRun
  <2>2. CASE Purge(a) \/ Complete(a) \/ ApplyStopConfirmed(a)
    <3>1. Mon(a) \in Monitor BY <2>2, BusyMon DEF TypeOK, AgentsTyped, Purge, Complete, ApplyStopConfirmed, At
    <3> QED BY <1>1, <2>1, <2>2, <3>1 DEF Purge, Complete, ApplyStopConfirmed
  <2>3. CASE ApplyTerminal(a)
    <3>1. Mon(a) \in Monitor BY <2>3, BusyMon DEF TypeOK, AgentsTyped, ApplyTerminal, At
    <3> QED BY <1>1, <1>3, <1>4, <2>3, <3>1 DEF ApplyTerminal, FailAbandoned
  <2>4. CASE Create(a) \/ RemoveIntent(a) BY <1>1, <2>4
    DEF Create, ReadIntent, FindWorkload, CreateWorkload, Validate, Attach, Confirm, RecordFailure,
        RemoveIntent, RemoveById, AwaitById, RemoveByName, AwaitByName
  <2> QED BY <1>1, <1>6, <2>2, <2>3, <2>4
    DEF Proceed, MarkRetired, CancelSuccessor, PauseRead, SweepRead, Inspect, ApplyRunning
<1>7. ASSUME NEW a \in Agent, Fault(a) PROVE Goal
  BY <1>1, <1>7 DEF Fault, AbandonCreate, CreationFails, RemovalFails, Crash
<1>8. ASSUME NEW m \in Monitor, StopFailed(m) \/ TaskStarts(m) \/ Worker(m) \/ ExternalRemove(m)
      PROVE  Goal BY <1>1, <1>2, <1>4, <1>8
  DEF StopFailed, TaskStarts, ExternalRemove, Worker, Admit, TaskEnds, WorkerFails, Heartbeat
<1>9. ASSUME NEW i \in inflight, DelayedCreate(i[1], i[2]) PROVE Goal BY <1>1, <1>9 DEF DelayedCreate
<1>10. Goal BY <1>5, <1>6, <1>7, <1>8, <1>9 DEF Next
<1> QED BY <1>10 DEF Goal

\* Every step keeps the agents and the counters typed.
LEMMA AgentsOfNext ==
  ASSUME TypeOK, Next
  PROVE  /\ agents' \in [Agent -> AgentState]
         /\ fresh' \in SUBSET Agent
         /\ faults' \in 0 .. MaxFaults
<1>1. agents' \in [Agent -> AgentState]
  <2>1. ASSUME NEW a \in Agent, Moves(a) PROVE agents' \in [Agent -> AgentState] BY <2>1 DEF Moves, TypeOK
  <2>2. ASSUME UNCHANGED agents PROVE agents' \in [Agent -> AgentState] BY <2>2 DEF TypeOK
  <2> QED BY <2>1, <2>2, AgentMoves
    DEF Next, AgentAction, StopFailed, TaskStarts, ExternalRemove, Worker, Admit, TaskEnds,
        WorkerFails, Heartbeat, DelayedCreate, docker
<1>2. fresh' \in SUBSET Agent
  <2> USE DEF TypeOK, Touch
  <2>1. ASSUME NEW a \in Agent, Request(a) \/ Reconcile(a) \/ Fault(a) PROVE fresh' \in SUBSET Agent
    BY <2>1 DEF Request, Reconcile, Launch, Retire, Cancel, Pause, Recover, SweepList, Snapshot,
                Fault, AbandonCreate, CreationFails, RemovalFails, Crash
  <2>2. ASSUME NEW a \in Agent, Create(a) \/ RemoveIntent(a) PROVE fresh' \in SUBSET Agent BY <2>2
    DEF Create, ReadIntent, FindWorkload, CreateWorkload, Validate, Attach, Confirm, RecordFailure,
        RemoveIntent, RemoveById, AwaitById, RemoveByName, AwaitByName
  <2>3. ASSUME NEW a \in Agent, Proceed(a) PROVE fresh' \in SUBSET Agent BY <2>2, <2>3
    DEF Proceed, MarkRetired, Purge, CancelSuccessor, PauseRead, Complete, SweepRead, Inspect,
        ApplyStopConfirmed, ApplyRunning, ApplyTerminal
  <2>4. ASSUME NEW m \in Monitor, StopFailed(m) \/ TaskStarts(m) \/ Worker(m) \/ ExternalRemove(m)
        PROVE  fresh' \in SUBSET Agent
    BY <2>4 DEF StopFailed, TaskStarts, ExternalRemove, Worker, Admit, TaskEnds, WorkerFails, Heartbeat
  <2> QED BY <2>1, <2>3, <2>4 DEF Next, DelayedCreate
<1>3. faults' \in 0 .. MaxFaults
  <2>1. ASSUME NEW a \in Agent, Fault(a) PROVE faults' \in 0 .. MaxFaults
    <3>1. faults > 0 /\ faults' = faults - 1
      BY <2>1 DEF Fault, AbandonCreate, CreationFails, RemovalFails, Crash
    <3> QED BY <3>1, ConstantsAssumption DEF TypeOK, ConstantsAssumption
  <2>2. ASSUME UNCHANGED faults PROVE faults' \in 0 .. MaxFaults BY <2>2 DEF TypeOK
  <2>3. ASSUME NEW a \in Agent, Request(a) \/ Reconcile(a) PROVE UNCHANGED faults
    BY <2>3 DEF Request, Reconcile, Launch, Retire, Cancel, Pause, Recover, SweepList, Snapshot
  <2>4. ASSUME NEW a \in Agent, Create(a) \/ RemoveIntent(a) PROVE UNCHANGED faults BY <2>4
    DEF Create, ReadIntent, FindWorkload, CreateWorkload, Validate, Attach, Confirm, RecordFailure,
        RemoveIntent, RemoveById, AwaitById, RemoveByName, AwaitByName
  <2>5. ASSUME NEW a \in Agent, Proceed(a) PROVE UNCHANGED faults BY <2>4, <2>5
    DEF Proceed, MarkRetired, Purge, CancelSuccessor, PauseRead, Complete, SweepRead, Inspect,
        ApplyStopConfirmed, ApplyRunning, ApplyTerminal
  <2>6. ASSUME NEW m \in Monitor, StopFailed(m) \/ TaskStarts(m) \/ Worker(m) \/ ExternalRemove(m)
        PROVE  UNCHANGED faults
    BY <2>6 DEF StopFailed, TaskStarts, ExternalRemove, Worker, Admit, TaskEnds, WorkerFails, Heartbeat
  <2> QED BY <2>1, <2>2, <2>3, <2>5, <2>6 DEF Next, DelayedCreate
<1> QED BY <1>1, <1>2, <1>3

\* The initial state is typed.
LEMMA InitTypes == Init => TypeOK
<1> SUFFICES ASSUME Init PROVE TypeOK OBVIOUS
<1>1. 0 \in 0 .. MaxWorkloads /\ MaxFaults \in 0 .. MaxFaults /\ MaxExternal \in 0 .. MaxExternal
  BY ConstantsAssumption DEF ConstantsAssumption
<1> QED BY <1>1, RowTypes, AgentTypes, VersionFacts DEF Init, TypeOK, NoService, Service, TaskState, RunState

-----------------------------------------------------------------------------
(* The invariant of the intents.                                           *)

\* A monitor that was retired stays retired: no step makes its row run again,
\* and its run never opens again.
LEMMA RetiredStays ==
  ASSUME TypeOK, IntentInvariant, Next, NEW m \in Monitor, Retired(m)
  PROVE  Retired(m)'
<1>1. RowStep(m) /\ (RunEnded(m) => RunEnded(m)') BY RowStepsOfNext, RunsOfNext DEF IntentInvariant, RowSteps
<1>2. rows[m].desired = "running" => ~rows[m].stop BY DEF IntentInvariant, RowsConsistent
<1> QED BY <1>1, <1>2 DEF RowStep, Kept, Launched, StopAsked, Released, Shown, Retired, RunningIntent, Present

\* Rows stay consistent.
LEMMA RowsConsistentStays ==
  ASSUME TypeOK, IntentInvariant, Next
  PROVE  RowsConsistent'
<1>1. SUFFICES ASSUME NEW m \in Monitor
               PROVE  /\ (rows[m].desired = "running" => rows[m].status /\ ~rows[m].stop)'
                      /\ (rows[m].status => Present(m))' BY DEF RowsConsistent
<1>2. RowStep(m) BY RowStepsOfNext DEF IntentInvariant, RowSteps
<1>3. /\ rows[m].desired = "running" => rows[m].status /\ ~rows[m].stop
      /\ rows[m].status => Present(m) BY DEF IntentInvariant, RowsConsistent
<1> QED BY <1>2, <1>3 DEF RowStep, Kept, Launched, StopAsked, Released, Shown, Present

\* A claim is only taken by a launch that found its readings free.
LEMMA ClaimsTaken ==
  ASSUME TypeOK, IntentInvariant, Next, NEW m \in Monitor, Claims(m)'
  PROVE  Claims(m) \/ Launched(m)
<1>1. RowStep(m) BY RowStepsOfNext DEF IntentInvariant, RowSteps
<1> QED BY <1>1 DEF RowStep, Kept, Launched, StopAsked, Released, Shown, Claims

\* Claims stay exclusive.
LEMMA ExclusiveClaimsStay ==
  ASSUME TypeOK, IntentInvariant, Next
  PROVE  ExclusiveClaims'
<1>1. SUFFICES ASSUME NEW m \in Monitor, NEW n \in Monitor, m # n, Overlaps(m, n),
                      Claims(m)', Claims(n)'
               PROVE  FALSE BY DEF ExclusiveClaims, Overlaps
<1>2. Overlaps(n, m) BY <1>1, ConstantsAssumption DEF ConstantsAssumption, Overlaps
<1>3. ASSUME NEW x \in Monitor, NEW y \in Monitor, x # y, Overlaps(x, y), Launched(x), Claims(y)'
      PROVE  FALSE BY <1>3 DEF Launched, InputsFree, Claims
<1>4. Claims(m) /\ Claims(n) BY <1>1, <1>2, <1>3, ClaimsTaken
<1> QED BY <1>1, <1>4 DEF IntentInvariant, ExclusiveClaims

\* Agents other than the one that acts know what they knew.
LEMMA KnownByOthers ==
  ASSUME TypeOK, IntentInvariant, Next, NEW a \in Agent, agents'[a] = agents[a]
  PROVE  IntentKnown(a)'
<1>1. PICK m : m = Mon(a) OBVIOUS
<1>2. IntentKnown(a) /\ (agents[a].pc # "idle" => m \in Monitor)
  BY <1>1, BusyMon DEF IntentInvariant, TypeOK, AgentsTyped
<1>3. agents[a].pc # "idle" /\ Retired(m) => Retired(m)' BY <1>2, RetiredStays
<1>4. Mon(a)' = m BY <1>1 DEF Mon
<1>5. Retired(m)' => Retired(Mon(a))' BY <1>4 DEF Retired, RunningIntent, Present, RunEnded, Mon
<1> QED BY <1>1, <1>2, <1>3, <1>5 DEF IntentKnown, At, Observed, Removing, Removed

\* Places at which an agent knows nothing of its monitor.
LEMMA NothingKnown ==
  ASSUME NEW a \in Agent,
         \/ agents'[a].pc \in Creating \cup {"idle", "pauseRead", "cancel", "sweepRead"}
         \/ agents'[a].pc \in Removing /\ agents'[a].then \notin Removed
  PROVE  IntentKnown(a)'
BY DEF IntentKnown, At, Creating, Observed, Removing, Removed

\* An agent that goes on to remove a retired monitor, or has removed it.
LEMMA RetiredKnown ==
  ASSUME NEW a \in Agent, agents'[a].pc \in Removing \cup Removed,
         NEW m \in Monitor, Mon(a)' = m, Retired(m)'
  PROVE  IntentKnown(a)'
BY DEF IntentKnown, At, Observed, Removing, Removed, Mon, Retired, RunningIntent, Present, RunEnded

\* The acting agent knows what it just read.
LEMMA KnownByActor ==
  ASSUME TypeOK, IntentInvariant, Next, NEW a \in Agent, AgentAction(a),
         NEW m, m = Mon(a)
  PROVE  IntentKnown(a)'
<1>0. /\ AgentsTyped /\ agents[a] \in AgentState /\ IntentKnown(a)
      /\ agents[a].then \in After /\ agents[a].snap \in Row
  BY DEF TypeOK, AgentsTyped, AgentState, AgentRecord, IntentInvariant
<1> USE DEF At
<1>1. ASSUME NEW s, Become(a, s) PROVE agents'[a] = s BY <1>0, <1>1 DEF Become, AgentsTyped
<1>2. ASSUME NEW pc, Goto(a, pc)
      PROVE  agents'[a].pc = pc /\ agents'[a].then = agents[a].then /\ Mon(a)' = m
  BY <1>0, <1>2 DEF Goto, AgentsTyped, AgentState, AgentRecord, Mon
<1>3. ASSUME Finish(a) PROVE IntentKnown(a)' BY <1>1, <1>3, NothingKnown DEF Finish, Idle
<1>4. ASSUME Fails(a) PROVE IntentKnown(a)' BY <1>1, <1>4, NothingKnown DEF Fails, Begin, Idle, Creating
<1>5. ASSUME NEW pc \in Creating, Goto(a, pc) PROVE IntentKnown(a)' BY <1>2, <1>5, NothingKnown
<1>6. ASSUME NEW x \in Monitor, Retired(x) PROVE Retired(x)' BY <1>6, RetiredStays
<1>7. ASSUME NEW x \in Monitor, Present(x), ~RunningIntent(x) PROVE Retired(x)' BY <1>6, <1>7 DEF Retired
<1>8. ASSUME NEW x \in Monitor, NEW w, NEW v, NEW t,
             Become(a, Remove(x, w, v, t)), t \in Removed => Retired(x)'
      PROVE  IntentKnown(a)'
  <2>1. agents'[a].pc = "removeId" /\ agents'[a].then = t /\ Mon(a)' = x
    BY <1>1, <1>8 DEF Remove, Begin, Idle, Mon
  <2> QED BY <1>8, <2>1, NothingKnown, RetiredKnown DEF Removing
<1>9. ASSUME NEW x \in Monitor, ReadToRetire(a, x) PROVE IntentKnown(a)'
  <2>1. /\ agents'[a].pc = "mark" /\ agents'[a].snap = Captured(rows[x]) /\ Mon(a)' = x
        /\ Present(x) BY <1>1, <1>9 DEF ReadToRetire, Begin, Idle, Mon
  <2>2. Captured(rows[x]).desired = rows[x].desired BY DEF Captured, TypeOK, Row
  <2>3. rows[x].desired = "deleted" => Retired(x)' BY <1>7, <2>1 DEF RunningIntent
  <2> QED BY <2>1, <2>2, <2>3
    DEF IntentKnown, Present, Retired, RunningIntent, RunEnded, Mon, Observed, Removing, Removed
<1>10. CASE Request(a) \/ Reconcile(a)
  <2>1. PICK x \in Monitor : \/ Launch(a, x) \/ Retire(a, x) \/ Cancel(a, x) \/ Pause(a, x)
                             \/ Recover(a, x) \/ SweepList(a, x) \/ Snapshot(a, x)
    BY <1>10 DEF Request, Reconcile
  <2>2. CASE Launch(a, x) \/ Cancel(a, x) \/ Pause(a, x) \/ Recover(a, x) \/ SweepList(a, x)
    <3>1. agents'[a].pc \in {"read", "cancel", "pauseRead", "sweepRead"}
      BY <1>1, <2>2 DEF Launch, Cancel, Pause, Recover, SweepList, Begin, Idle
    <3> QED BY <3>1, NothingKnown DEF Creating
  <2>3. CASE Retire(a, x) BY <1>9, <2>3 DEF Retire
  <2>4. CASE Snapshot(a, x)
    <3>1. /\ agents'[a].pc = "inspect" /\ agents'[a].snap = Captured(rows[x]) /\ Mon(a)' = x
          /\ Present(x) BY <1>1, <2>4 DEF Snapshot, Begin, Idle, Mon
    <3>2. Captured(rows[x]).desired = rows[x].desired /\ Captured(rows[x]).stop = rows[x].stop
      BY DEF Captured, TypeOK, Row
    <3>3. MustNotRun(Captured(rows[x])) => Retired(x)' BY <1>7, <3>1, <3>2 DEF RunningIntent, MustNotRun
    <3> QED BY <3>1, <3>3 DEF IntentKnown, Present, Retired, RunningIntent, RunEnded, Mon, MustNotRun,
          Observed, Removing, Removed
  <2> QED BY <2>1, <2>2, <2>3, <2>4
<1>11. CASE Create(a)
  <2>1. CASE ReadIntent(a)
    <3>1. CASE agents' = [agents EXCEPT ![a].pc = "find", ![a].ver = rows[m].version]
      <4>1. agents'[a].pc = "find" BY <1>0, <3>1 DEF AgentsTyped, AgentState, AgentRecord
      <4> QED BY <4>1, NothingKnown DEF Creating
    <3> QED BY <1>3, <1>4, <2>1, <3>1 DEF ReadIntent
  <2>2. ASSUME NEW w, NEW v, Adopt(a, w, v) PROVE IntentKnown(a)'
    <3>1. CASE agents' = [agents EXCEPT ![a].pc = "validate", ![a].wid = w]
      <4>1. agents'[a].pc = "validate" BY <1>0, <3>1 DEF AgentsTyped, AgentState, AgentRecord
      <4> QED BY <4>1, NothingKnown DEF Creating
    <3> QED BY <1>4, <2>2, <3>1 DEF Adopt
  <2>3. CASE FindWorkload(a) BY <1>5, <2>2, <2>3 DEF FindWorkload, AdoptExisting, Creating
  <2>4. CASE CreateWorkload(a)
    <3>1. \/ Adopt(a, NewId(m), agents[a].ver)
          \/ Adopt(a, svc[m].id, label[m][svc[m].id])
          \/ Fails(a) BY <2>4 DEF CreateWorkload, AdoptExisting
    <3> QED BY <1>4, <2>2, <3>1
  <2>5. CASE Validate(a) \/ Attach(a) \/ RecordFailure(a)
    BY <1>3, <1>4, <1>5, <2>5 DEF Validate, Attach, RecordFailure, Creating
  <2>6. CASE Confirm(a)
    <3>1. m \in Monitor BY <1>0, <2>6, BusyMon DEF Confirm
    <3> QED BY <1>3, <1>8, <2>6, <3>1 DEF Confirm, Removed
  <2> QED BY <1>11, <2>1, <2>3, <2>4, <2>5, <2>6 DEF Create
<1>12. CASE RemoveIntent(a)
  <2>1. agents[a].pc \in Removing /\ m \in Monitor
    BY <1>0, <1>12, BusyMon DEF RemoveIntent, RemoveById, AwaitById, RemoveByName, AwaitByName, Removing
  <2>2. agents[a].then \in Removed => Retired(m)' BY <1>0, <1>6, <2>1 DEF IntentKnown
  <2>3. ASSUME agents'[a].pc \in Removing, agents'[a].then = agents[a].then, Mon(a)' = m
        PROVE  IntentKnown(a)' BY <2>1, <2>2, <2>3, NothingKnown, RetiredKnown
  <2>4. ASSUME NEW pc \in Removing, Goto(a, pc) PROVE IntentKnown(a)' BY <1>2, <2>3, <2>4
  <2>5. ASSUME Continue(a) PROVE IntentKnown(a)'
    <3>1. CASE agents[a].then = "failed" BY <1>4, <1>5, <2>5, <3>1 DEF Continue, Creating
    <3>2. CASE agents[a].then \in Removed BY <1>2, <2>1, <2>2, <2>5, <3>2, RetiredKnown DEF Continue, Removed
    <3> QED BY <1>0, <1>3, <2>5, <3>1, <3>2 DEF Continue, After
  <2>6. CASE RemoveById(a) BY <2>4, <2>6 DEF RemoveById, Removing
  <2>7. CASE AwaitById(a) BY <1>3, <2>4, <2>7 DEF AwaitById, Removing
  <2>8. CASE RemoveByName(a)
    <3>1. CASE agents' = [agents EXCEPT ![a].pc = "waitName", ![a].wid = svc[m].id]
      <4>1. agents'[a].pc = "waitName" /\ agents'[a].then = agents[a].then /\ Mon(a)' = m
        BY <1>0, <3>1 DEF AgentsTyped, AgentState, AgentRecord, Mon
      <4> QED BY <2>3, <4>1 DEF Removing
    <3> QED BY <2>5, <2>8, <3>1 DEF RemoveByName
  <2>9. CASE AwaitByName(a) BY <2>5, <2>9 DEF AwaitByName
  <2> QED BY <1>12, <2>6, <2>7, <2>8, <2>9 DEF RemoveIntent
<1>13. CASE MarkRetired(a)
  <2> DEFINE r == MarkDeleting(agents[a].snap)
  <2>1. m \in Monitor BY <1>0, <1>13, BusyMon DEF MarkRetired
  <2>2. CASE r = agents[a].snap
    <3>1. agents[a].snap.version + 1 # agents[a].snap.version BY <1>0 DEF Row, Version
    <3>2. agents[a].snap.desired = "deleted" BY <1>0, <2>2, <3>1 DEF MarkDeleting, Row
    <3>3. Retired(m)' BY <1>0, <1>6, <1>13, <2>1, <3>2 DEF IntentKnown, MarkRetired
    <3> QED BY <1>8, <1>13, <2>1, <2>2, <3>3 DEF MarkRetired
  <2>3. CASE r # agents[a].snap /\ Present(m)
    <3>1. r.desired = "deleted" BY <1>0, <2>3 DEF MarkDeleting, Row
    <3>2. rows'[m].desired = "deleted" BY <1>13, <2>1, <2>3, <3>1 DEF MarkRetired, TypeOK, Row
    <3>3. Retired(m)' BY <3>2 DEF Retired, RunningIntent, Present
    <3> QED BY <1>8, <1>13, <2>1, <2>3, <3>3 DEF MarkRetired
  <2> QED BY <1>3, <1>13, <2>2, <2>3 DEF MarkRetired
<1>14. CASE CancelSuccessor(a)
  <2>1. m \in Monitor BY <1>0, <1>14, BusyMon DEF CancelSuccessor
  <2> QED BY <1>8, <1>9, <1>14, <2>1 DEF CancelSuccessor, Removed
<1>15. CASE PauseRead(a)
  <2>1. m \in Monitor BY <1>0, <1>15, BusyMon DEF PauseRead
  <2>2. CASE rows[m].stop /\ rows[m].desired \in {"stopped", "deleted"}
    <3>1. Retired(m)' BY <1>7, <2>1, <2>2 DEF Present, RunningIntent
    <3>2. agents'[a] = [Remove(m, rows[m].cid, rows[m].version, "complete") EXCEPT !.snap.cid = rows[m].cid]
      BY <1>1, <1>15, <2>2 DEF PauseRead
    <3>3. agents'[a].pc = "removeId" /\ Mon(a)' = m BY <3>2 DEF Remove, Begin, Idle, Mon
    <3> QED BY <2>1, <3>1, <3>3, RetiredKnown DEF Removing
  <2> QED BY <1>3, <1>15, <2>2 DEF PauseRead
<1>16. CASE SweepRead(a)
  <2>1. m \in Monitor BY <1>0, <1>16, BusyMon DEF SweepRead
  <2> QED BY <1>3, <1>8, <1>16, <2>1 DEF SweepRead, Removed
<1>17. CASE Inspect(a)
  <2>1. m \in Monitor BY <1>0, <1>17, BusyMon DEF Inspect
  <2>2. CASE MustNotRun(agents[a].snap)
    <3>1. Retired(m)' BY <1>0, <1>6, <1>17, <2>1, <2>2 DEF IntentKnown, Inspect
    <3>2. agents'[a] = [Remove(m, agents[a].snap.cid, 0, "stopConfirmed") EXCEPT !.snap = agents[a].snap]
      BY <1>1, <1>17, <2>2 DEF Inspect
    <3>3. agents'[a].pc = "removeId" /\ Mon(a)' = m BY <3>2 DEF Remove, Begin, Idle, Mon
    <3> QED BY <2>1, <3>1, <3>3, RetiredKnown DEF Removing
  <2>3. CASE ~MustNotRun(agents[a].snap)
    <3>1. PICK seen \in (IF agents[a].snap.cid = NoWorkload
                         THEN {"idle"} ELSE DockerStatus(m, agents[a].snap.cid)) :
               IF seen = "idle" THEN Finish(a) ELSE Goto(a, seen) BY <1>17, <2>3 DEF Inspect
    <3>2. CASE seen = "idle" BY <1>3, <3>1, <3>2
    <3>3. CASE seen # "idle"
      <4>1. task[m][agents[a].snap.cid] \in TaskState \/ agents[a].snap.cid = NoWorkload
        BY <1>0, <2>1 DEF TypeOK, Row
      <4>2. seen \in Observed BY <3>1, <3>3, <4>1 DEF DockerStatus, Observed, TaskState
      <4>3. agents'[a].pc \in Observed /\ agents'[a].snap = agents[a].snap
        BY <1>0, <3>1, <3>3, <4>2 DEF Goto, AgentsTyped, AgentState, AgentRecord
      <4> QED BY <2>3, <4>3 DEF IntentKnown, MustNotRun, Observed, Removing, Removed
    <3> QED BY <3>2, <3>3
  <2> QED BY <2>2, <2>3
<1>18. CASE Purge(a) \/ Complete(a) \/ ApplyStopConfirmed(a) \/ ApplyRunning(a) \/ ApplyTerminal(a)
  BY <1>3, <1>18 DEF Purge, Complete, ApplyStopConfirmed, ApplyRunning, ApplyTerminal
<1>19. CASE Fault(a)
  BY <1>3, <1>4, <1>5, <1>19 DEF Fault, AbandonCreate, CreationFails, RemovalFails, Crash, Creating
<1> QED BY <1>10, <1>11, <1>12, <1>13, <1>14, <1>15, <1>16, <1>17, <1>18, <1>19 DEF AgentAction, Proceed

\* Every agent knows afterwards what it has to know.
LEMMA KnownStays ==
  ASSUME TypeOK, IntentInvariant, Next
  PROVE  \A a \in Agent : IntentKnown(a)'
<1>1. CASE \E b \in Agent : AgentAction(b)
  <2>1. PICK b \in Agent : AgentAction(b) BY <1>1
  <2>2. PICK s : agents' = [agents EXCEPT ![b] = s] BY <2>1, AgentMoves DEF Moves
  <2>3. ASSUME NEW a \in Agent, a # b PROVE IntentKnown(a)'
    <3>1. agents'[a] = agents[a] BY <2>2, <2>3 DEF TypeOK
    <3> QED BY <3>1, KnownByOthers
  <2>4. IntentKnown(b)'
    <3>1. PICK m : m = Mon(b) OBVIOUS
    <3> QED BY <2>1, <3>1, KnownByActor
  <2> QED BY <2>3, <2>4
<1>2. CASE ~\E b \in Agent : AgentAction(b)
  <2>1. agents' = agents BY <1>2 DEF Next, AgentAction, StopFailed, TaskStarts, Worker, Admit, TaskEnds,
                WorkerFails, Heartbeat, ExternalRemove, DelayedCreate
  <2> QED BY <2>1, KnownByOthers
<1> QED BY <1>1, <1>2

\* Nothing an invariant speaks of changes in a stuttering step.
LEMMA IntentStutter ==
  ASSUME TypeOK, IntentInvariant, UNCHANGED vars
  PROVE  TypeOK' /\ IntentInvariant'
BY DEF vars, docker, TypeOK, IntentInvariant, RowsConsistent, IntentKnown, ExclusiveClaims,
       At, Mon, Retired, RunningIntent, Present, RunEnded, Claims, MustNotRun

\* Types and the knowledge of the agents are inductive together.
LEMMA IntentInductive ==
  ASSUME TypeOK, IntentInvariant, [Next]_vars
  PROVE  TypeOK' /\ IntentInvariant'
<1>1. CASE Next
  <2>1. RowSteps BY <1>1, RowStepsOfNext DEF IntentInvariant
  <2>2. TypeOK' BY <1>1, <2>1, RunsOfNext, DockerOfNext, AgentsOfNext DEF TypeOK, RowSteps, DockerTyped
  <2>3. IntentInvariant' BY <1>1, RowsConsistentStays, KnownStays, ExclusiveClaimsStay DEF IntentInvariant
  <2> QED BY <2>2, <2>3
<1> QED BY <1>1, IntentStutter

\* Initially nobody knows or claims anything.
LEMMA InitIntent == Init => IntentInvariant
<1> SUFFICES ASSUME Init PROVE IntentInvariant OBVIOUS
<1>1. \A m \in Monitor : rows[m] = NoRow BY DEF Init
<1>2. \A a \in Agent : agents[a].pc = "idle" BY DEF Init, Idle
<1> QED BY <1>1, <1>2 DEF NoRow, IntentInvariant, RowsConsistent, IntentKnown, ExclusiveClaims, Claims, At,
      Observed, Removing, Removed

\* Every state of the lifecycle is typed and consistent.
LEMMA IntentAlways == Spec => [](TypeOK /\ IntentInvariant)
<1>1. Init => TypeOK /\ IntentInvariant BY InitTypes, InitIntent
<1>2. TypeOK /\ IntentInvariant /\ [Next]_vars => (TypeOK /\ IntentInvariant)' BY IntentInductive
<1> QED BY <1>1, <1>2, PTL DEF Spec

\* Every variable keeps its type, for any number of monitors, agents,
\* workloads, versions and faults.
THEOREM TypeCorrect == Spec => []TypeOK
<1>1. TypeOK /\ IntentInvariant => TypeOK OBVIOUS
<1> QED BY <1>1, IntentAlways, PTL

\* Two monitors whose MQTT filters overlap never hold their claims together,
\* however many requests, retries, crashes, delayed calls and external
\* removals there are.
THEOREM ClaimsExclusive == Spec => []ExclusiveClaims
<1>1. TypeOK /\ IntentInvariant => ExclusiveClaims BY DEF IntentInvariant
<1> QED BY <1>1, IntentAlways, PTL

-----------------------------------------------------------------------------
(* The claims of workers.  A worker never outlives its claim, and the      *)
(* lifecycle implements SensorClaims, while nobody removes Swarm services  *)
(* behind TACTIC's back (with such removals the first is false: the task   *)
(* of a service that was removed outlives the claim that the next removal  *)
(* by name releases).  A task lives only in the service of its monitor; a  *)
(* retired monitor gets no new worker; and an agent releases a claim only  *)
(* after it has seen, once the monitor was retired, the last task end.     *)

-----------------------------------------------------------------------------
(* What a step can do to a task and to a service.                          *)

\* A new task state is the end of the task, a start of the current service or
\* an admission, and an admission changes nothing else.
TaskStep(m, w) ==
  \/ task'[m][w] = task[m][w]
  \/ task'[m][w] = "ended"
  \/ task'[m][w] = "starting" /\ svc[m].id = w /\ svc' = svc
  \/ /\ task[m][w] = "starting" /\ task'[m][w] = "admitted"
     /\ Admissible(m, w)
     /\ svc' = svc

\* A step that touches a task touches one, and no row, run or agent.
OneTask ==
  \/ task' = task
  \/ /\ rows' = rows /\ runs' = runs /\ agents' = agents /\ svc' = svc
     /\ \E m \in Monitor : \A n \in Monitor \ {m} : task'[n] = task[n]

\* Writing the state of one task.
LEMMA TaskWritten ==
  ASSUME TypeOK, NEW m \in Monitor, NEW w, NEW s, SetTask(m, w, s)
  PROVE  /\ \A n \in Monitor \ {m} : task'[n] = task[n]
         /\ \A v \in Workload : task'[m][v] = IF v = w THEN s ELSE task[m][v]
BY DEF TypeOK, SetTask

\* Only Docker's scheduler and the worker itself touch a task.
LEMMA TaskStepsOfNext ==
  ASSUME TypeOK, Next
  PROVE  OneTask /\ \A m \in Monitor, w \in Workload : TaskStep(m, w)
<1> DEFINE Goal == OneTask /\ \A m \in Monitor, w \in Workload : TaskStep(m, w)
<1>0. ASSUME UNCHANGED task PROVE Goal BY <1>0 DEF OneTask, TaskStep
<1>1. ASSUME NEW m \in Monitor, TaskStarts(m) PROVE Goal
  <2>1. SetTask(m, svc[m].id, "starting") BY <1>1 DEF TaskStarts
  <2>2. UNCHANGED <<rows, runs, agents, svc>> BY <1>1 DEF TaskStarts
  <2> QED BY <2>1, <2>2, TaskWritten DEF OneTask, TaskStep
<1>2. ASSUME NEW m \in Monitor, NEW w \in Workload, Admit(m, w) PROVE Goal
  <2>1. /\ task[m][w] = "starting"
        /\ SetTask(m, w, IF Admissible(m, w) THEN "admitted" ELSE "ended")
        /\ UNCHANGED <<rows, runs, agents, svc>> BY <1>2 DEF Admit
  <2> QED BY <2>1, TaskWritten DEF OneTask, TaskStep
<1>3. ASSUME NEW m \in Monitor, NEW w \in Workload, TaskEnds(m, w) PROVE Goal
  <2>1. SetTask(m, w, "ended") /\ UNCHANGED <<rows, runs, agents, svc>> BY <1>3 DEF TaskEnds
  <2> QED BY <2>1, TaskWritten DEF OneTask, TaskStep
<1>4. ASSUME NEW m \in Monitor, NEW w \in Workload, NEW s \in Stage,
             WorkerFails(m, w) \/ Heartbeat(m, w, s)
      PROVE  Goal BY <1>0, <1>4 DEF WorkerFails, Heartbeat, docker
<1>5. ASSUME NEW m \in Monitor, StopFailed(m) \/ ExternalRemove(m) PROVE Goal
  BY <1>0, <1>5 DEF StopFailed, ExternalRemove, docker
<1>6. ASSUME NEW m, NEW v, DelayedCreate(m, v) PROVE Goal BY <1>0, <1>6 DEF DelayedCreate
<1>7. ASSUME NEW a \in Agent, Request(a) \/ Reconcile(a) \/ Fault(a) PROVE Goal BY <1>0, <1>7
  DEF Request, Reconcile, Launch, Retire, Cancel, Pause, Recover, SweepList, Snapshot,
      Fault, AbandonCreate, CreationFails, RemovalFails, Crash, docker
<1>8. ASSUME NEW a \in Agent, Create(a) \/ RemoveIntent(a) PROVE Goal BY <1>0, <1>8
  DEF Create, ReadIntent, FindWorkload, CreateWorkload, Validate, Attach, Confirm, RecordFailure,
      RemoveIntent, RemoveById, AwaitById, RemoveByName, AwaitByName, docker
<1>9. ASSUME NEW a \in Agent, Proceed(a) PROVE Goal BY <1>0, <1>8, <1>9
  DEF Proceed, MarkRetired, Purge, CancelSuccessor, PauseRead, Complete, SweepRead, Inspect,
      ApplyStopConfirmed, ApplyRunning, ApplyTerminal, docker
<1>10. ASSUME NEW m \in Monitor, Worker(m) PROVE Goal BY <1>2, <1>3, <1>4, <1>10 DEF Worker, Stage
<1> HIDE DEF Goal
<1>11. Goal BY <1>1, <1>5, <1>6, <1>7, <1>9, <1>10 DEF Next
<1> QED BY <1>11 DEF Goal

\* A service comes under a free name, and goes once its task has stopped.
SvcStep(m) ==
  \/ svc'[m].id = svc[m].id
  \/ svc[m].id = NoWorkload /\ task' = task
  \/ /\ svc[m].id \in Workload => task[m][svc[m].id] \notin Live
     /\ task' = task

\* Docker creating a service.
LEMMA CreateSvcStep ==
  ASSUME TypeOK, NEW n \in Monitor, NEW v, CanCreate(n), DockerCreate(n, v), UNCHANGED task,
         NEW m \in Monitor
  PROVE  SvcStep(m)
BY DEF TypeOK, CanCreate, DockerCreate, SvcStep, NoService

\* An agent removing the service whose task it saw stopped.
LEMMA RemoveSvcStep ==
  ASSUME TypeOK, NEW a \in Agent, Mon(a) \in Monitor, TasksStopped(a), RemoveService(a),
         UNCHANGED task, NEW m \in Monitor
  PROVE  SvcStep(m)
<1>1. CASE m = Mon(a) /\ svc[m].id = agents[a].wid BY <1>1 DEF SvcStep, TasksStopped
<1>2. CASE m # Mon(a) \/ svc[m].id # agents[a].wid BY <1>2 DEF SvcStep, RemoveService, TypeOK
<1> QED BY <1>1, <1>2

\* Scaling a service down leaves its identity.
LEMMA ScaleSvcStep ==
  ASSUME TypeOK, NEW n \in Monitor, ScaleDown(n), NEW m \in Monitor
  PROVE  SvcStep(m)
BY DEF TypeOK, ScaleDown, SvcStep, Service

\* Without external removals, services change in no other way.
LEMMA SvcStepsOfNext ==
  ASSUME TypeOK, Next, external = 0, NEW m \in Monitor
  PROVE  SvcStep(m)
<1>0. ASSUME UNCHANGED svc PROVE SvcStep(m) BY <1>0 DEF SvcStep
<1>1. ASSUME NEW a \in Agent, RemoveIntent(a) PROVE SvcStep(m)
  <2>1. Mon(a) \in Monitor BY <1>1, BusyMon
    DEF TypeOK, AgentsTyped, RemoveIntent, RemoveById, AwaitById, RemoveByName, AwaitByName, At
  <2>2. \/ UNCHANGED svc
        \/ ScaleDown(Mon(a))
        \/ TasksStopped(a) /\ RemoveService(a) /\ UNCHANGED task
    BY <1>1 DEF RemoveIntent, RemoveById, AwaitById, RemoveByName, AwaitByName
  <2> QED BY <1>0, <2>1, <2>2, ScaleSvcStep, RemoveSvcStep
<1>2. ASSUME NEW a \in Agent, CreateWorkload(a) PROVE SvcStep(m)
  <2>1. Mon(a) \in Monitor BY <1>2, BusyMon DEF TypeOK, AgentsTyped, CreateWorkload, At
  <2>2. UNCHANGED task /\ (UNCHANGED svc \/ (CanCreate(Mon(a)) /\ DockerCreate(Mon(a), agents[a].ver)))
    BY <1>2 DEF CreateWorkload
  <2> QED BY <1>0, <2>1, <2>2, CreateSvcStep
<1>3. ASSUME NEW a \in Agent, Create(a) PROVE SvcStep(m)
  BY <1>0, <1>2, <1>3 DEF Create, ReadIntent, FindWorkload, Validate, Attach, Confirm, RecordFailure, docker
<1>4. ASSUME NEW a \in Agent, Request(a) \/ Reconcile(a) \/ Fault(a) PROVE SvcStep(m) BY <1>0, <1>4
  DEF Request, Reconcile, Launch, Retire, Cancel, Pause, Recover, SweepList, Snapshot,
      Fault, AbandonCreate, CreationFails, RemovalFails, Crash, docker
<1>5. ASSUME NEW a \in Agent, Proceed(a) PROVE SvcStep(m) BY <1>0, <1>1, <1>3, <1>5
  DEF Proceed, MarkRetired, Purge, CancelSuccessor, PauseRead, Complete, SweepRead, Inspect,
      ApplyStopConfirmed, ApplyRunning, ApplyTerminal, docker
<1>6. ASSUME NEW n \in Monitor, StopFailed(n) \/ TaskStarts(n) \/ Worker(n) PROVE SvcStep(m) BY <1>0, <1>6
  DEF StopFailed, TaskStarts, Worker, Admit, TaskEnds, WorkerFails, Heartbeat, docker
<1>7. ASSUME NEW i \in inflight, DelayedCreate(i[1], i[2]) PROVE SvcStep(m)
  <2>1. i[1] \in Monitor BY <1>7 DEF TypeOK
  <2>2. UNCHANGED task /\ (UNCHANGED svc \/ (CanCreate(i[1]) /\ DockerCreate(i[1], i[2])))
    BY <1>7 DEF DelayedCreate
  <2> QED BY <1>0, <2>1, <2>2, CreateSvcStep
<1>8. ASSUME NEW n \in Monitor, ExternalRemove(n) PROVE FALSE BY <1>8 DEF ExternalRemove
<1> QED BY <1>4, <1>5, <1>6, <1>7, <1>8 DEF Next

-----------------------------------------------------------------------------
(* The inductive invariant.                                                *)

\* A live task belongs to the service of its monitor.
LEMMA TasksInServiceStays ==
  ASSUME TypeOK, TasksInService, Next, external = 0
  PROVE  TasksInService'
<1> SUFFICES ASSUME NEW m \in Monitor, NEW w \in Workload, task'[m][w] \in Live
             PROVE  svc'[m].id = w BY DEF TasksInService
<1>1. TaskStep(m, w) /\ SvcStep(m) BY TaskStepsOfNext, SvcStepsOfNext
<1>2. task[m][w] \in Live => svc[m].id = w BY DEF TasksInService
<1>3. w # NoWorkload BY DEF Workload, NoWorkload
<1> QED BY <1>1, <1>2, <1>3 DEF TaskStep, SvcStep, Live

\* A retired monitor gets no new worker.
LEMMA NoNewWorker ==
  ASSUME TypeOK, Next, NEW m \in Monitor, Retired(m), NEW w \in Workload,
         task'[m][w] = "admitted"
  PROVE  task[m][w] = "admitted"
BY TaskStepsOfNext DEF TaskStep, Admissible, Retired

\* A worker that was admitted keeps its claim.
LEMMA ClaimCoversWorkerStays ==
  ASSUME TypeOK, ClaimInvariant, Next
  PROVE  ClaimCoversWorker'
<1> SUFFICES ASSUME NEW m \in Monitor, NEW w \in Workload, task'[m][w] = "admitted"
             PROVE  Claims(m)' BY DEF ClaimCoversWorker, Admitted
<1>1. RowStep(m) /\ TaskStep(m, w)
  BY RowStepsOfNext, TaskStepsOfNext DEF ClaimInvariant, IntentInvariant, RowSteps
<1>2. rows[m].desired = "running" => rows[m].status BY DEF ClaimInvariant, IntentInvariant, RowsConsistent
<1>3. CASE task[m][w] = "admitted"
  <2>1. Claims(m) BY <1>3 DEF ClaimInvariant, ClaimCoversWorker, Admitted
  <2>2. ~Released(m) BY <1>3 DEF Released, ClaimInvariant, WorkersGone, Admitted
  <2> QED BY <1>1, <1>2, <2>1, <2>2 DEF RowStep, Kept, Launched, StopAsked, Shown, Claims
<1>4. CASE task[m][w] # "admitted"
  <2>1. RunningIntent(m) BY <1>1, <1>4 DEF TaskStep, Admissible
  <2>2. rows' = rows BY <1>4, TaskStepsOfNext DEF OneTask
  <2> QED BY <2>1, <2>2 DEF RunningIntent, Claims
<1> QED BY <1>3, <1>4

\* Agents other than the one that acts still have seen the last worker end.
LEMMA GoneForOthers ==
  ASSUME TypeOK, ClaimInvariant, Next, NEW a \in Agent, agents'[a] = agents[a]
  PROVE  WorkersGone(a)'
<1>1. PICK m : m = Mon(a) OBVIOUS
<1>2. /\ IntentKnown(a) /\ WorkersGone(a)
      /\ agents[a].pc # "idle" => m \in Monitor
  BY <1>1, BusyMon DEF ClaimInvariant, IntentInvariant, TypeOK, AgentsTyped
<1>3. /\ agents[a].pc = "waitName" /\ agents[a].then \in Removed => Retired(m)
      /\ agents[a].pc \in Removed => Retired(m) BY <1>1, <1>2 DEF IntentKnown, Removing
<1>4. agents[a].pc # "idle" /\ Retired(m)
        => \A w \in Workload : task'[m][w] = "admitted" => task[m][w] = "admitted" BY <1>2, NoNewWorker
<1>5. Mon(a)' = m BY <1>1 DEF Mon
<1>6. agents[a].pc = "waitName" \/ agents[a].pc \in Removed => agents[a].pc # "idle" BY DEF Removed
<1> QED BY <1>1, <1>2, <1>3, <1>4, <1>5, <1>6 DEF WorkersGone, At, Admitted, Mon

\* Where an agent is when it has nothing to know of workers.
Elsewhere(a) == agents[a].pc \notin {"waitName"} \cup Removed

\* Only the removal by name brings an agent to the places that matter.
LEMMA OthersGoElsewhere ==
  ASSUME TypeOK, NEW a \in Agent, AgentAction(a), ~RemoveByName(a), ~AwaitByName(a)
  PROVE  Elsewhere(a)'
<1>0. AgentsTyped /\ agents[a] \in AgentState BY DEF TypeOK, AgentsTyped
<1>1. ASSUME NEW s, Become(a, s) PROVE agents'[a] = s BY <1>0, <1>1 DEF Become, AgentsTyped
<1>2. ASSUME NEW pc, Goto(a, pc), pc \notin {"waitName"} \cup Removed PROVE Elsewhere(a)'
  <2>1. agents'[a].pc = pc BY <1>0, <1>2 DEF Goto, AgentsTyped, AgentState, AgentRecord
  <2> QED BY <1>2, <2>1 DEF Elsewhere
<1>3. ASSUME NEW m, NEW pc, Become(a, Begin(m, pc)), pc \notin {"waitName"} \cup Removed
      PROVE  Elsewhere(a)' BY <1>1, <1>3 DEF Begin, Idle, Elsewhere
<1>4. ASSUME Finish(a) \/ Fails(a) PROVE Elsewhere(a)'
  <2>1. CASE Finish(a) BY <1>1, <2>1 DEF Finish, Idle, Elsewhere, Removed
  <2>2. CASE Fails(a) BY <1>3, <2>2 DEF Fails, Removed
  <2> QED BY <1>4, <2>1, <2>2
<1>5. ASSUME NEW m, NEW w, NEW v, NEW t, Become(a, Remove(m, w, v, t)) PROVE Elsewhere(a)'
  <2>1. agents'[a] = Remove(m, w, v, t) BY <1>1, <1>5
  <2>2. agents'[a].pc = "removeId" BY <2>1 DEF Remove, Begin, Idle
  <2> QED BY <2>2 DEF Elsewhere, Removed
<1>6. ASSUME NEW m, ReadToRetire(a, m) PROVE Elsewhere(a)'
  BY <1>1, <1>6 DEF ReadToRetire, Begin, Idle, Elsewhere, Removed
<1>7. ASSUME Request(a) PROVE Elsewhere(a)'
  BY <1>3, <1>6, <1>7 DEF Request, Launch, Retire, Cancel, Pause, Removed
<1>8. ASSUME Reconcile(a) PROVE Elsewhere(a)'
  <2>1. PICK m \in Monitor : Recover(a, m) \/ SweepList(a, m) \/ Snapshot(a, m) BY <1>8 DEF Reconcile
  <2>2. agents'[a].pc \in {"read", "sweepRead", "inspect"}
    BY <1>1, <2>1 DEF Recover, SweepList, Snapshot, Begin, Idle
  <2> QED BY <2>2 DEF Elsewhere, Removed
<1>9. ASSUME NEW w, NEW v, Adopt(a, w, v) PROVE Elsewhere(a)'
  BY <1>0, <1>4, <1>9 DEF Adopt, AgentsTyped, AgentState, AgentRecord, Elsewhere, Removed
<1>10. ASSUME Create(a) PROVE Elsewhere(a)'
  <2>1. CASE ReadIntent(a)
    BY <1>0, <1>4, <2>1 DEF ReadIntent, AgentsTyped, AgentState, AgentRecord, Elsewhere, Removed
  <2>2. CASE FindWorkload(a) \/ CreateWorkload(a)
    BY <1>2, <1>4, <1>9, <2>2 DEF FindWorkload, CreateWorkload, AdoptExisting, Removed
  <2>3. CASE Validate(a) \/ Attach(a) \/ Confirm(a) \/ RecordFailure(a)
    BY <1>2, <1>4, <1>5, <2>3 DEF Validate, Attach, Confirm, RecordFailure, Removed
  <2> QED BY <1>10, <2>1, <2>2, <2>3 DEF Create
<1>11. ASSUME RemoveById(a) \/ AwaitById(a) PROVE Elsewhere(a)'
  BY <1>2, <1>4, <1>11 DEF RemoveById, AwaitById, Removed
<1>12. ASSUME MarkRetired(a) \/ CancelSuccessor(a) \/ SweepRead(a) PROVE Elsewhere(a)'
  BY <1>4, <1>5, <1>6, <1>12 DEF MarkRetired, CancelSuccessor, SweepRead
<1>13. ASSUME PauseRead(a) \/ Inspect(a) PROVE Elsewhere(a)'
  <2>1. ASSUME NEW m, NEW w, NEW v, NEW t, NEW c,
               agents'[a] = [Remove(m, w, v, t) EXCEPT !.snap.cid = c]
        PROVE  Elsewhere(a)' BY <2>1 DEF Remove, Begin, Idle, Elsewhere, Removed
  <2>2. ASSUME NEW m, NEW w, NEW v, NEW t, NEW s,
               agents'[a] = [Remove(m, w, v, t) EXCEPT !.snap = s]
        PROVE  Elsewhere(a)' BY <2>2 DEF Remove, Begin, Idle, Elsewhere, Removed
  <2>3. CASE PauseRead(a) BY <1>1, <1>4, <2>1, <2>3 DEF PauseRead
  <2>4. CASE Inspect(a)
    <3>1. ~MustNotRun(agents[a].snap) => Elsewhere(a)'
      <4>1. SUFFICES ASSUME ~MustNotRun(agents[a].snap) PROVE Elsewhere(a)' OBVIOUS
      <4>2. PICK seen \in (IF agents[a].snap.cid = NoWorkload
                           THEN {"idle"} ELSE DockerStatus(Mon(a), agents[a].snap.cid)) :
                 IF seen = "idle" THEN Finish(a) ELSE Goto(a, seen) BY <2>4, <4>1 DEF Inspect
      <4>3. /\ Mon(a) \in Monitor
            /\ agents[a].snap.cid \in Workload \cup {NoWorkload}
        BY <1>0, <2>4, BusyMon DEF Inspect, At, AgentState, AgentRecord, Row
      <4>4. seen \in {"idle", "sawRunning", "sawTerminal"} BY <4>2, <4>3 DEF DockerStatus, TaskState, TypeOK
      <4> QED BY <1>2, <1>4, <4>2, <4>4 DEF Removed
    <3> QED BY <1>1, <2>2, <2>4, <3>1 DEF Inspect
  <2> QED BY <1>13, <2>3, <2>4
<1>14. ASSUME Purge(a) \/ Complete(a) \/ ApplyStopConfirmed(a) \/ ApplyRunning(a)
              \/ ApplyTerminal(a) \/ Fault(a)
       PROVE  Elsewhere(a)' BY <1>4, <1>14
  DEF Purge, Complete, ApplyStopConfirmed, ApplyRunning, ApplyTerminal,
      Fault, AbandonCreate, CreationFails, RemovalFails, Crash
<1> QED BY <1>7, <1>8, <1>10, <1>11, <1>12, <1>13, <1>14 DEF AgentAction, Proceed, RemoveIntent

\* An agent that gets there has seen the last worker end.
LEMMA GoneForActor ==
  ASSUME TypeOK, ClaimInvariant, Next, NEW a \in Agent, AgentAction(a),
         NEW m, m = Mon(a)
  PROVE  WorkersGone(a)'
<1>1. CASE ~RemoveByName(a) /\ ~AwaitByName(a) BY <1>1, OthersGoElsewhere DEF Elsewhere, WorkersGone, At
<1>2. CASE RemoveByName(a) \/ AwaitByName(a)
  <2>0. /\ AgentsTyped /\ agents[a] \in AgentState
        /\ m \in Monitor
        /\ agents[a].wid \in Workload \cup {NoWorkload} /\ NoWorkload \notin Workload
        /\ \A w \in Workload : task[m][w] \in Live => svc[m].id = w
        /\ WorkersGone(a) BY <1>2, BusyMon
    DEF TypeOK, AgentsTyped, AgentState, AgentRecord, RemoveByName, AwaitByName, At,
        ClaimInvariant, TasksInService, Workload, NoWorkload
  <2>1. task' = task BY <1>2 DEF RemoveByName, AwaitByName
  <2>2. ASSUME ~Admitted(m), Continue(a) PROVE WorkersGone(a)'
    <3>1. \A w \in Workload : task'[m][w] # "admitted" BY <2>1, <2>2 DEF Admitted
    <3>2. CASE Finish(a)
      <4>1. agents'[a].pc = "idle" BY <2>0, <3>2 DEF Finish, Become, AgentsTyped, Idle
      <4> QED BY <4>1 DEF WorkersGone, At, Removed
    <3>3. CASE Goto(a, agents[a].then)
      <4>1. /\ agents'[a].pc = agents[a].then /\ agents'[a].pc # "waitName"
            /\ Mon(a)' = m BY <2>0, <3>3 DEF Goto, AgentsTyped, AgentState, AgentRecord, Mon, After, Removed
      <4> QED BY <3>1, <4>1 DEF WorkersGone, At, Admitted, Mon
    <3> QED BY <2>2, <3>2, <3>3 DEF Continue
  <2>3. CASE AwaitByName(a) /\ agents[a].then \in Removed
    <3>1. ~Admitted(m) BY <2>0, <2>3 DEF AwaitByName, At, WorkersGone, TasksStopped, Admitted, Live
    <3> QED BY <2>2, <2>3, <3>1 DEF AwaitByName
  <2>4. CASE AwaitByName(a) /\ agents[a].then \notin Removed
    <3>1. Elsewhere(a)'
      <4>1. CASE Finish(a)
        <5>1. agents'[a].pc = "idle" BY <2>0, <4>1 DEF Finish, Become, AgentsTyped, Idle
        <5> QED BY <5>1 DEF Elsewhere, Removed
      <4>2. CASE Goto(a, agents[a].then)
        <5>1. agents'[a].pc = agents[a].then /\ agents[a].then \in After
          BY <2>0, <4>2 DEF Goto, AgentsTyped, AgentState, AgentRecord
        <5> QED BY <2>4, <5>1 DEF Elsewhere, Removed, After
      <4> QED BY <2>4, <4>1, <4>2 DEF AwaitByName, Continue
    <3> QED BY <3>1 DEF Elsewhere, WorkersGone, At
  <2>5. CASE RemoveByName(a) /\ svc[m] = NoService /\ Continue(a)
    <3>1. ~Admitted(m) BY <2>0, <2>5 DEF NoService, Admitted, Live, NoWorkload
    <3> QED BY <2>2, <2>5, <3>1
  <2>6. CASE agents' = [agents EXCEPT ![a].pc = "waitName", ![a].wid = svc[m].id]
    <3>1. agents'[a].pc = "waitName" /\ agents'[a].wid = svc[m].id /\ Mon(a)' = m
      BY <2>0, <2>6 DEF AgentsTyped, AgentState, AgentRecord, Mon
    <3>2. \A w \in Workload : task'[m][w] = "admitted" => w = svc[m].id BY <2>0, <2>1 DEF Live
    <3> QED BY <3>1, <3>2 DEF WorkersGone, At, Mon, Removed
  <2> QED BY <1>2, <2>3, <2>4, <2>5, <2>6 DEF RemoveByName
<1> QED BY <1>1, <1>2

\* Whoever is about to release a claim has seen the last worker end.
LEMMA GoneStays ==
  ASSUME TypeOK, ClaimInvariant, Next
  PROVE  \A a \in Agent : WorkersGone(a)'
<1>1. CASE \E b \in Agent : AgentAction(b)
  <2>1. PICK b \in Agent : AgentAction(b) BY <1>1
  <2>2. PICK s : agents' = [agents EXCEPT ![b] = s] BY <2>1, AgentMoves DEF Moves
  <2>3. ASSUME NEW a \in Agent, a # b PROVE WorkersGone(a)'
    <3>1. agents'[a] = agents[a] BY <2>2, <2>3 DEF TypeOK
    <3> QED BY <3>1, GoneForOthers
  <2>4. WorkersGone(b)'
    <3>1. PICK m : m = Mon(b) OBVIOUS
    <3> QED BY <2>1, <3>1, GoneForActor
  <2> QED BY <2>3, <2>4
<1>2. CASE ~\E b \in Agent : AgentAction(b)
  <2>1. agents' = agents BY <1>2 DEF Next, AgentAction, StopFailed, TaskStarts, Worker, Admit, TaskEnds,
                WorkerFails, Heartbeat, ExternalRemove, DelayedCreate
  <2> QED BY <2>1, GoneForOthers
<1> QED BY <1>1, <1>2

\* What is known of workers and tasks is unchanged by a stuttering step.
LEMMA ClaimStutter ==
  ASSUME TasksInService, ClaimCoversWorker, \A a \in Agent : WorkersGone(a), UNCHANGED vars
  PROVE  TasksInService' /\ ClaimCoversWorker' /\ \A a \in Agent : WorkersGone(a)'
BY DEF vars, docker, TasksInService, ClaimCoversWorker, WorkersGone, Admitted, Claims, At, Mon

\* The invariant of the claims is inductive when nobody removes services
\* behind TACTIC's back.
LEMMA ClaimInductive ==
  ASSUME TypeOK, ClaimInvariant, [Next]_vars, MaxExternal = 0
  PROVE  TypeOK' /\ ClaimInvariant'
<1>0. external = 0 BY DEF TypeOK
<1>1. TypeOK' /\ IntentInvariant' BY IntentInductive DEF ClaimInvariant
<1>2. CASE Next
  <2>1. TasksInService' BY <1>0, <1>2, TasksInServiceStays DEF ClaimInvariant
  <2> QED BY <1>1, <1>2, <2>1, GoneStays, ClaimCoversWorkerStays DEF ClaimInvariant
<1>3. CASE UNCHANGED vars BY <1>1, <1>3, ClaimStutter DEF ClaimInvariant
<1> QED BY <1>2, <1>3

\* Initially there is no task.
LEMMA InitClaims == Init => ClaimInvariant
<1> SUFFICES ASSUME Init PROVE ClaimInvariant OBVIOUS
<1>1. \A m \in Monitor, w \in Workload : task[m][w] = "none" BY DEF Init
<1>2. \A a \in Agent : agents[a].pc = "idle" BY DEF Init, Idle
<1> QED BY <1>1, <1>2, InitIntent
  DEF ClaimInvariant, TasksInService, Live, WorkersGone, At, Removed, ClaimCoversWorker, Admitted

\* Every state of the lifecycle satisfies the invariant of the claims.
LEMMA ClaimAlways ==
  ASSUME MaxExternal = 0
  PROVE  Spec => [](TypeOK /\ ClaimInvariant)
<1>1. Init => TypeOK /\ ClaimInvariant BY InitTypes, InitClaims
<1>2. TypeOK /\ ClaimInvariant /\ [Next]_vars => (TypeOK /\ ClaimInvariant)' BY ClaimInductive
<1> QED BY <1>1, <1>2, PTL DEF Spec

\* While nobody removes Swarm services behind TACTIC's back, an admitted
\* worker holds the claim on its readings until its task has stopped, whatever
\* requests, reconciler passes, retries, crashes and delayed creations do.
THEOREM ClaimCovers ==
  ASSUME MaxExternal = 0
  PROVE  Spec => []ClaimCoversWorker
<1>1. TypeOK /\ ClaimInvariant => ClaimCoversWorker BY DEF ClaimInvariant
<1> QED BY <1>1, ClaimAlways, PTL

-----------------------------------------------------------------------------
(* The refinement.                                                         *)

Holders == {m \in Monitor : Claims(m)}
Workers == {m \in Monitor : Admitted(m)}
Closed == {m \in Monitor : RunEnded(m)}

\* At most one run changes in a step.
LEMMA OneRun ==
  ASSUME TypeOK, Next
  PROVE  runs' = runs \/ \E m \in Monitor : \A n \in Monitor \ {m} : runs'[n] = runs[n]
<1> DEFINE Goal == runs' = runs \/ \E m \in Monitor : \A n \in Monitor \ {m} : runs'[n] = runs[n]
<1>0. ASSUME NEW m \in Monitor, NEW s, runs' = [runs EXCEPT ![m] = s] PROVE Goal BY <1>0 DEF TypeOK
<1>1. ASSUME NEW m \in Monitor, CompleteRow(m) \/ PurgeRow(m) PROVE Goal
  BY <1>0, <1>1 DEF CompleteRow, PurgeRow, CompleteStoppedRun
<1>2. ASSUME NEW a \in Agent, Request(a) PROVE Goal BY <1>0, <1>2 DEF Request, Launch, Retire, Cancel, Pause
<1>3. ASSUME NEW a \in Agent, Reconcile(a) \/ Fault(a) PROVE Goal
  BY <1>3 DEF Reconcile, Recover, SweepList, Snapshot,
              Fault, AbandonCreate, CreationFails, RemovalFails, Crash
<1>4. ASSUME NEW a \in Agent, Create(a) \/ RemoveIntent(a) PROVE Goal BY <1>4
  DEF Create, ReadIntent, FindWorkload, CreateWorkload, Validate, Attach, Confirm, RecordFailure,
      RemoveIntent, RemoveById, AwaitById, RemoveByName, AwaitByName
<1>5. ASSUME NEW a \in Agent,
             Purge(a) \/ Complete(a) \/ ApplyStopConfirmed(a) \/ ApplyTerminal(a)
      PROVE  Goal
  <2>1. Mon(a) \in Monitor
    BY <1>5, BusyMon DEF TypeOK, AgentsTyped, Purge, Complete, ApplyStopConfirmed, ApplyTerminal, At
  <2> QED BY <1>0, <1>1, <1>5, <2>1 DEF Purge, Complete, ApplyStopConfirmed, ApplyTerminal, FailAbandoned
<1>6. ASSUME NEW a \in Agent, Proceed(a) PROVE Goal BY <1>4, <1>5, <1>6
  DEF Proceed, MarkRetired, CancelSuccessor, PauseRead, SweepRead, Inspect, ApplyRunning
<1>7. ASSUME NEW m \in Monitor, StopFailed(m) \/ TaskStarts(m) \/ Worker(m) \/ ExternalRemove(m)
      PROVE  Goal BY <1>0, <1>7
  DEF StopFailed, TaskStarts, ExternalRemove, Worker, Admit, TaskEnds, WorkerFails, Heartbeat
<1>8. ASSUME NEW m, NEW v, DelayedCreate(m, v) PROVE Goal BY <1>8 DEF DelayedCreate
<1> HIDE DEF Goal
<1>9. Goal BY <1>2, <1>3, <1>6, <1>7, <1>8 DEF Next
<1> QED BY <1>9 DEF Goal

\* A step that touches tasks starts or stops one worker, or neither.
LEMMA TaskRefines ==
  ASSUME TypeOK, ClaimInvariant, Next, task' # task
  PROVE  \/ \E m \in Monitor : Abstract!StartWorker(m) \/ Abstract!StopWorker(m)
         \/ UNCHANGED <<Holders, Workers, Closed>>
<1>1. PICK m \in Monitor : \A n \in Monitor \ {m} : task'[n] = task[n] BY TaskStepsOfNext DEF OneTask
<1>2. /\ Holders' = Holders /\ Closed' = Closed
      /\ \A n \in Monitor \ {m} : Admitted(n)' <=> Admitted(n)
  BY <1>1, TaskStepsOfNext DEF OneTask, Holders, Closed, Claims, RunEnded, Admitted
<1>3. CASE Admitted(m)' /\ ~Admitted(m)
  <2>1. RunningIntent(m) /\ ~RunEnded(m) BY <1>3, TaskStepsOfNext DEF TaskStep, Admissible, Admitted
  <2>2. m \in Holders \ Closed BY <2>1 DEF RunningIntent, Claims, Holders, Closed
  <2>3. Workers' = Workers \cup {m} BY <1>2, <1>3 DEF Workers
  <2> QED BY <1>2, <2>2, <2>3 DEF Abstract!StartWorker, Holders, Workers, Closed
<1>4. CASE ~Admitted(m)'
  <2>1. Workers' = Workers \ {m} BY <1>2, <1>4 DEF Workers
  <2> QED BY <1>2, <2>1 DEF Abstract!StopWorker, Holders, Workers, Closed
<1>5. CASE Admitted(m)' /\ Admitted(m) BY <1>2, <1>5 DEF Workers
<1> QED BY <1>3, <1>4, <1>5

\* A launch claims.
LEMMA LaunchRefines ==
  ASSUME TypeOK, ClaimInvariant, Next, task' = task, NEW m \in Monitor, Launched(m)
  PROVE  Abstract!Claim(m)
<1>1. Workers' = Workers /\ Closed' = Closed BY DEF Launched, Workers, Closed, Admitted, RunEnded
<1>2. m \notin Holders \cup Closed
  BY DEF Launched, Holders, Closed, Claims, Present, ClaimInvariant, IntentInvariant, RowsConsistent
<1>3. \A n \in Holders : <<m, n>> \notin Overlap BY <1>2 DEF Launched, InputsFree, Overlaps, Holders
<1>4. Claims(m)' /\ \A n \in Monitor \ {m} : Claims(n)' <=> Claims(n) BY DEF Launched, Claims
<1>5. Holders' = Holders \cup {m} BY <1>4 DEF Holders
<1> QED BY <1>1, <1>2, <1>3, <1>5 DEF Abstract!Claim, Holders, Workers, Closed

\* The end of a removal releases, or closes the run of a monitor that has
\* released already.
LEMMA ReleaseRefines ==
  ASSUME TypeOK, ClaimInvariant, Next, task' = task, NEW m \in Monitor, Released(m)
  PROVE  Abstract!Release(m) \/ Abstract!CloseRun(m)
<1>1. Workers' = Workers BY DEF Workers, Admitted
<1>2. m \notin Workers BY DEF Released, ClaimInvariant, WorkersGone, Workers
<1>3. /\ ~Claims(m)' /\ RunEnded(m)'
      /\ \A n \in Monitor \ {m} : (Claims(n)' <=> Claims(n)) /\ (RunEnded(n)' <=> RunEnded(n))
  BY DEF Released, Claims, RunEnded
<1>4. Closed' = Closed \cup {m} /\ Holders' = Holders \ {m} BY <1>3 DEF Closed, Holders
<1>5. CASE m \in Holders BY <1>1, <1>2, <1>4, <1>5 DEF Abstract!Release, Holders, Workers, Closed
<1>6. CASE m \notin Holders BY <1>1, <1>4, <1>6 DEF Abstract!CloseRun, Holders, Workers, Closed
<1> QED BY <1>5, <1>6

\* Any other write of rows and runs closes at most one run.
LEMMA CloseRefines ==
  ASSUME TypeOK, ClaimInvariant, Next, task' = task,
         \A m \in Monitor : ~Launched(m) /\ ~Released(m)
  PROVE  \/ \E m \in Monitor : Abstract!CloseRun(m)
         \/ UNCHANGED <<Holders, Workers, Closed>>
<1>1. Workers' = Workers BY DEF Workers, Admitted
<1>2. \A m \in Monitor : RowStep(m) BY RowStepsOfNext DEF ClaimInvariant, IntentInvariant, RowSteps
<1>3. \A m \in Monitor : Claims(m)' <=> Claims(m)
  BY <1>2 DEF RowStep, Kept, StopAsked, Shown, Claims, ClaimInvariant, IntentInvariant, RowsConsistent
<1>4. Holders' = Holders BY <1>3 DEF Holders
<1>5. \A m \in Monitor : RunEnded(m) => RunEnded(m)' BY RunsOfNext
<1>6. CASE runs' = runs BY <1>1, <1>4, <1>6 DEF Closed, RunEnded
<1>7. ASSUME NEW m \in Monitor, \A n \in Monitor \ {m} : runs'[n] = runs[n]
      PROVE  Abstract!CloseRun(m) \/ UNCHANGED Closed
  <2>1. \A n \in Monitor \ {m} : RunEnded(n)' <=> RunEnded(n) BY <1>7 DEF RunEnded
  <2>2. CASE RunEnded(m)'
    <3>1. Closed' = Closed \cup {m} BY <2>1, <2>2 DEF Closed
    <3> QED BY <1>1, <1>4, <3>1 DEF Abstract!CloseRun, Holders, Workers, Closed
  <2>3. CASE ~RunEnded(m)' BY <1>5, <2>1, <2>3 DEF Closed
  <2> QED BY <2>2, <2>3
<1> QED BY <1>1, <1>4, <1>6, <1>7, OneRun

\* Every step of the lifecycle is a step of the claims, or none.
LEMMA StepRefines ==
  ASSUME TypeOK, ClaimInvariant, [Next]_vars
  PROVE  [Abstract!Next]_(Abstract!abstractVars)
<1> USE DEF Abstract!abstractVars
<1>1. CASE Next /\ task' # task BY <1>1, TaskRefines DEF Abstract!Next, Holders, Workers, Closed
<1>2. CASE Next /\ task' = task
  <2>1. CASE \E m \in Monitor : Launched(m) BY <1>2, <2>1, LaunchRefines DEF Abstract!Next
  <2>2. CASE \E m \in Monitor : Released(m) BY <1>2, <2>2, ReleaseRefines DEF Abstract!Next
  <2>3. CASE \A m \in Monitor : ~Launched(m) /\ ~Released(m)
    BY <1>2, <2>3, CloseRefines DEF Abstract!Next, Holders, Workers, Closed
  <2> QED BY <2>1, <2>2, <2>3
<1>3. CASE UNCHANGED vars BY <1>3 DEF vars, docker, Claims, Admitted, RunEnded
<1> QED BY <1>1, <1>2, <1>3

\* Nobody claims, works or has finished at first.
LEMMA InitRefines == Init => Abstract!Init
BY DEF Init, Abstract!Init, NoRow, Claims, Admitted, RunEnded

\* The lifecycle implements SensorClaims: claims are taken only when free,
\* workers start only under a claim of an open run, and a claim is given up
\* only when no worker is left, with its run closed and for good.
THEOREM LifecycleImplementsClaims ==
  ASSUME MaxExternal = 0
  PROVE  Spec => RefinesClaims
<1>1. TypeOK /\ ClaimInvariant /\ [Next]_vars => [Abstract!Next]_(Abstract!abstractVars) BY StepRefines
<1> QED BY <1>1, InitRefines, ClaimAlways, PTL DEF Spec, RefinesClaims, Abstract!Spec

-----------------------------------------------------------------------------
(* Launches.                                                               *)

\* A monitor that was launched, or never will be, stays so.
LEMMA SpentStays ==
  ASSUME TypeOK, IntentInvariant, Next, NEW m \in Monitor, Spent(m)
  PROVE  Spent(m)'
<1>1. RowStep(m) /\ (RunEnded(m) => RunEnded(m)') BY RowStepsOfNext, RunsOfNext DEF IntentInvariant, RowSteps
<1> QED BY <1>1 DEF RowStep, Kept, Launched, StopAsked, Released, Shown, Spent, Present

\* An agent goes on with its monitor, stops, or begins with a spent one.
Takes(a) ==
  \/ agents'[a].pc = "idle"
  \/ agents[a].pc # "idle" /\ agents'[a].mon = agents[a].mon
  \/ \E m \in Monitor : agents'[a].mon = m /\ Spent(m)'

\* The monitor of a state that an agent begins with.
LEMMA BegunMon ==
  ASSUME NEW m, NEW pc, NEW x
  PROVE  /\ Begin(m, pc).mon = m /\ Begin(m, pc).pc = pc
         /\ [Begin(m, pc) EXCEPT !.snap = x].mon = m
         /\ [Begin(m, pc) EXCEPT !.wid = x].mon = m
BY DEF Begin, Idle

\* The monitor of a removal.
LEMMA RemoveMon ==
  ASSUME NEW m, NEW w, NEW v, NEW t, NEW x
  PROVE  /\ Remove(m, w, v, t).mon = m
         /\ [Remove(m, w, v, t) EXCEPT !.snap = x].mon = m
         /\ [Remove(m, w, v, t) EXCEPT !.snap.cid = x].mon = m
BY DEF Remove, Begin, Idle

\* Requests and passes of the reconciler begin with a spent monitor.
LEMMA BeginTakes ==
  ASSUME TypeOK, IntentInvariant, LaunchInvariant, Next,
         NEW a \in Agent, Request(a) \/ Reconcile(a)
  PROVE  Takes(a)
<1>1. PICK m \in Monitor : \/ Launch(a, m) \/ Retire(a, m) \/ Cancel(a, m) \/ Pause(a, m)
                           \/ Recover(a, m) \/ SweepList(a, m) \/ Snapshot(a, m) BY DEF Request, Reconcile
<1>2. ASSUME NEW s, Become(a, s) PROVE agents'[a] = s BY <1>2 DEF Become, TypeOK
<1>3. agents'[a].mon = m
  <2> USE <1>2, BegunMon
  <2>1. CASE Launch(a, m) \/ Cancel(a, m) \/ Pause(a, m) \/ Recover(a, m)
    BY <2>1 DEF Launch, Cancel, Pause, Recover
  <2>2. CASE Retire(a, m) \/ Snapshot(a, m)
    <3>1. \E pc : agents'[a] = [Begin(m, pc) EXCEPT !.snap = Captured(rows[m])]
      BY <2>2 DEF Retire, ReadToRetire, Snapshot
    <3> QED BY <3>1 DEF Begin, Idle
  <2>3. CASE SweepList(a, m)
    <3>1. agents'[a] = [Begin(m, "sweepRead") EXCEPT !.wid = svc[m].id] BY <2>3 DEF SweepList
    <3> QED BY <3>1 DEF Begin, Idle
  <2> QED BY <1>1, <2>1, <2>2, <2>3
<1>4. Spent(m)'
  <2>1. Spent(m) => Spent(m)' BY SpentStays
  <2>2. CASE Launch(a, m) BY <2>1, <2>2 DEF Launch, Spent, Present, TypeOK
  <2>3. CASE Cancel(a, m) BY <2>3 DEF Cancel, Spent, RunEnded, TypeOK
  <2>4. CASE Pause(a, m) BY <2>1, <2>4 DEF Pause, Claims, Spent, Present, IntentInvariant, RowsConsistent
  <2>5. CASE Retire(a, m) \/ Recover(a, m) \/ Snapshot(a, m)
    BY <2>1, <2>5 DEF Retire, ReadToRetire, Recover, Snapshot, RunningIntent, Spent, Present
  <2>6. CASE SweepList(a, m) BY <2>1, <2>6 DEF SweepList, LaunchInvariant
  <2> QED BY <1>1, <2>2, <2>3, <2>4, <2>5, <2>6
<1> QED BY <1>3, <1>4 DEF Takes

\* A started agent stays with its monitor until it stops.
LEMMA ProceedTakes ==
  ASSUME TypeOK, NEW a \in Agent, Proceed(a) \/ Fault(a), NEW m, m = Mon(a)
  PROVE  Takes(a)
<1>0. AgentsTyped /\ agents[a] \in AgentState BY DEF TypeOK, AgentsTyped
<1> USE DEF At
<1>1. ASSUME agents'[a].mon = m, agents[a].pc # "idle" PROVE Takes(a) BY <1>1 DEF Takes, Mon
<1>2. ASSUME NEW s, Become(a, s), s.mon = m, agents[a].pc # "idle" PROVE Takes(a)
  BY <1>0, <1>1, <1>2 DEF Become, AgentsTyped
<1>3. ASSUME Finish(a) PROVE Takes(a) BY <1>0, <1>3 DEF Takes, Finish, Become, Idle, AgentsTyped
<1>4. ASSUME Fails(a), agents[a].pc # "idle" PROVE Takes(a) BY <1>2, <1>4, BegunMon DEF Fails
<1>5. ASSUME NEW pc, Goto(a, pc), agents[a].pc # "idle" PROVE Takes(a)
  BY <1>0, <1>1, <1>5 DEF Goto, Mon, AgentsTyped, AgentState, AgentRecord
<1>6. CASE Create(a)
  <2>1. ASSUME NEW w, NEW v, Adopt(a, w, v), agents[a].pc # "idle" PROVE Takes(a)
    <3>1. CASE agents' = [agents EXCEPT ![a].pc = "validate", ![a].wid = w]
      BY <1>0, <1>1, <2>1, <3>1 DEF Mon, AgentsTyped, AgentState, AgentRecord
    <3> QED BY <1>4, <2>1, <3>1 DEF Adopt
  <2>2. CASE ReadIntent(a)
    <3>1. CASE agents' = [agents EXCEPT ![a].pc = "find", ![a].ver = rows[Mon(a)].version]
      BY <1>0, <1>1, <2>2, <3>1 DEF ReadIntent, Mon, AgentsTyped, AgentState, AgentRecord
    <3> QED BY <1>3, <1>4, <2>2, <3>1 DEF ReadIntent
  <2>3. CASE FindWorkload(a) \/ CreateWorkload(a)
    BY <1>4, <1>5, <2>1, <2>3 DEF FindWorkload, CreateWorkload, AdoptExisting
  <2>4. CASE Validate(a) \/ Attach(a) \/ RecordFailure(a)
    BY <1>3, <1>4, <1>5, <2>4 DEF Validate, Attach, RecordFailure
  <2>5. CASE Confirm(a) BY <1>2, <1>3, <2>5, RemoveMon DEF Confirm
  <2> QED BY <1>6, <2>2, <2>3, <2>4, <2>5 DEF Create
<1>7. CASE RemoveIntent(a)
  <2>1. agents[a].pc # "idle" BY <1>7 DEF RemoveIntent, RemoveById, AwaitById, RemoveByName, AwaitByName
  <2>2. CASE agents' = [agents EXCEPT ![a].pc = "waitName", ![a].wid = svc[Mon(a)].id]
    BY <1>0, <1>1, <2>1, <2>2 DEF Mon, AgentsTyped, AgentState, AgentRecord
  <2> QED BY <1>3, <1>5, <1>7, <2>1, <2>2
    DEF RemoveIntent, RemoveById, AwaitById, RemoveByName, AwaitByName, Continue
<1>8. CASE MarkRetired(a) \/ SweepRead(a) BY <1>2, <1>3, <1>8, RemoveMon DEF MarkRetired, SweepRead
<1>9. CASE PauseRead(a) \/ Inspect(a) \/ CancelSuccessor(a)
  <2>1. agents[a].pc # "idle" BY <1>9 DEF PauseRead, Inspect, CancelSuccessor
  <2>2. ASSUME Become(a, [Remove(Mon(a), rows[Mon(a)].cid, rows[Mon(a)].version, "complete")
                            EXCEPT !.snap.cid = rows[Mon(a)].cid])
        PROVE  Takes(a)
    <3>1. agents'[a] = [Remove(Mon(a), rows[Mon(a)].cid, rows[Mon(a)].version, "complete")
                          EXCEPT !.snap.cid = rows[Mon(a)].cid] BY <1>0, <2>2 DEF Become, AgentsTyped
    <3> QED BY <1>1, <2>1, <3>1 DEF Remove, Begin, Idle
  <2>3. ASSUME Become(a, [Remove(Mon(a), agents[a].snap.cid, 0, "stopConfirmed")
                            EXCEPT !.snap = agents[a].snap])
        PROVE  Takes(a)
    <3>1. agents'[a] = [Remove(Mon(a), agents[a].snap.cid, 0, "stopConfirmed")
                          EXCEPT !.snap = agents[a].snap] BY <1>0, <2>3 DEF Become, AgentsTyped
    <3> QED BY <1>1, <2>1, <3>1 DEF Remove, Begin, Idle
  <2>4. ASSUME Become(a, [Begin(Mon(a), "mark") EXCEPT !.snap = Captured(rows[Mon(a)])])
        PROVE  Takes(a)
    <3>1. agents'[a] = [Begin(Mon(a), "mark") EXCEPT !.snap = Captured(rows[Mon(a)])]
      BY <1>0, <2>4 DEF Become, AgentsTyped
    <3> QED BY <1>1, <2>1, <3>1 DEF Begin, Idle
  <2>5. ASSUME Become(a, Remove(Mon(a), NoWorkload, 0, "idle")) PROVE Takes(a) BY <1>2, <2>1, <2>5, RemoveMon
  <2> QED
    BY <1>3, <1>5, <1>9, <2>1, <2>2, <2>3, <2>4, <2>5 DEF PauseRead, Inspect, CancelSuccessor, ReadToRetire
<1>10. CASE Purge(a) \/ Complete(a) \/ ApplyStopConfirmed(a) \/ ApplyRunning(a) \/ ApplyTerminal(a)
  BY <1>3, <1>10 DEF Purge, Complete, ApplyStopConfirmed, ApplyRunning, ApplyTerminal
<1>11. CASE Fault(a)
  BY <1>3, <1>4, <1>11 DEF Fault, AbandonCreate, CreationFails, RemovalFails, Crash, Removing
<1> QED BY <1>6, <1>7, <1>8, <1>9, <1>10, <1>11 DEF Proceed
-----------------------------------------------------------------------------
(* What a step can do to the services of a monitor.                        *)

\* Docker made a service, for an agent that asked or for a call nobody awaits.
Made(m) ==
  /\ svc[m] = NoService
  /\ created'[m] = created[m] + 1 /\ svc'[m].id = created'[m]
  /\ \/ \E a \in Agent : At(a, "create") /\ Mon(a) = m
     \/ \E i \in inflight : i[1] = m

\* An agent that removes workloads of m scaled its service down or removed it.
Reduced(m) ==
  /\ created'[m] = created[m]
  /\ svc'[m].id = svc[m].id \/ svc'[m] = NoService
  /\ svc'[m] # NoService => svc[m] # NoService
  /\ \E a \in Agent : agents[a].pc \in Removing /\ Mon(a) = m

Vanished(m) ==
  created'[m] = created[m] /\ svc'[m] = NoService /\ external' # external

SameServices(m) == created'[m] = created[m] /\ svc'[m] = svc[m]

WorkloadStep(m) == SameServices(m) \/ Made(m) \/ Reduced(m) \/ Vanished(m)

\* A create call that is given up was one of an agent.
InflightStep ==
  \A i \in inflight' : i \in inflight \/ \E a \in Agent : At(a, "create") /\ i[1] = Mon(a)

\* Docker makes a service under a free name.
LEMMA MakesWorkload ==
  ASSUME TypeOK, NEW n \in Monitor, NEW v, CanCreate(n), DockerCreate(n, v),
         \/ \E a \in Agent : At(a, "create") /\ Mon(a) = n
         \/ \E i \in inflight : i[1] = n,
         NEW m \in Monitor
  PROVE  WorkloadStep(m)
BY DEF TypeOK, CanCreate, DockerCreate, NewId, WorkloadStep, Made, SameServices, NoService

\* Services change in these ways only.
LEMMA WorkloadsOfNext ==
  ASSUME TypeOK, Next
  PROVE  InflightStep /\ \A m \in Monitor : WorkloadStep(m)
<1> DEFINE Goal == InflightStep /\ \A m \in Monitor : WorkloadStep(m)
<1>0. ASSUME UNCHANGED <<svc, created, inflight>> PROVE Goal
  BY <1>0 DEF InflightStep, WorkloadStep, SameServices
<1>1. ASSUME NEW a \in Agent, RemoveIntent(a) PROVE Goal
  <2>1. Mon(a) \in Monitor /\ agents[a].pc \in Removing BY <1>1, BusyMon
    DEF TypeOK, AgentsTyped, RemoveIntent, RemoveById, AwaitById, RemoveByName, AwaitByName, At, Removing
  <2>2. /\ UNCHANGED <<created, inflight>>
        /\ \/ UNCHANGED svc
           \/ ScaleDown(Mon(a)) /\ svc[Mon(a)] # NoService
           \/ ScaleDown(Mon(a)) /\ svc[Mon(a)].id # NoWorkload
           \/ RemoveService(a) BY <1>1 DEF RemoveIntent, RemoveById, AwaitById, RemoveByName, AwaitByName
  <2>3. ASSUME NEW m \in Monitor PROVE WorkloadStep(m)
    <3>1. created' = created /\ svc \in [Monitor -> Service] /\ svc[m] \in Service BY <2>2 DEF TypeOK
    <3>2. CASE UNCHANGED svc \/ m # Mon(a)
      BY <2>1, <2>2, <3>1, <3>2 DEF ScaleDown, RemoveService, WorkloadStep, SameServices
    <3>3. CASE RemoveService(a) /\ m = Mon(a)
      BY <2>1, <3>1, <3>3 DEF RemoveService, WorkloadStep, SameServices, Reduced
    <3>4. CASE ScaleDown(m) /\ m = Mon(a) /\ (svc[m] # NoService \/ svc[m].id # NoWorkload)
      <4>1. svc'[m] = [svc[m] EXCEPT !.up = FALSE] BY <3>1, <3>4 DEF ScaleDown
      <4>2. svc'[m].id = svc[m].id BY <3>1, <4>1 DEF Service
      <4>3. svc[m].id # NoWorkload => svc[m] # NoService BY DEF NoService
      <4> QED BY <2>1, <3>1, <3>4, <4>2, <4>3 DEF WorkloadStep, Reduced
    <3> QED BY <2>2, <3>2, <3>3, <3>4
  <2> QED BY <2>2, <2>3 DEF InflightStep
<1>2. ASSUME NEW a \in Agent, CreateWorkload(a) PROVE Goal
  <2>1. Mon(a) \in Monitor /\ At(a, "create") BY <1>2, BusyMon DEF TypeOK, AgentsTyped, CreateWorkload, At
  <2>2. /\ UNCHANGED inflight
        /\ \/ UNCHANGED <<svc, created>>
           \/ CanCreate(Mon(a)) /\ DockerCreate(Mon(a), agents[a].ver) BY <1>2 DEF CreateWorkload
  <2> QED BY <1>0, <2>1, <2>2, MakesWorkload DEF InflightStep
<1>3. ASSUME NEW a \in Agent, Create(a) PROVE Goal
  BY <1>0, <1>2, <1>3 DEF Create, ReadIntent, FindWorkload, Validate, Attach, Confirm, RecordFailure, docker
<1>4. ASSUME NEW a \in Agent, Request(a) \/ Reconcile(a) PROVE Goal BY <1>0, <1>4
  DEF Request, Reconcile, Launch, Retire, Cancel, Pause, Recover, SweepList, Snapshot, docker
<1>5. ASSUME NEW a \in Agent, Fault(a) PROVE Goal
  <2>1. CASE AbandonCreate(a) BY <2>1 DEF AbandonCreate, InflightStep, WorkloadStep, SameServices
  <2> QED BY <1>0, <1>5, <2>1 DEF Fault, CreationFails, RemovalFails, Crash, docker
<1>6. ASSUME NEW a \in Agent, Proceed(a) PROVE Goal BY <1>0, <1>1, <1>3, <1>6
  DEF Proceed, MarkRetired, Purge, CancelSuccessor, PauseRead, Complete, SweepRead, Inspect,
      ApplyStopConfirmed, ApplyRunning, ApplyTerminal, docker
<1>7. ASSUME NEW n \in Monitor, StopFailed(n) \/ TaskStarts(n) \/ Worker(n) PROVE Goal BY <1>0, <1>7
  DEF StopFailed, TaskStarts, Worker, Admit, TaskEnds, WorkerFails, Heartbeat, docker
<1>8. ASSUME NEW i \in inflight, DelayedCreate(i[1], i[2]) PROVE Goal
  <2>1. i[1] \in Monitor BY DEF TypeOK
  <2>2. /\ inflight' \subseteq inflight
        /\ \/ UNCHANGED <<svc, created>>
           \/ CanCreate(i[1]) /\ DockerCreate(i[1], i[2]) BY <1>8 DEF DelayedCreate
  <2>3. ASSUME NEW m \in Monitor PROVE WorkloadStep(m)
    BY <2>1, <2>2, MakesWorkload DEF WorkloadStep, SameServices
  <2> QED BY <2>2, <2>3 DEF InflightStep
<1>9. ASSUME NEW n \in Monitor, ExternalRemove(n) PROVE Goal
  <2>1. external' # external BY <1>9 DEF ExternalRemove, TypeOK
  <2> QED BY <1>9, <2>1 DEF ExternalRemove, TypeOK, InflightStep, WorkloadStep, SameServices, Vanished
<1> HIDE DEF Goal
<1>10. Goal BY <1>4, <1>5, <1>6, <1>7, <1>8, <1>9 DEF Next
<1> QED BY <1>10 DEF Goal

-----------------------------------------------------------------------------
(* Nothing exists, and nobody works, for a monitor before its launch.      *)

\* An agent whose state changes has acted.
LEMMA OnlyActorsMove ==
  ASSUME TypeOK, Next, NEW a \in Agent, agents'[a] # agents[a]
  PROVE  AgentAction(a)
<1>1. CASE \E b \in Agent : AgentAction(b)
  <2>1. PICK b \in Agent : AgentAction(b) BY <1>1
  <2>2. a = b BY <2>1, AgentMoves DEF Moves, TypeOK
  <2> QED BY <2>1, <2>2
<1>2. CASE ~\E b \in Agent : AgentAction(b)
  BY <1>2 DEF Next, AgentAction, StopFailed, TaskStarts, Worker, Admit, TaskEnds,
              WorkerFails, Heartbeat, ExternalRemove, DelayedCreate
<1> QED BY <1>1, <1>2

\* Whoever is busy after a step is busy with a spent monitor.
LEMMA BusySpent ==
  ASSUME TypeOK, IntentInvariant, LaunchInvariant, Next, NEW a \in Agent, agents'[a].pc # "idle"
  PROVE  Spent(Mon(a))'
<1>0. PICK m : m = Mon(a) OBVIOUS
<1>1. agents[a].pc # "idle" => m \in Monitor /\ Spent(m)
  BY <1>0, BusyMon DEF TypeOK, AgentsTyped, LaunchInvariant, At
<1>2. agents[a].pc # "idle" => Spent(m)' BY <1>1, SpentStays
<1>3. ASSUME NEW n, Mon(a)' = n, Spent(n)' PROVE Spent(Mon(a))' BY <1>3 DEF Spent, Present, RunEnded
<1>4. CASE Takes(a)
  <2>1. CASE agents[a].pc # "idle" /\ agents'[a].mon = agents[a].mon BY <1>0, <1>2, <1>3, <2>1 DEF Mon
  <2>2. CASE \E n \in Monitor : agents'[a].mon = n /\ Spent(n)' BY <1>3, <2>2 DEF Mon
  <2> QED BY <1>4, <2>1, <2>2 DEF Takes
<1>5. CASE agents'[a] = agents[a] BY <1>0, <1>2, <1>3, <1>5 DEF Mon
<1>6. CASE AgentAction(a) BY <1>0, <1>4, <1>6, BeginTakes, ProceedTakes DEF AgentAction
<1> QED BY <1>5, <1>6, OnlyActorsMove

\* The invariant of launches is inductive.
LEMMA LaunchInductive ==
  ASSUME TypeOK, IntentInvariant, LaunchInvariant, [Next]_vars
  PROVE  LaunchInvariant'
<1>1. CASE UNCHANGED vars BY <1>1 DEF vars, docker, LaunchInvariant, Spent, Present, RunEnded, At, Mon
<1>2. CASE Next
  <2>1. ASSUME NEW m \in Monitor, Spent(m) PROVE Spent(m)' BY <1>2, <2>1, SpentStays
  <2>2. \A a \in Agent : At(a, "create") => Mon(a) \in Monitor /\ Spent(Mon(a))
    BY BusyMon DEF TypeOK, AgentsTyped, LaunchInvariant, At
  <2>3. ASSUME NEW m \in Monitor, created'[m] > 0 PROVE Spent(m)' BY <1>2, <2>1, <2>2, <2>3, WorkloadsOfNext
    DEF WorkloadStep, SameServices, Made, Reduced, Vanished, LaunchInvariant
  <2>4. ASSUME NEW m \in Monitor, svc'[m] # NoService
        PROVE  created'[m] > 0 /\ svc'[m].id # NoWorkload
    <3>1. created[m] \in Nat /\ (svc[m] # NoService => created[m] > 0 /\ svc[m].id # NoWorkload)
      BY DEF TypeOK, LaunchInvariant
    <3> QED
      BY <1>2, <2>4, <3>1, WorkloadsOfNext DEF WorkloadStep, SameServices, Made, Reduced, Vanished, NoWorkload
  <2>5. ASSUME NEW i \in inflight' PROVE Spent(i[1])'
    <3>1. \A j \in inflight : j[1] \in Monitor /\ Spent(j[1]) BY DEF TypeOK, LaunchInvariant
    <3>2. i[1] \in Monitor /\ Spent(i[1]) BY <1>2, <2>2, <3>1, WorkloadsOfNext DEF InflightStep
    <3> QED BY <2>1, <3>2 DEF Spent, Present, RunEnded
  <2>6. \A a \in Agent : agents'[a].pc # "idle" => Spent(Mon(a))' BY <1>2, BusySpent
  <2> QED BY <2>3, <2>4, <2>5, <2>6 DEF LaunchInvariant, At
<1> QED BY <1>1, <1>2

\* Before the first launch nothing was made and nobody is busy.
LEMMA InitLaunch == Init => LaunchInvariant
BY DEF Init, LaunchInvariant, Idle, At

\* Every state of the lifecycle satisfies the invariant of launches.
LEMMA LaunchAlways == Spec => [](TypeOK /\ IntentInvariant /\ LaunchInvariant)
<1>1. Init => TypeOK /\ IntentInvariant /\ LaunchInvariant BY InitTypes, InitIntent, InitLaunch
<1>2. TypeOK /\ IntentInvariant /\ LaunchInvariant /\ [Next]_vars
        => (TypeOK /\ IntentInvariant /\ LaunchInvariant)' BY IntentInductive, LaunchInductive
<1> QED BY <1>1, <1>2, PTL DEF Spec

Revival(m) ==
  rows'[m].desired = "running" /\ rows[m].desired # "running" => created[m] = 0

\* Only a monitor that never had a workload starts to want one, whatever
\* agents read before, whatever creations come late, and even if services are
\* removed from outside: the orphan sweep may read the intents after its list.
THEOREM NeverRevived == Spec => NoRevival
<1>1. ASSUME TypeOK, IntentInvariant, LaunchInvariant, Next, NEW m \in Monitor
      PROVE  Revival(m)
  <2>1. RowStep(m) BY <1>1, RowStepsOfNext DEF IntentInvariant, RowSteps
  <2>2. created[m] \in Nat /\ (created[m] > 0 => Spent(m)) BY <1>1 DEF TypeOK, LaunchInvariant
  <2>3. Launched(m) => created[m] = 0 BY <2>2 DEF Launched, Spent
  <2> QED BY <2>1, <2>3 DEF RowStep, Kept, StopAsked, Released, Shown, Revival
<1>2. TypeOK /\ IntentInvariant /\ LaunchInvariant /\ [Next]_vars
        => [\A m \in Monitor :
              rows'[m].desired = "running" /\ rows[m].desired # "running" => created[m] = 0]_vars
  BY <1>1 DEF Revival
<1> QED BY <1>2, LaunchAlways, PTL DEF Spec, NoRevival

-----------------------------------------------------------------------------
(* Snapshots and the stage on record.                                      *)

\* The stage on record of a row that is there stays, or no agent that worked
\* on the monitor holds a fresh snapshot any more.
StageStep(m) ==
  \/ rows'[m].stage = rows[m].stage /\ (Present(m)' => Present(m))
  \/ ~Present(m)'
  \/ ~Spent(m)
  \/ \A a \in fresh' : Mon(a) # m

\* The ways to write one row.
LEMMA StageWritten ==
  ASSUME TypeOK, NEW n \in Monitor, NEW r, rows' = [rows EXCEPT ![n] = r],
         \/ r.stage = rows[n].stage /\ Present(n)
         \/ r = NoRow
         \/ ~Spent(n)
         \/ Touch(n),
         NEW m \in Monitor
  PROVE  StageStep(m)
<1>1. CASE m # n BY <1>1 DEF TypeOK, StageStep, Present
<1>2. CASE m = n BY <1>2 DEF TypeOK, StageStep, Present, NoRow, Touch, Mon
<1> QED BY <1>1, <1>2

\* Every step keeps the stage on record, or makes the snapshots stale.
LEMMA StagesOfNext ==
  ASSUME TypeOK, RowsConsistent, Next
  PROVE  \A m \in Monitor : StageStep(m)
<1> DEFINE Goal == \A m \in Monitor : StageStep(m)
<1>0. ASSUME UNCHANGED rows PROVE Goal BY <1>0 DEF StageStep, Present
<1>1. ASSUME NEW n \in Monitor, NEW r, rows' = [rows EXCEPT ![n] = r],
             \/ r.stage = rows[n].stage /\ Present(n)
             \/ r = NoRow
             \/ ~Spent(n)
             \/ Touch(n)
      PROVE  Goal BY <1>1, StageWritten
<1>2. \A n \in Monitor : rows[n] \in Row BY DEF TypeOK
<1>3. ASSUME NEW n \in Monitor, rows' = [rows EXCEPT ![n] = RequestStop(@)], Present(n) PROVE Goal
  <2>1. rows' = [rows EXCEPT ![n] = RequestStop(rows[n])] BY <1>3
  <2>2. RequestStop(rows[n]).stage = rows[n].stage BY <1>2 DEF RequestStop, Row
  <2> QED BY <1>1, <1>3, <2>1, <2>2
<1>4. ASSUME NEW a \in Agent, Request(a) PROVE Goal
  <2>1. PICK n \in Monitor : Launch(a, n) \/ Retire(a, n) \/ Cancel(a, n) \/ Pause(a, n) BY <1>4 DEF Request
  <2>2. CASE Launch(a, n) BY <1>0, <1>1, <2>2 DEF Launch, Spent
  <2>3. CASE Pause(a, n) BY <1>3, <2>3 DEF Pause, Claims, Present, RowsConsistent
  <2> QED BY <1>0, <2>1, <2>2, <2>3 DEF Retire, Cancel
<1>5. ASSUME NEW a \in Agent, Create(a) PROVE Goal
  <2>1. CASE Attach(a)
    <3>1. PICK w : rows' = [rows EXCEPT ![Mon(a)].cid = w] BY <2>1 DEF Attach
    <3>2. rows' = rows \/ RunningIntent(Mon(a))
      <4>1. Mon(a) \in Monitor BY <2>1, BusyMon DEF TypeOK, AgentsTyped, Attach, At
      <4> QED BY <1>2, <2>1, <4>1 DEF Attach, TypeOK, Row
    <3>3. Mon(a) \in Monitor BY <2>1, BusyMon DEF TypeOK, AgentsTyped, Attach, At
    <3>4. rows' = [rows EXCEPT ![Mon(a)] = [rows[Mon(a)] EXCEPT !.cid = w]] BY <3>1
    <3>5. [rows[Mon(a)] EXCEPT !.cid = w].stage = rows[Mon(a)].stage BY <1>2, <3>3 DEF Row
    <3>6. RunningIntent(Mon(a)) => Present(Mon(a)) BY DEF RunningIntent, Present
    <3> QED BY <1>0, <1>1, <3>2, <3>3, <3>4, <3>5, <3>6
  <2>2. CASE RecordFailure(a)
    <3>1. Mon(a) \in Monitor BY <2>2, BusyMon DEF TypeOK, AgentsTyped, RecordFailure, At
    <3>2. \/ UNCHANGED rows
          \/ Touch(Mon(a)) /\ rows' = [rows EXCEPT ![Mon(a)] = [rows[Mon(a)] EXCEPT !.stage = "terminal"]]
      BY <2>2 DEF RecordFailure
    <3> QED BY <1>0, <1>1, <3>1, <3>2
  <2> QED BY <1>0, <1>5, <2>1, <2>2 DEF Create, ReadIntent, FindWorkload, CreateWorkload, Validate, Confirm
<1>6. ASSUME NEW a \in Agent, RemoveIntent(a) \/ Reconcile(a) \/ Fault(a) PROVE Goal BY <1>0, <1>6
  DEF RemoveIntent, RemoveById, AwaitById, RemoveByName, AwaitByName,
      Reconcile, Recover, SweepList, Snapshot,
      Fault, AbandonCreate, CreationFails, RemovalFails, Crash
<1>7. ASSUME NEW a \in Agent, MarkRetired(a) PROVE Goal
  <2>1. PICK r : r = MarkDeleting(agents[a].snap) OBVIOUS
  <2>2. CASE UNCHANGED rows BY <1>0, <2>2
  <2>3. CASE /\ Present(Mon(a))
             /\ rows' = [rows EXCEPT ![Mon(a)].desired = r.desired, ![Mon(a)].stop = r.stop,
                                     ![Mon(a)].version = r.version]
    <3>1. Mon(a) \in Monitor BY <1>7, BusyMon DEF TypeOK, AgentsTyped, MarkRetired, At
    <3>2. PICK q : q = [rows[Mon(a)] EXCEPT !.desired = r.desired, !.stop = r.stop, !.version = r.version]
      OBVIOUS
    <3>3. rows' = [rows EXCEPT ![Mon(a)] = q] BY <1>2, <2>3, <3>1, <3>2 DEF TypeOK
    <3>4. q.stage = rows[Mon(a)].stage BY <1>2, <3>1, <3>2 DEF Row
    <3> QED BY <1>1, <2>3, <3>1, <3>3, <3>4
  <2> QED BY <1>7, <2>1, <2>2, <2>3 DEF MarkRetired
<1>8. ASSUME NEW a \in Agent, Purge(a) \/ Complete(a) \/ ApplyStopConfirmed(a) PROVE Goal
  <2>1. Mon(a) \in Monitor BY <1>8, BusyMon DEF TypeOK, AgentsTyped, Purge, Complete, ApplyStopConfirmed, At
  <2>2. UNCHANGED rows \/ PurgeRow(Mon(a)) \/ (CompleteRow(Mon(a)) /\ Touch(Mon(a)))
    BY <1>8 DEF Purge, Complete, ApplyStopConfirmed
  <2> QED BY <1>0, <1>1, <2>1, <2>2 DEF PurgeRow, CompleteRow
<1>9. ASSUME NEW a \in Agent, ApplyRunning(a) \/ ApplyTerminal(a) PROVE Goal
  <2>1. Mon(a) \in Monitor BY <1>9, BusyMon DEF TypeOK, AgentsTyped, ApplyRunning, ApplyTerminal, At
  <2>2. UNCHANGED rows \/ (Touch(Mon(a)) /\ \E r : rows' = [rows EXCEPT ![Mon(a)] = r])
    BY <1>9 DEF ApplyRunning, ApplyTerminal, FailAbandoned
  <2> QED BY <1>0, <1>1, <2>1, <2>2
<1>10. ASSUME NEW a \in Agent, CancelSuccessor(a) \/ PauseRead(a) \/ SweepRead(a) \/ Inspect(a)
       PROVE  Goal BY <1>0, <1>10 DEF CancelSuccessor, PauseRead, SweepRead, Inspect
<1>11. ASSUME NEW n \in Monitor, StopFailed(n) \/ TaskStarts(n) \/ Worker(n) \/ ExternalRemove(n)
       PROVE  Goal
  <2>1. CASE StopFailed(n) BY <1>3, <2>1 DEF StopFailed, RunningIntent, Present
  <2>2. CASE Worker(n)
    <3>1. UNCHANGED rows \/ (Touch(n) /\ \E r : rows' = [rows EXCEPT ![n] = r])
      BY <2>2 DEF Worker, Admit, TaskEnds, WorkerFails, Heartbeat
    <3> QED BY <1>0, <1>1, <3>1
  <2> QED BY <1>0, <1>11, <2>1, <2>2 DEF TaskStarts, ExternalRemove
<1>12. ASSUME NEW i \in inflight, DelayedCreate(i[1], i[2]) PROVE Goal BY <1>0, <1>12 DEF DelayedCreate
<1> HIDE DEF Goal
<1>13. ASSUME NEW a \in Agent, Proceed(a) PROVE Goal BY <1>5, <1>6, <1>7, <1>8, <1>9, <1>10, <1>13 DEF Proceed
<1>14. Goal BY <1>4, <1>6, <1>11, <1>12, <1>13 DEF Next
<1> QED BY <1>14 DEF Goal

Following == {"inspect", "stopConfirmed"} \cup Observed \cup Removing

\* An agent whose snapshot stays fresh writes no row, and keeps its snapshot or
\* has just taken it.
FreshStep(a) ==
  /\ UNCHANGED rows
  /\ agents'[a].pc \in Following
  /\ agents'[a].pc \in Removing => agents'[a].then = "stopConfirmed"
  /\ \/ a \in fresh /\ agents'[a].mon = agents[a].mon /\ agents'[a].snap = agents[a].snap
     \/ agents'[a].snap = Captured(rows[agents'[a].mon]) /\ agents'[a].mon \in Monitor

\* A removal that follows a fresh snapshot goes on to complete the stop.
LEMMA FreshRemoves ==
  ASSUME TypeOK, SnapshotsFresh, NEW a \in Agent, a \in fresh', RemoveIntent(a)
  PROVE  FreshStep(a)
<1>0. AgentsTyped /\ agents[a] \in AgentState BY DEF TypeOK, AgentsTyped
<1>1. UNCHANGED rows /\ a \in fresh BY DEF RemoveIntent, RemoveById, AwaitById, RemoveByName, AwaitByName
<1>2. agents[a].then = "stopConfirmed"
  BY <1>1 DEF RemoveIntent, RemoveById, AwaitById, RemoveByName, AwaitByName, At,
              SnapshotsFresh, Removing
<1>3. ASSUME NEW pc, Goto(a, pc), pc \in Following PROVE FreshStep(a)
  <2>1. /\ agents'[a].pc = pc /\ agents'[a].then = agents[a].then
        /\ agents'[a].mon = agents[a].mon /\ agents'[a].snap = agents[a].snap
    BY <1>0, <1>3 DEF Goto, AgentsTyped, AgentState, AgentRecord
  <2> QED BY <1>1, <1>2, <1>3, <2>1 DEF FreshStep
<1>4. CASE agents' = [agents EXCEPT ![a].pc = "waitName", ![a].wid = svc[Mon(a)].id]
  <2>1. /\ agents'[a].pc = "waitName" /\ agents'[a].then = agents[a].then
        /\ agents'[a].mon = agents[a].mon /\ agents'[a].snap = agents[a].snap
    BY <1>0, <1>4 DEF AgentsTyped, AgentState, AgentRecord
  <2> QED BY <1>1, <1>2, <2>1 DEF FreshStep, Following, Removing
<1>5. {"removeName", "waitId", "stopConfirmed"} \subseteq Following BY DEF Following, Removing
<1> QED BY <1>2, <1>3, <1>4, <1>5 DEF RemoveIntent, RemoveById, AwaitById, RemoveByName, AwaitByName, Continue

\* An inspection keeps the snapshot, or gives it up.
LEMMA FreshInspects ==
  ASSUME TypeOK, NEW a \in Agent, a \in fresh', Inspect(a)
  PROVE  FreshStep(a)
<1>0. /\ AgentsTyped /\ agents[a] \in AgentState /\ a \in fresh
      /\ UNCHANGED rows BY DEF TypeOK, AgentsTyped, Inspect
<1>1. PICK s : s = agents[a].snap OBVIOUS
<1>2. CASE Become(a, [Remove(Mon(a), s.cid, 0, "stopConfirmed") EXCEPT !.snap = s])
  <2>1. agents'[a] = [Remove(Mon(a), s.cid, 0, "stopConfirmed") EXCEPT !.snap = s]
    BY <1>0, <1>2 DEF Become, AgentsTyped
  <2>2. /\ agents'[a].pc = "removeId" /\ agents'[a].then = "stopConfirmed"
        /\ agents'[a].mon = Mon(a) /\ agents'[a].snap = s BY <2>1 DEF Remove, Begin, Idle
  <2> QED BY <1>0, <1>1, <2>2 DEF FreshStep, Following, Removing, Mon
<1>3. CASE \E seen \in {"sawRunning", "sawTerminal"} : Goto(a, seen)
  <2>1. /\ agents'[a].pc \in {"sawRunning", "sawTerminal"}
        /\ agents'[a].mon = agents[a].mon /\ agents'[a].snap = agents[a].snap
    BY <1>0, <1>3 DEF Goto, AgentsTyped, AgentState, AgentRecord
  <2> QED BY <1>0, <2>1 DEF FreshStep, Following, Observed, Removing
<1>4. ASSUME NEW seen \in (IF s.cid = NoWorkload THEN {"idle"} ELSE DockerStatus(Mon(a), s.cid))
      PROVE  seen \in {"idle", "sawRunning", "sawTerminal"}
  <2>1. Mon(a) \in Monitor /\ s.cid \in Workload \cup {NoWorkload}
    BY <1>0, <1>1, BusyMon DEF Inspect, At, AgentState, AgentRecord, Row
  <2> QED BY <1>4, <2>1 DEF DockerStatus, TaskState, TypeOK
<1> QED BY <1>1, <1>2, <1>3, <1>4 DEF Inspect

\* What an agent with a fresh snapshot does.
LEMMA FreshActs ==
  ASSUME TypeOK, SnapshotsFresh, NEW a \in Agent, a \in fresh', AgentAction(a)
  PROVE  FreshStep(a)
<1>0. a \in fresh => agents[a].pc \in Following BY DEF SnapshotsFresh, Following
<1>1. ASSUME Request(a) PROVE FALSE BY <1>0, <1>1
  DEF Request, Launch, Retire, Cancel, Pause, Idle, Following, Observed, Removing
<1>2. CASE Reconcile(a)
  <2>1. PICK m \in Monitor : Recover(a, m) \/ SweepList(a, m) \/ Snapshot(a, m) BY <1>2 DEF Reconcile
  <2>2. ASSUME Recover(a, m) \/ SweepList(a, m) PROVE FALSE
    BY <1>0, <2>2 DEF Recover, SweepList, Idle, Following, Observed, Removing
  <2>3. agents'[a] = [Begin(m, "inspect") EXCEPT !.snap = Captured(rows[m])] /\ UNCHANGED rows
    BY <2>1, <2>2 DEF Snapshot, Become, TypeOK
  <2>4. /\ agents'[a].pc = "inspect" /\ agents'[a].mon = m
        /\ agents'[a].snap = Captured(rows[m]) BY <2>3 DEF Begin, Idle
  <2> QED BY <2>3, <2>4 DEF FreshStep, Following, Removing
<1>3. ASSUME Create(a) PROVE FALSE BY <1>0, <1>3
  DEF Create, ReadIntent, FindWorkload, CreateWorkload, Validate, Attach, Confirm, RecordFailure, Touch,
      docker, At, Following, Observed, Removing
<1>4. ASSUME Fault(a) PROVE FALSE BY <1>0, <1>4
  DEF Fault, AbandonCreate, CreationFails, RemovalFails, Crash, At, Following, Observed, Removing
<1>5. ASSUME \/ MarkRetired(a) \/ CancelSuccessor(a) \/ PauseRead(a) \/ SweepRead(a)
             \/ Purge(a) \/ Complete(a)
      PROVE  FALSE BY <1>0, <1>5
  DEF MarkRetired, CancelSuccessor, PauseRead, SweepRead, Purge, Complete, Touch,
      At, Following, Observed, Removing
<1>6. ASSUME ApplyStopConfirmed(a) \/ ApplyRunning(a) \/ ApplyTerminal(a) PROVE FALSE
  BY <1>6 DEF ApplyStopConfirmed, ApplyRunning, ApplyTerminal, Touch, Mon
<1> QED BY <1>1, <1>2, <1>3, <1>4, <1>5, <1>6, FreshRemoves, FreshInspects DEF AgentAction, Proceed

\* Only an agent that acts gets a fresh snapshot.
LEMMA OnlyActorsRefresh ==
  ASSUME TypeOK, Next, NEW a \in Agent, ~AgentAction(a), a \in fresh'
  PROVE  a \in fresh
<1>1. ASSUME NEW b \in Agent, AgentAction(b), b # a PROVE a \in fresh
  <2>1. CASE Request(b) \/ Reconcile(b) \/ Fault(b) BY <1>1, <2>1
    DEF Request, Launch, Retire, Cancel, Pause, Reconcile, Recover, SweepList, Snapshot,
        Fault, AbandonCreate, CreationFails, RemovalFails, Crash
  <2>2. CASE Create(b) \/ RemoveIntent(b) BY <2>2
    DEF Create, ReadIntent, FindWorkload, CreateWorkload, Validate, Attach, Confirm, RecordFailure, Touch,
        RemoveIntent, RemoveById, AwaitById, RemoveByName, AwaitByName
  <2>3. CASE Proceed(b) BY <2>2, <2>3
    DEF Proceed, MarkRetired, Purge, CancelSuccessor, PauseRead, Complete, SweepRead, Inspect, Touch,
        ApplyStopConfirmed, ApplyRunning, ApplyTerminal
  <2> QED BY <1>1, <2>1, <2>3 DEF AgentAction
<1>2. ASSUME NEW m \in Monitor, StopFailed(m) \/ TaskStarts(m) \/ Worker(m) \/ ExternalRemove(m)
      PROVE  a \in fresh
  BY <1>2 DEF StopFailed, TaskStarts, ExternalRemove, Worker, Admit, TaskEnds, WorkerFails, Heartbeat, Touch
<1>3. ASSUME NEW i \in inflight, DelayedCreate(i[1], i[2]) PROVE a \in fresh BY <1>3 DEF DelayedCreate
<1> QED BY <1>1, <1>2, <1>3 DEF Next, AgentAction

\* The invariant of snapshots is inductive.
LEMMA SnapshotsInductive ==
  ASSUME TypeOK, IntentInvariant, LaunchInvariant, SnapshotsFresh, [Next]_vars
  PROVE  SnapshotsFresh'
<1> SUFFICES ASSUME NEW a \in fresh'
             PROVE  /\ agents'[a].pc \in Following
                    /\ agents'[a].pc \in Removing => agents'[a].then = "stopConfirmed"
                    /\ rows'[agents'[a].mon].desired # "absent"
                         => rows'[agents'[a].mon].stage = agents'[a].snap.stage
  BY DEF SnapshotsFresh, Following, Present, Mon
<1>0. a \in fresh => /\ a \in Agent /\ agents[a].pc \in Following
                     /\ agents[a].pc \in Removing => agents[a].then = "stopConfirmed"
                     /\ Present(Mon(a)) => rows[Mon(a)].stage = agents[a].snap.stage
  BY DEF SnapshotsFresh, Following, TypeOK
<1>1. CASE UNCHANGED vars BY <1>0, <1>1 DEF vars, docker, Present, Mon
<1>2. CASE Next
  <2>1. a \in Agent BY <1>2, AgentsOfNext
  <2>2. CASE AgentAction(a)
    <3>1. FreshStep(a) BY <2>1, <2>2, FreshActs
    <3>2. CASE a \in fresh /\ agents'[a].mon = agents[a].mon /\ agents'[a].snap = agents[a].snap
      BY <1>0, <3>1, <3>2 DEF FreshStep, Present, Mon
    <3>3. CASE agents'[a].snap = Captured(rows[agents'[a].mon]) /\ agents'[a].mon \in Monitor
      <4>1. Captured(rows[agents'[a].mon]).stage = rows[agents'[a].mon].stage
        BY <3>3 DEF TypeOK, Row, Captured
      <4> QED BY <3>1, <3>3, <4>1 DEF FreshStep
    <3> QED BY <3>1, <3>2, <3>3 DEF FreshStep
  <2>3. CASE ~AgentAction(a)
    <3>1. agents'[a] = agents[a] BY <1>2, <2>1, <2>3, OnlyActorsMove
    <3>2. a \in fresh BY <1>2, <2>1, <2>3, OnlyActorsRefresh
    <3>3. PICK m : m = Mon(a) OBVIOUS
    <3>4. m \in Monitor /\ Spent(m) BY <1>0, <3>2, <3>3, BusyMon
      DEF TypeOK, AgentsTyped, LaunchInvariant, At, Following, Observed, Removing
    <3>5. StageStep(m) BY <1>2, <3>4, StagesOfNext DEF IntentInvariant
    <3>6. Present(m)' => rows'[m].stage = agents[a].snap.stage BY <1>0, <3>2, <3>3, <3>4, <3>5 DEF StageStep
    <3> QED BY <1>0, <3>1, <3>2, <3>3, <3>6 DEF Present, Mon
  <2> QED BY <2>2, <2>3
<1> QED BY <1>1, <1>2

\* Only giving a worker up stops a monitor and fails its run in one step.
LEMMA OnlyAbandonedFail ==
  ASSUME TypeOK, SnapshotsFresh, Next, NEW m \in Monitor,
         RunningIntent(m), runs[m] = "open", rows'[m].desired = "stopped", runs'[m] = "failed"
  PROVE  rows[m].stage = "terminal"
<1>0. rows[m] \in Row /\ rows[m].desired = "running" /\ rows' # rows /\ runs' # runs
  BY DEF TypeOK, RunningIntent
<1>1. ASSUME NEW a \in Agent, Request(a) \/ Reconcile(a) \/ Fault(a) PROVE FALSE BY <1>0, <1>1
  DEF Request, Launch, Retire, Cancel, Pause, Reconcile, Recover, SweepList, Snapshot,
      Fault, AbandonCreate, CreationFails, RemovalFails, Crash
<1>2. ASSUME NEW a \in Agent, Create(a) \/ RemoveIntent(a) PROVE FALSE BY <1>0, <1>2
  DEF Create, ReadIntent, FindWorkload, CreateWorkload, Validate, Attach, Confirm, RecordFailure,
      RemoveIntent, RemoveById, AwaitById, RemoveByName, AwaitByName
<1>3. ASSUME NEW a \in Agent, Purge(a) \/ Complete(a) \/ ApplyStopConfirmed(a) PROVE FALSE
  <2>1. CompleteStoppedRun(Mon(a))
    BY <1>0, <1>3 DEF Purge, Complete, ApplyStopConfirmed, PurgeRow, CompleteRow
  <2> QED BY <2>1 DEF CompleteStoppedRun, TypeOK
<1>4. ASSUME NEW a \in Agent, ApplyTerminal(a) PROVE rows[m].stage = "terminal"
  <2>1. /\ a \in fresh /\ agents[a].snap.stage = "terminal"
        /\ rows' = [rows EXCEPT ![Mon(a)] = [RequestStop(@) EXCEPT !.stage = "terminal"]]
    BY <1>0, <1>4 DEF ApplyTerminal, NewerEvidence, Abandoned, FailAbandoned
  <2>2. Mon(a) = m BY <1>0, <2>1 DEF TypeOK
  <2>3. Present(m) BY <1>0 DEF Present
  <2> QED BY <2>1, <2>2, <2>3 DEF SnapshotsFresh
<1>5. ASSUME NEW n \in Monitor, Worker(n) PROVE FALSE
  <2>1. \E s : rows' = [rows EXCEPT ![n].stage = s]
    BY <1>0, <1>5 DEF Worker, Admit, TaskEnds, WorkerFails, Heartbeat
  <2>2. PICK s : rows' = [rows EXCEPT ![n].stage = s] BY <2>1
  <2>3. rows'[m].desired = rows[m].desired BY <1>0, <2>2 DEF TypeOK, Row
  <2> QED BY <1>0, <2>3
<1>6. ASSUME NEW n \in Monitor, StopFailed(n) \/ TaskStarts(n) \/ ExternalRemove(n) PROVE FALSE
  BY <1>0, <1>6 DEF StopFailed, TaskStarts, ExternalRemove
<1>7. ASSUME NEW i \in inflight, DelayedCreate(i[1], i[2]) PROVE FALSE BY <1>0, <1>7 DEF DelayedCreate
<1>8. ASSUME NEW a \in Agent, Proceed(a) PROVE rows[m].stage = "terminal" BY <1>0, <1>2, <1>3, <1>4, <1>8
  DEF Proceed, MarkRetired, CancelSuccessor, PauseRead, SweepRead, Inspect, ApplyRunning
<1> QED BY <1>1, <1>5, <1>6, <1>7, <1>8 DEF Next

\* At first no agent has a snapshot.
LEMMA InitSnapshots == Init => SnapshotsFresh
BY DEF Init, SnapshotsFresh

\* Every state of the lifecycle satisfies the invariant of snapshots.
LEMMA SnapshotsAlways == Spec => [](TypeOK /\ IntentInvariant /\ LaunchInvariant /\ SnapshotsFresh)
<1>1. Init => SnapshotsFresh BY InitSnapshots
<1>2. TypeOK /\ IntentInvariant /\ LaunchInvariant /\ SnapshotsFresh /\ [Next]_vars
        => SnapshotsFresh' BY SnapshotsInductive
<1> QED BY <1>1, <1>2, LaunchAlways, PTL DEF Spec

Evidenced(m) ==
  RunningIntent(m) /\ runs[m] = "open"
    /\ rows'[m].desired = "stopped" /\ runs'[m] = "failed"
    => rows[m].stage = "terminal"

\* The reconciler stops and fails a worker it believes lost only while the
\* stage on record is terminal: a heartbeat after its snapshot makes the
\* snapshot stale, and nothing else brings the row back under that snapshot.
THEOREM HeartbeatWins == Spec => NoFailureOverHeartbeat
<1>1. ASSUME TypeOK, SnapshotsFresh, Next, NEW m \in Monitor
      PROVE  Evidenced(m) BY <1>1, OnlyAbandonedFail DEF Evidenced
<1>2. TypeOK /\ IntentInvariant /\ LaunchInvariant /\ SnapshotsFresh /\ [Next]_vars
        => [\A m \in Monitor :
              RunningIntent(m) /\ runs[m] = "open"
                /\ rows'[m].desired = "stopped" /\ runs'[m] = "failed"
                => rows[m].stage = "terminal"]_vars BY <1>1 DEF Evidenced
<1> QED BY <1>2, SnapshotsAlways, PTL DEF Spec, NoFailureOverHeartbeat

-----------------------------------------------------------------------------
(* The workload and the version of a row.                                  *)

\* A row gets a workload from the agent that attaches one, and loses it with
\* the row; a row that should run keeps the version of its launch.
AttachStep(m) ==
  /\ \/ rows'[m].cid = rows[m].cid
     \/ rows'[m].cid = NoWorkload /\ (~Present(m)' \/ ~Spent(m))
     \/ \E a \in Agent : /\ At(a, "attach") /\ Mon(a) = m
                         /\ rows[m].cid = NoWorkload /\ rows'[m].cid = agents[a].wid
  /\ RunningIntent(m)' =>
       \/ RunningIntent(m) /\ rows'[m].version = rows[m].version
       \/ ~Spent(m) /\ rows'[m].version = 1 /\ rows'[m].cid = NoWorkload

\* Writes that leave the workload alone.
LEMMA AttachKept ==
  ASSUME TypeOK, NEW n \in Monitor, NEW r, rows' = [rows EXCEPT ![n] = r],
         \/ r = NoRow
         \/ /\ r.cid = rows[n].cid
            /\ \/ r.desired # "running"
               \/ r.desired = rows[n].desired /\ r.stop = rows[n].stop /\ r.version = rows[n].version,
         NEW m \in Monitor
  PROVE  AttachStep(m)
<1>1. CASE m # n BY <1>1 DEF TypeOK, AttachStep, RunningIntent
<1>2. CASE m = n BY <1>2 DEF TypeOK, AttachStep, RunningIntent, Present, NoRow
<1> QED BY <1>1, <1>2

\* Every step changes the workload and the version of a row in these ways only.
LEMMA AttachesOfNext ==
  ASSUME TypeOK, Next
  PROVE  \A m \in Monitor : AttachStep(m)
<1> DEFINE Goal == \A m \in Monitor : AttachStep(m)
<1>0. ASSUME UNCHANGED rows PROVE Goal BY <1>0 DEF AttachStep, RunningIntent
<1>1. ASSUME NEW n \in Monitor, NEW r, rows' = [rows EXCEPT ![n] = r],
             \/ r = NoRow
             \/ /\ r.cid = rows[n].cid
                /\ \/ r.desired # "running"
                   \/ r.desired = rows[n].desired /\ r.stop = rows[n].stop /\ r.version = rows[n].version
      PROVE  Goal BY <1>1, AttachKept
<1>2. \A n \in Monitor : rows[n] \in Row BY DEF TypeOK
<1>3. ASSUME NEW n \in Monitor,
             \/ rows' = [rows EXCEPT ![n] = RequestStop(@)]
             \/ rows' = [rows EXCEPT ![n] = [RequestStop(@) EXCEPT !.stage = "terminal"]]
             \/ rows' = [rows EXCEPT ![n] = CompleteStop(@)]
      PROVE  Goal
  <2>1. PICK r \in {RequestStop(rows[n]), CompleteStop(rows[n]),
                    [RequestStop(rows[n]) EXCEPT !.stage = "terminal"]} : rows' = [rows EXCEPT ![n] = r]
    BY <1>3
  <2>2. r.cid = rows[n].cid /\ r.desired = "stopped" BY <1>2, <2>1 DEF RequestStop, CompleteStop, Row
  <2> QED BY <1>1, <2>1, <2>2
<1>4. ASSUME NEW n \in Monitor,
             \/ \E s : rows' = [rows EXCEPT ![n].stage = s]
             \/ \E s : rows' = [rows EXCEPT ![n].status = TRUE, ![n].stage = s]
      PROVE  Goal
  <2>1. PICK s : \/ rows' = [rows EXCEPT ![n].stage = s]
                 \/ rows' = [rows EXCEPT ![n].status = TRUE, ![n].stage = s] BY <1>4
  <2>2. PICK r \in {[rows[n] EXCEPT !.stage = s], [rows[n] EXCEPT !.status = TRUE, !.stage = s]} :
             rows' = [rows EXCEPT ![n] = r] BY <1>2, <2>1 DEF TypeOK
  <2>3. /\ r.cid = rows[n].cid /\ r.desired = rows[n].desired /\ r.stop = rows[n].stop
        /\ r.version = rows[n].version BY <1>2, <2>2 DEF Row
  <2> QED BY <1>1, <2>2, <2>3
<1>5. ASSUME NEW a \in Agent, Request(a) PROVE Goal
  <2>1. PICK n \in Monitor : Launch(a, n) \/ Retire(a, n) \/ Cancel(a, n) \/ Pause(a, n) BY <1>5 DEF Request
  <2>2. CASE Launch(a, n)
    <3>1. CASE UNCHANGED rows BY <1>0, <3>1
    <3>2. CASE ~UNCHANGED rows
      <4>1. PICK r : /\ r.version = 1 /\ r.cid = NoWorkload
                     /\ rows' = [rows EXCEPT ![n] = r] BY <2>2, <3>2 DEF Launch
      <4>2. ~Spent(n) BY <2>2, <3>2 DEF Launch, Spent
      <4>3. ASSUME NEW m \in Monitor PROVE AttachStep(m) BY <4>1, <4>2 DEF TypeOK, AttachStep, RunningIntent
      <4> QED BY <4>3
    <3> QED BY <3>1, <3>2
  <2>3. CASE Pause(a, n) BY <1>3, <2>3 DEF Pause
  <2> QED BY <1>0, <2>1, <2>2, <2>3 DEF Retire, Cancel
<1>6. ASSUME NEW a \in Agent, Attach(a) PROVE Goal
  <2>1. PICK n \in Monitor : n = Mon(a) BY <1>6, BusyMon DEF TypeOK, AgentsTyped, Attach, At
  <2>2. PICK w : /\ rows' = [rows EXCEPT ![n].cid = w]
                 /\ w = rows[n].cid \/ (rows[n].cid = NoWorkload /\ w = agents[a].wid)
    BY <1>2, <1>6, <2>1 DEF Attach, TypeOK
  <2>3. PICK r : r = [rows[n] EXCEPT !.cid = w] OBVIOUS
  <2>4. rows'[n] = r /\ \A m \in Monitor \ {n} : rows'[m] = rows[m] BY <2>2, <2>3 DEF TypeOK
  <2>5. /\ r.cid = w /\ r.desired = rows[n].desired /\ r.stop = rows[n].stop
        /\ r.version = rows[n].version BY <1>2, <2>3 DEF Row
  <2>6. AttachStep(n) BY <1>6, <2>1, <2>2, <2>4, <2>5 DEF AttachStep, RunningIntent, Attach
  <2> QED BY <2>4, <2>6 DEF AttachStep, RunningIntent
<1>7. ASSUME NEW a \in Agent, Create(a) PROVE Goal
  <2>1. CASE RecordFailure(a)
    <3>1. Mon(a) \in Monitor BY <2>1, BusyMon DEF TypeOK, AgentsTyped, RecordFailure, At
    <3> QED BY <1>0, <1>4, <2>1, <3>1 DEF RecordFailure
  <2> QED BY <1>0, <1>6, <1>7, <2>1 DEF Create, ReadIntent, FindWorkload, CreateWorkload, Validate, Confirm
<1>8. ASSUME NEW a \in Agent, RemoveIntent(a) \/ Reconcile(a) \/ Fault(a) PROVE Goal BY <1>0, <1>8
  DEF RemoveIntent, RemoveById, AwaitById, RemoveByName, AwaitByName,
      Reconcile, Recover, SweepList, Snapshot,
      Fault, AbandonCreate, CreationFails, RemovalFails, Crash
<1>9. ASSUME NEW a \in Agent, MarkRetired(a) PROVE Goal
  <2>1. PICK r : r = MarkDeleting(agents[a].snap) OBVIOUS
  <2>2. PICK n \in Monitor : n = Mon(a) BY <1>9, BusyMon DEF TypeOK, AgentsTyped, MarkRetired, At
  <2>3. r # agents[a].snap => r.desired = "deleted"
    <3>1. agents[a].snap \in Row BY DEF TypeOK, AgentState, AgentRecord
    <3> QED BY <2>1, <3>1 DEF MarkDeleting, Row
  <2>4. CASE UNCHANGED rows BY <1>0, <2>4
  <2>5. CASE /\ r # agents[a].snap
             /\ rows' = [rows EXCEPT ![n].desired = r.desired, ![n].stop = r.stop,
                                     ![n].version = r.version]
    <3>1. PICK q : q = [rows[n] EXCEPT !.desired = r.desired, !.stop = r.stop, !.version = r.version] OBVIOUS
    <3>2. rows' = [rows EXCEPT ![n] = q] BY <1>2, <2>5, <3>1 DEF TypeOK
    <3>3. q.cid = rows[n].cid /\ q.desired = "deleted" BY <1>2, <2>3, <2>5, <3>1 DEF Row
    <3> QED BY <1>1, <3>2, <3>3
  <2> QED BY <1>9, <2>1, <2>2, <2>4, <2>5 DEF MarkRetired
<1>10. ASSUME NEW a \in Agent, Purge(a) \/ Complete(a) \/ ApplyStopConfirmed(a) PROVE Goal
  <2>1. Mon(a) \in Monitor BY <1>10, BusyMon DEF TypeOK, AgentsTyped, Purge, Complete, ApplyStopConfirmed, At
  <2>2. UNCHANGED rows \/ PurgeRow(Mon(a)) \/ CompleteRow(Mon(a))
    BY <1>10 DEF Purge, Complete, ApplyStopConfirmed
  <2> QED BY <1>0, <1>1, <1>3, <2>1, <2>2 DEF PurgeRow, CompleteRow
<1>11. ASSUME NEW a \in Agent, ApplyRunning(a) \/ ApplyTerminal(a) PROVE Goal
  <2>1. Mon(a) \in Monitor BY <1>11, BusyMon DEF TypeOK, AgentsTyped, ApplyRunning, ApplyTerminal, At
  <2> QED BY <1>0, <1>3, <1>4, <1>11, <2>1 DEF ApplyRunning, ApplyTerminal, FailAbandoned
<1>12. ASSUME NEW a \in Agent, CancelSuccessor(a) \/ PauseRead(a) \/ SweepRead(a) \/ Inspect(a)
       PROVE  Goal BY <1>0, <1>12 DEF CancelSuccessor, PauseRead, SweepRead, Inspect
<1>13. ASSUME NEW n \in Monitor, StopFailed(n) \/ TaskStarts(n) \/ Worker(n) \/ ExternalRemove(n)
       PROVE  Goal BY <1>0, <1>3, <1>4, <1>13
  DEF StopFailed, TaskStarts, ExternalRemove, Worker, Admit, TaskEnds, WorkerFails, Heartbeat
<1>14. ASSUME NEW i \in inflight, DelayedCreate(i[1], i[2]) PROVE Goal BY <1>0, <1>14 DEF DelayedCreate
<1> HIDE DEF Goal
<1>15. ASSUME NEW a \in Agent, Proceed(a) PROVE Goal
  BY <1>7, <1>8, <1>9, <1>10, <1>11, <1>12, <1>15 DEF Proceed
<1>16. Goal BY <1>5, <1>8, <1>13, <1>14, <1>15 DEF Next
<1> QED BY <1>16 DEF Goal

-----------------------------------------------------------------------------
(* How removals begin and which workloads agents know.                     *)

\* An agent that begins to remove a workload.
Begins(a) ==
  /\ agents'[a].pc = "removeId" /\ agents'[a].mon = Mon(a)
  /\ \/ Confirm(a) /\ ~OwnsWorkload(a) /\ agents'[a].then = "failed"
     \/ MarkRetired(a) /\ agents'[a].then = "purge"
     \/ CancelSuccessor(a) /\ ~Present(Mon(a)) /\ agents'[a].then = "idle"
     \/ SweepRead(a) /\ rows[Mon(a)].desired # "running" /\ agents'[a].then = "swept"
     \/ /\ PauseRead(a) /\ rows[Mon(a)].desired \in {"stopped", "deleted"}
        /\ agents'[a].then = "complete" /\ agents'[a].wid = agents'[a].snap.cid
     \/ /\ Inspect(a) /\ MustNotRun(agents[a].snap)
        /\ agents'[a].then = "stopConfirmed" /\ agents'[a].wid = agents'[a].snap.cid

\* A removal begins in these ways only.
LEMMA RemovalBegins ==
  ASSUME TypeOK, NEW a \in Agent, AgentAction(a), agents'[a].pc \in Removing, ~RemoveIntent(a)
  PROVE  Begins(a)
<1>0. AgentsTyped /\ agents[a] \in AgentState BY DEF TypeOK, AgentsTyped
<1>1. ASSUME NEW s, Become(a, s) PROVE agents'[a] = s BY <1>0, <1>1 DEF Become, AgentsTyped
<1>2. ASSUME NEW m, NEW pc, Become(a, Begin(m, pc)) PROVE pc \in Removing BY <1>1, <1>2 DEF Begin, Idle
<1>3. ASSUME Finish(a) \/ Fails(a) PROVE FALSE
  <2>1. ASSUME Finish(a) PROVE FALSE BY <1>1, <2>1 DEF Finish, Idle, Removing
  <2>2. ASSUME Fails(a) PROVE FALSE BY <1>2, <2>2 DEF Fails, Removing
  <2> QED BY <1>3, <2>1, <2>2
<1>4. ASSUME NEW pc, Goto(a, pc) PROVE pc \in Removing
  BY <1>0, <1>4 DEF Goto, AgentsTyped, AgentState, AgentRecord
<1>5. ASSUME NEW m, NEW w, NEW v, NEW t, Become(a, Remove(m, w, v, t))
      PROVE  agents'[a].pc = "removeId" /\ agents'[a].mon = m /\ agents'[a].then = t
  BY <1>1, <1>5 DEF Remove, Begin, Idle
<1>6. ASSUME NEW m, ReadToRetire(a, m) PROVE FALSE BY <1>1, <1>6 DEF ReadToRetire, Begin, Idle, Removing
<1>7. ASSUME Request(a) PROVE FALSE BY <1>2, <1>6, <1>7 DEF Request, Launch, Retire, Cancel, Pause, Removing
<1>8. ASSUME Reconcile(a) PROVE FALSE
  <2>1. PICK m \in Monitor : Recover(a, m) \/ SweepList(a, m) \/ Snapshot(a, m) BY <1>8 DEF Reconcile
  <2>2. \/ agents'[a] = Begin(m, "read")
        \/ agents'[a] = [Begin(m, "sweepRead") EXCEPT !.wid = svc[m].id]
        \/ agents'[a] = [Begin(m, "inspect") EXCEPT !.snap = Captured(rows[m])]
    BY <1>1, <2>1 DEF Recover, SweepList, Snapshot
  <2> QED BY <2>2 DEF Begin, Idle, Removing
<1>9. ASSUME NEW w, NEW v, Adopt(a, w, v) PROVE FALSE
  BY <1>0, <1>3, <1>9 DEF Adopt, AgentsTyped, AgentState, AgentRecord, Removing
<1>10. CASE Create(a)
  <2>1. CASE ReadIntent(a) BY <1>0, <1>3, <2>1 DEF ReadIntent, AgentsTyped, AgentState, AgentRecord, Removing
  <2>2. CASE FindWorkload(a) \/ CreateWorkload(a)
    BY <1>3, <1>4, <1>9, <2>2 DEF FindWorkload, CreateWorkload, AdoptExisting, Removing
  <2>3. CASE Validate(a) \/ Attach(a) \/ RecordFailure(a)
    BY <1>3, <1>4, <2>3 DEF Validate, Attach, RecordFailure, Removing
  <2>4. CASE Confirm(a) BY <1>3, <1>5, <2>4 DEF Confirm, Begins
  <2> QED BY <1>10, <2>1, <2>2, <2>3, <2>4 DEF Create
<1>11. CASE MarkRetired(a) BY <1>3, <1>5, <1>11 DEF MarkRetired, Begins
<1>12. CASE CancelSuccessor(a) BY <1>5, <1>6, <1>12 DEF CancelSuccessor, Begins
<1>13. CASE SweepRead(a) BY <1>3, <1>5, <1>13 DEF SweepRead, Begins
<1>14. CASE PauseRead(a)
  <2>1. PICK m : m = Mon(a) OBVIOUS
  <2>2. /\ rows[m].desired \in {"stopped", "deleted"}
        /\ agents'[a] = [Remove(m, rows[m].cid, rows[m].version, "complete")
                           EXCEPT !.snap.cid = rows[m].cid] BY <1>1, <1>3, <1>14, <2>1 DEF PauseRead
  <2>3. /\ agents'[a].pc = "removeId" /\ agents'[a].mon = m
        /\ agents'[a].then = "complete" /\ agents'[a].wid = rows[m].cid
        /\ agents'[a].snap = [NoRow EXCEPT !.cid = rows[m].cid] BY <2>2 DEF Remove, Begin, Idle
  <2>4. agents'[a].snap.cid = rows[m].cid BY <2>3 DEF NoRow
  <2> QED BY <1>14, <2>1, <2>2, <2>3, <2>4 DEF Begins
<1>15. CASE Inspect(a)
  <2>1. PICK s : s = agents[a].snap OBVIOUS
  <2>2. CASE MustNotRun(s)
    <3>1. agents'[a] = [Remove(Mon(a), s.cid, 0, "stopConfirmed") EXCEPT !.snap = s]
      BY <1>1, <1>15, <2>1, <2>2 DEF Inspect
    <3>2. /\ agents'[a].pc = "removeId" /\ agents'[a].mon = Mon(a)
          /\ agents'[a].then = "stopConfirmed" /\ agents'[a].wid = s.cid /\ agents'[a].snap = s
      BY <3>1 DEF Remove, Begin, Idle
    <3> QED BY <1>15, <2>1, <2>2, <3>2 DEF Begins
  <2>3. CASE ~MustNotRun(s)
    <3>1. PICK seen \in (IF s.cid = NoWorkload THEN {"idle"} ELSE DockerStatus(Mon(a), s.cid)) :
               Finish(a) \/ Goto(a, seen) BY <1>15, <2>1, <2>3 DEF Inspect
    <3>2. Mon(a) \in Monitor /\ s.cid \in Workload \cup {NoWorkload}
      BY <1>0, <1>15, <2>1, BusyMon DEF Inspect, At, AgentState, AgentRecord, Row
    <3>3. seen \notin Removing BY <3>1, <3>2 DEF DockerStatus, TaskState, TypeOK, Removing
    <3> QED BY <1>3, <1>4, <3>1, <3>3
  <2> QED BY <2>2, <2>3
<1>16. ASSUME Purge(a) \/ Complete(a) \/ ApplyStopConfirmed(a) \/ ApplyRunning(a)
              \/ ApplyTerminal(a)
       PROVE  FALSE BY <1>3, <1>16 DEF Purge, Complete, ApplyStopConfirmed, ApplyRunning, ApplyTerminal
<1>17. ASSUME Fault(a) PROVE FALSE BY <1>3, <1>17 DEF Fault, AbandonCreate, CreationFails, RemovalFails, Crash
<1> QED BY <1>7, <1>8, <1>10, <1>11, <1>12, <1>13, <1>14, <1>15, <1>16, <1>17 DEF AgentAction, Proceed

\* Where an agent may know a workload of m from.
Sources(a, m) ==
  {NoWorkload, svc[m].id, svc'[m].id, rows[m].cid}
    \cup {w \in {agents[a].wid, agents[a].snap.cid} : agents[a].pc # "idle" /\ Mon(a) = m}

Learns(a) ==
  agents'[a].pc # "idle" =>
    agents'[a].wid \in Sources(a, agents'[a].mon) /\ agents'[a].snap.cid \in Sources(a, agents'[a].mon)

\* An agent knows a workload from the row, from Docker, or from before.
LEMMA LearnsOfAction ==
  ASSUME TypeOK, NEW a \in Agent, AgentAction(a)
  PROVE  Learns(a)
<1>0. AgentsTyped /\ agents[a] \in AgentState BY DEF TypeOK, AgentsTyped
<1>1. ASSUME NEW s, Become(a, s),
             s.wid \in Sources(a, s.mon), s.snap.cid \in Sources(a, s.mon)
      PROVE  Learns(a) BY <1>0, <1>1 DEF Become, AgentsTyped, Learns
<1>2. ASSUME NEW m, NEW pc, Become(a, Begin(m, pc)) PROVE Learns(a)
  BY <1>1, <1>2 DEF Begin, Idle, NoRow, Sources
<1>3. ASSUME Finish(a) \/ Fails(a) PROVE Learns(a)
  <2>1. CASE Finish(a) BY <1>0, <2>1 DEF Finish, Become, AgentsTyped, Idle, Learns
  <2>2. CASE Fails(a) BY <1>2, <2>2 DEF Fails
  <2> QED BY <1>3, <2>1, <2>2
<1>4. ASSUME agents[a].pc # "idle", agents'[a].mon = agents[a].mon,
             agents'[a].wid = agents[a].wid \/ agents'[a].wid \in {svc[Mon(a)].id, svc'[Mon(a)].id},
             agents'[a].snap = agents[a].snap
      PROVE  Learns(a) BY <1>4 DEF Learns, Sources, Mon
<1>5. ASSUME NEW pc, Goto(a, pc), agents[a].pc # "idle" PROVE Learns(a)
  BY <1>0, <1>4, <1>5 DEF Goto, AgentsTyped, AgentState, AgentRecord
<1>6. ASSUME NEW m, NEW w, NEW v, NEW t, Become(a, Remove(m, w, v, t)), w \in Sources(a, m)
      PROVE  Learns(a)
  <2>1. agents'[a] = Remove(m, w, v, t) BY <1>0, <1>6 DEF Become, AgentsTyped
  <2>2. agents'[a].mon = m /\ agents'[a].wid = w /\ agents'[a].snap.cid = NoWorkload
    BY <2>1 DEF Remove, Begin, Idle, NoRow
  <2> QED BY <1>6, <2>2 DEF Learns, Sources
<1>7. ASSUME NEW m \in Monitor, NEW pc, Become(a, [Begin(m, pc) EXCEPT !.snap = Captured(rows[m])])
      PROVE  Learns(a)
  <2>1. agents'[a] = [Begin(m, pc) EXCEPT !.snap = Captured(rows[m])] BY <1>0, <1>7 DEF Become, AgentsTyped
  <2>2. agents'[a].mon = m /\ agents'[a].wid = NoWorkload /\ agents'[a].snap = Captured(rows[m])
    BY <2>1 DEF Begin, Idle
  <2>3. Captured(rows[m]).cid = rows[m].cid BY DEF TypeOK, Row, Captured
  <2> QED BY <2>2, <2>3 DEF Learns, Sources
<1>8. CASE Request(a) BY <1>2, <1>7, <1>8 DEF Request, Launch, Retire, ReadToRetire, Cancel, Pause
<1>9. CASE Reconcile(a)
  <2>1. PICK m \in Monitor : Recover(a, m) \/ SweepList(a, m) \/ Snapshot(a, m) BY <1>9 DEF Reconcile
  <2>2. CASE SweepList(a, m)
    <3>1. agents'[a] = [Begin(m, "sweepRead") EXCEPT !.wid = svc[m].id]
      BY <1>0, <2>2 DEF SweepList, Become, AgentsTyped
    <3>2. agents'[a].mon = m /\ agents'[a].wid = svc[m].id /\ agents'[a].snap.cid = NoWorkload
      BY <3>1 DEF Begin, Idle, NoRow
    <3> QED BY <3>2 DEF Learns, Sources
  <2> QED BY <1>2, <1>7, <2>1, <2>2 DEF Recover, Snapshot
<1>10. CASE Create(a)
  <2>0. agents[a].pc # "idle"
    BY <1>10 DEF Create, ReadIntent, FindWorkload, CreateWorkload, Validate, Attach, Confirm, RecordFailure, At
  <2>1. ASSUME NEW w, NEW v, Adopt(a, w, v), w \in {svc[Mon(a)].id, svc'[Mon(a)].id} PROVE Learns(a)
    <3>1. CASE agents' = [agents EXCEPT ![a].pc = "validate", ![a].wid = w]
      BY <1>0, <1>4, <2>0, <2>1, <3>1 DEF AgentsTyped, AgentState, AgentRecord
    <3> QED BY <1>3, <2>1, <3>1 DEF Adopt
  <2>2. CASE ReadIntent(a)
    <3>1. CASE agents' = [agents EXCEPT ![a].pc = "find", ![a].ver = rows[Mon(a)].version]
      BY <1>0, <1>4, <2>0, <3>1 DEF AgentsTyped, AgentState, AgentRecord
    <3> QED BY <1>3, <2>2, <3>1 DEF ReadIntent
  <2>3. CASE FindWorkload(a) BY <1>5, <2>0, <2>1, <2>3 DEF FindWorkload, AdoptExisting
  <2>4. CASE CreateWorkload(a)
    <3>1. CASE DockerCreate(Mon(a), agents[a].ver)
      <4>1. Mon(a) \in Monitor BY <1>0, <2>0, BusyMon
      <4>2. svc'[Mon(a)].id = NewId(Mon(a)) BY <3>1, <4>1 DEF DockerCreate, TypeOK
      <4> QED BY <1>3, <2>1, <2>4, <3>1, <4>2 DEF CreateWorkload, AdoptExisting
    <3> QED BY <1>3, <2>1, <2>4, <3>1 DEF CreateWorkload, AdoptExisting
  <2>5. CASE Confirm(a)
    <3>1. agents[a].wid \in Sources(a, Mon(a)) BY <2>0 DEF Sources
    <3> QED BY <1>3, <1>6, <2>5, <3>1 DEF Confirm
  <2> QED BY <1>3, <1>5, <1>10, <2>0, <2>2, <2>3, <2>4, <2>5 DEF Create, Validate, Attach, RecordFailure
<1>11. CASE RemoveIntent(a)
  <2>1. agents[a].pc # "idle" BY <1>11 DEF RemoveIntent, RemoveById, AwaitById, RemoveByName, AwaitByName, At
  <2>2. CASE agents' = [agents EXCEPT ![a].pc = "waitName", ![a].wid = svc[Mon(a)].id]
    BY <1>0, <1>4, <2>1, <2>2 DEF AgentsTyped, AgentState, AgentRecord
  <2> QED BY <1>3, <1>5, <1>11, <2>1, <2>2
    DEF RemoveIntent, RemoveById, AwaitById, RemoveByName, AwaitByName, Continue
<1>12. CASE MarkRetired(a) \/ CancelSuccessor(a) \/ SweepRead(a)
  <2>0. agents[a].pc # "idle" /\ Mon(a) \in Monitor
    BY <1>0, <1>12, BusyMon DEF MarkRetired, CancelSuccessor, SweepRead, At
  <2>1. {agents[a].wid, agents[a].snap.cid, NoWorkload} \subseteq Sources(a, Mon(a)) BY <2>0 DEF Sources
  <2>2. MarkDeleting(agents[a].snap).cid = agents[a].snap.cid
    BY <1>0 DEF MarkDeleting, AgentState, AgentRecord, Row
  <2> QED
    BY <1>3, <1>6, <1>7, <1>12, <2>0, <2>1, <2>2 DEF MarkRetired, CancelSuccessor, ReadToRetire, SweepRead
<1>13. CASE PauseRead(a)
  <2>1. PICK m : m = Mon(a) OBVIOUS
  <2>2. CASE Become(a, [Remove(m, rows[m].cid, rows[m].version, "complete")
                          EXCEPT !.snap.cid = rows[m].cid])
    <3>1. agents'[a] = [Remove(m, rows[m].cid, rows[m].version, "complete")
                          EXCEPT !.snap.cid = rows[m].cid] BY <1>0, <2>2 DEF Become, AgentsTyped
    <3>2. /\ agents'[a].mon = m /\ agents'[a].wid = rows[m].cid
          /\ agents'[a].snap = [NoRow EXCEPT !.cid = rows[m].cid] BY <3>1 DEF Remove, Begin, Idle
    <3> QED BY <3>2 DEF Learns, Sources, NoRow
  <2> QED BY <1>3, <1>13, <2>1, <2>2 DEF PauseRead
<1>14. CASE Inspect(a)
  <2>0. agents[a].pc # "idle" BY <1>14 DEF Inspect, At
  <2>1. PICK s : s = agents[a].snap OBVIOUS
  <2>2. CASE Become(a, [Remove(Mon(a), s.cid, 0, "stopConfirmed") EXCEPT !.snap = s])
    <3>1. agents'[a] = [Remove(Mon(a), s.cid, 0, "stopConfirmed") EXCEPT !.snap = s]
      BY <1>0, <2>2 DEF Become, AgentsTyped
    <3>2. agents'[a].mon = Mon(a) /\ agents'[a].wid = s.cid /\ agents'[a].snap = s
      BY <3>1 DEF Remove, Begin, Idle
    <3> QED BY <2>0, <2>1, <3>2 DEF Learns, Sources
  <2> QED BY <1>3, <1>5, <1>14, <2>0, <2>1, <2>2 DEF Inspect
<1>15. CASE Purge(a) \/ Complete(a) \/ ApplyStopConfirmed(a) \/ ApplyRunning(a) \/ ApplyTerminal(a)
  BY <1>3, <1>15 DEF Purge, Complete, ApplyStopConfirmed, ApplyRunning, ApplyTerminal
<1>16. CASE Fault(a) BY <1>3, <1>16 DEF Fault, AbandonCreate, CreationFails, RemovalFails, Crash
<1> QED BY <1>8, <1>9, <1>10, <1>11, <1>12, <1>13, <1>14, <1>15, <1>16 DEF AgentAction, Proceed

-----------------------------------------------------------------------------
(* A stop is completed after the attached task.                            *)

\* What agents, rows and Docker name was created.
LEMMA WorkloadsCreatedStays ==
  ASSUME TypeOK, WorkloadsCreated, Next
  PROVE  WorkloadsCreated'
<1>0. /\ \A m \in Monitor : /\ created[m] \in Nat /\ svc[m].id \in Nat /\ rows[m].cid \in Nat
                            /\ svc[m].id <= created[m] /\ rows[m].cid <= created[m]
      /\ \A a \in Agent : agents[a].wid \in Nat /\ agents[a].snap.cid \in Nat
      /\ \A a \in Agent : agents[a].pc # "idle" =>
           /\ Mon(a) \in Monitor
           /\ agents[a].wid <= created[Mon(a)] /\ agents[a].snap.cid <= created[Mon(a)]
  <2>1. \A m \in Monitor : created[m] \in Nat /\ svc[m].id \in Nat /\ rows[m].cid \in Nat
    BY DEF TypeOK, Service, Row, Workload, NoWorkload
  <2>2. \A a \in Agent : agents[a].wid \in Nat /\ agents[a].snap.cid \in Nat
    BY DEF TypeOK, AgentState, AgentRecord, Row, Workload, NoWorkload
  <2> QED BY <2>1, <2>2, BusyMon DEF WorkloadsCreated, TypeOK, AgentsTyped, At
<1>1. ASSUME NEW m \in Monitor
      PROVE  created'[m] \in Nat /\ created[m] <= created'[m] /\ svc'[m].id <= created'[m]
  <2>1. WorkloadStep(m) BY WorkloadsOfNext
  <2> QED BY <1>0, <2>1 DEF WorkloadStep, SameServices, Made, Reduced, Vanished, NoService, NoWorkload
<1>2. ASSUME NEW m \in Monitor PROVE rows'[m].cid <= created'[m]
  <2>1. AttachStep(m) BY AttachesOfNext
  <2>2. CASE \E a \in Agent : At(a, "attach") /\ Mon(a) = m /\ rows'[m].cid = agents[a].wid
    <3>1. PICK a \in Agent : At(a, "attach") /\ Mon(a) = m /\ rows'[m].cid = agents[a].wid BY <2>2
    <3>2. agents[a].wid <= created[m] /\ agents[a].wid \in Nat BY <1>0, <3>1 DEF At
    <3> QED BY <1>0, <1>1, <3>1, <3>2
  <2>3. CASE rows'[m].cid = rows[m].cid \/ rows'[m].cid = NoWorkload BY <1>0, <1>1, <2>3 DEF NoWorkload
  <2> QED BY <2>1, <2>2, <2>3 DEF AttachStep
<1>3. ASSUME NEW a \in Agent, agents'[a].pc # "idle"
      PROVE  /\ agents'[a].wid <= created'[agents'[a].mon]
             /\ agents'[a].snap.cid <= created'[agents'[a].mon]
  <2>1. PICK m : m = agents'[a].mon OBVIOUS
  <2>2. m \in Monitor BY <1>3, <2>1, AgentsOfNext DEF AgentState
  <2>3. CASE agents'[a] = agents[a] BY <1>0, <1>1, <1>3, <2>1, <2>2, <2>3 DEF Mon
  <2>4. CASE AgentAction(a)
    <3>1. agents'[a].wid \in Sources(a, m) /\ agents'[a].snap.cid \in Sources(a, m)
      BY <1>3, <2>1, <2>4, LearnsOfAction DEF Learns
    <3>2. svc'[m].id \in Nat BY <2>2, DockerOfNext DEF DockerTyped, Service, Workload, NoWorkload
    <3>3. ASSUME NEW w \in Sources(a, m) PROVE w <= created'[m]
      <4>1. CASE agents[a].pc # "idle" /\ Mon(a) = m /\ w \in {agents[a].wid, agents[a].snap.cid}
        BY <1>0, <1>1, <2>2, <4>1
      <4>2. CASE w \in {NoWorkload, svc[m].id, svc'[m].id, rows[m].cid}
        BY <1>0, <1>1, <2>2, <3>2, <4>2 DEF NoWorkload
      <4> QED BY <3>3, <4>1, <4>2 DEF Sources
    <3> QED BY <2>1, <3>1, <3>3
  <2> QED BY <2>3, <2>4, OnlyActorsMove
<1> QED BY <1>1, <1>2, <1>3 DEF WorkloadsCreated, At, Mon

\* A workload that is gone does not come back.
LEMMA GoneForGood ==
  ASSUME TypeOK, Next, NEW m \in Monitor, NEW w \in Workload, Gone(m, w)
  PROVE  Gone(m, w)'
<1>1. TaskStep(m, w) /\ WorkloadStep(m) BY TaskStepsOfNext, WorkloadsOfNext
<1>2. created[m] \in Nat /\ w \in Nat /\ w # NoWorkload BY DEF TypeOK, Workload, NoWorkload
<1>3. task'[m][w] \notin Live BY <1>1 DEF TaskStep, Gone, Live
<1>4. svc'[m].id # w /\ w <= created'[m]
  BY <1>1, <1>2 DEF WorkloadStep, SameServices, Made, Reduced, Vanished, NoService, Gone
<1> QED BY <1>3, <1>4 DEF Gone

Completing == {"complete", "stopConfirmed"}

\* A removal ends the task of the workload read from the row before it goes on.
LEMMA AttachedGoneRemoval ==
  ASSUME TypeOK, WorkloadsCreated, Next, NEW a \in Agent, AttachedGone(a), RemoveIntent(a)
  PROVE  AttachedGone(a)'
<1>0. AgentsTyped /\ agents[a] \in AgentState BY DEF TypeOK, AgentsTyped
<1>1. PICK m, w : m = Mon(a) /\ w = agents[a].snap.cid OBVIOUS
<1>2. /\ m \in Monitor /\ w \in Workload \cup {NoWorkload}
      /\ agents[a].then \in After
      /\ w <= created[m] BY <1>0, <1>1, BusyMon
  DEF RemoveIntent, RemoveById, AwaitById, RemoveByName, AwaitByName, At,
      AgentState, AgentRecord, Row, WorkloadsCreated
<1>3. ASSUME w = NoWorkload \/ Gone(m, w) PROVE w = NoWorkload \/ Gone(m, w)' BY <1>2, <1>3, GoneForGood
<1>4. ASSUME NEW pc, NEW v,
             agents'[a].pc = pc, agents'[a].mon = m, agents'[a].snap.cid = w,
             agents'[a].then = agents[a].then, agents'[a].wid = v,
             pc \in {"removeId", "waitId"} /\ agents[a].then \in Completing => v = w,
             pc \in {"removeName", "waitName"} /\ agents[a].then \in Completing
               => w = NoWorkload \/ Gone(m, w)',
             pc \in Completing => w = NoWorkload \/ Gone(m, w)'
      PROVE  AttachedGone(a)' BY <1>4 DEF AttachedGone, Completing, Mon, Gone
<1>5. ASSUME Finish(a) PROVE AttachedGone(a)'
  <2>1. agents'[a].pc = "idle" BY <1>0, <1>5 DEF Finish, Become, AgentsTyped, Idle
  <2> QED BY <2>1 DEF AttachedGone
<1>6. ASSUME NEW pc, Goto(a, pc)
      PROVE  /\ agents'[a].pc = pc /\ agents'[a].mon = m /\ agents'[a].snap.cid = w
             /\ agents'[a].then = agents[a].then /\ agents'[a].wid = agents[a].wid
  BY <1>0, <1>1, <1>6 DEF Goto, AgentsTyped, AgentState, AgentRecord, Mon
<1>7. ASSUME Continue(a), agents[a].then \in Completing => w = NoWorkload \/ Gone(m, w)'
      PROVE  AttachedGone(a)'
  <2>1. CASE Goto(a, agents[a].then) BY <1>2, <1>4, <1>6, <1>7, <2>1 DEF After, Removed, Completing
  <2> QED BY <1>5, <1>7, <2>1 DEF Continue
<1>8. CASE RemoveById(a)
  <2>1. agents[a].then \in Completing => agents[a].wid = w
    BY <1>1, <1>8 DEF RemoveById, At, AttachedGone, Completing
  <2>2. \/ agents[a].wid = NoWorkload /\ Goto(a, "removeName")
        \/ Goto(a, "waitId") BY <1>8 DEF RemoveById
  <2> QED BY <1>4, <1>6, <2>1, <2>2 DEF Completing
<1>9. CASE AwaitById(a)
  <2>1. agents[a].then \in Completing => agents[a].wid = w
    BY <1>1, <1>9 DEF AwaitById, At, AttachedGone, Completing
  <2>2. ASSUME agents[a].wid = w, w # NoWorkload PROVE Gone(m, w)'
    <3>1. task'[m][w] \notin Live /\ created' = created BY <1>1, <1>9, <2>2 DEF AwaitById, TasksStopped
    <3>2. svc'[m].id # w BY <1>1, <1>2, <1>9, <2>2 DEF AwaitById, RemoveService, TypeOK, NoService
    <3> QED BY <1>2, <3>1, <3>2 DEF Gone
  <2>3. Finish(a) \/ Goto(a, "removeName") BY <1>9 DEF AwaitById
  <2> QED BY <1>4, <1>5, <1>6, <2>1, <2>2, <2>3 DEF Completing
<1>10. CASE RemoveByName(a) \/ AwaitByName(a)
  <2>1. agents[a].then \in Completing => w = NoWorkload \/ Gone(m, w)'
    BY <1>1, <1>3, <1>10 DEF RemoveByName, AwaitByName, At, AttachedGone, Completing
  <2>2. CASE agents' = [agents EXCEPT ![a].pc = "waitName", ![a].wid = svc[Mon(a)].id]
    <3>1. /\ agents'[a].pc = "waitName" /\ agents'[a].mon = m /\ agents'[a].snap.cid = w
          /\ agents'[a].then = agents[a].then
      BY <1>0, <1>1, <2>2 DEF AgentsTyped, AgentState, AgentRecord, Mon
    <3> QED BY <1>4, <2>1, <3>1 DEF Completing
  <2> QED BY <1>7, <1>10, <2>1, <2>2 DEF RemoveByName, AwaitByName
<1> QED BY <1>8, <1>9, <1>10 DEF RemoveIntent

\* Nobody else reaches a removal half-way.
LEMMA AttachedGoneOther ==
  ASSUME TypeOK, NEW a \in Agent, AgentAction(a), ~RemoveIntent(a)
  PROVE  AttachedGone(a)'
<1>1. Elsewhere(a)' BY OthersGoElsewhere DEF RemoveIntent
<1>2. agents'[a].pc \in Removing => Begins(a) BY RemovalBegins
<1>3. agents'[a].pc \in {"removeId", "waitId", "removeName", "waitName"}
        => /\ agents'[a].pc = "removeId"
           /\ agents'[a].then \in Completing => agents'[a].wid = agents'[a].snap.cid
  BY <1>2 DEF Begins, Removing, Completing
<1>4. agents'[a].pc \notin Completing BY <1>1 DEF Elsewhere, Removed, Completing
<1> QED BY <1>3, <1>4 DEF AttachedGone, Completing

\* What the others established stays.
LEMMA AttachedGoneStays ==
  ASSUME TypeOK, Next, NEW a \in Agent, AttachedGone(a), agents'[a] = agents[a]
  PROVE  AttachedGone(a)'
<1>1. PICK m, w : m = Mon(a) /\ w = agents[a].snap.cid OBVIOUS
<1>2. w \in Workload \cup {NoWorkload} /\ (agents[a].pc # "idle" => m \in Monitor)
  BY <1>1, BusyMon DEF TypeOK, AgentsTyped, AgentState, AgentRecord, Row
<1>3. agents[a].pc # "idle" /\ (w = NoWorkload \/ Gone(m, w)) => w = NoWorkload \/ Gone(m, w)'
  BY <1>2, GoneForGood
<1>4. agents'[a].mon = m BY <1>1 DEF Mon
<1> QED BY <1>1, <1>3, <1>4 DEF AttachedGone, Mon, Gone

\* The invariant of removals is inductive.
LEMMA RemovalInductive ==
  ASSUME TypeOK, RemovalInvariant, [Next]_vars
  PROVE  RemovalInvariant'
<1>1. CASE Next
  <2>1. WorkloadsCreated' BY <1>1, WorkloadsCreatedStays DEF RemovalInvariant
  <2>2. ASSUME NEW a \in Agent PROVE AttachedGone(a)'
    BY <1>1, AttachedGoneRemoval, AttachedGoneOther, AttachedGoneStays, OnlyActorsMove DEF RemovalInvariant
  <2> QED BY <2>1, <2>2 DEF RemovalInvariant
<1>2. CASE UNCHANGED vars
  BY <1>2 DEF vars, docker, RemovalInvariant, WorkloadsCreated, AttachedGone, Gone, At, Mon
<1> QED BY <1>1, <1>2

\* At first there is no workload.
LEMMA InitRemoval == Init => RemovalInvariant
BY DEF Init, RemovalInvariant, WorkloadsCreated, AttachedGone, NoRow, NoService, NoWorkload, Idle, At

\* Every state of the lifecycle satisfies the invariant of removals.
LEMMA RemovalAlways == Spec => [](TypeOK /\ RowsConsistent /\ RemovalInvariant)
<1>1. TypeOK /\ RemovalInvariant /\ [Next]_vars => RemovalInvariant' BY RemovalInductive
<1>2. TypeOK /\ IntentInvariant => RowsConsistent BY DEF IntentInvariant
<1> QED BY <1>1, <1>2, InitRemoval, IntentAlways, PTL DEF Spec

\* Only the completion of a stop lowers the claim of a row that stays.
LEMMA OnlyCompletionReleases ==
  ASSUME TypeOK, Next, NEW m \in Monitor, rows[m].status, ~rows'[m].status, Present(m)'
  PROVE  \E a \in Agent : /\ agents[a].pc \in Completing /\ Mon(a) = m
                          /\ rows[m].cid = agents[a].snap.cid
<1> DEFINE Goal == \E a \in Agent : /\ agents[a].pc \in Completing /\ Mon(a) = m
                                    /\ rows[m].cid = agents[a].snap.cid
<1>0. rows[m] \in Row /\ rows'[m].status # rows[m].status /\ rows'[m].desired # "absent"
  BY DEF TypeOK, Present
<1>1. ASSUME NEW n, \/ rows' = [rows EXCEPT ![n] = RequestStop(@)]
                    \/ rows' = [rows EXCEPT ![n] = [RequestStop(@) EXCEPT !.stage = "terminal"]]
                    \/ \E s : rows' = [rows EXCEPT ![n].stage = s]
                    \/ \E w : rows' = [rows EXCEPT ![n].cid = w]
                    \/ \E s : rows' = [rows EXCEPT ![n].status = TRUE, ![n].stage = s]
                    \/ \E d, s, v : rows' = [rows EXCEPT ![n].desired = d, ![n].stop = s, ![n].version = v]
      PROVE  FALSE
  <2>1. n = m BY <1>0, <1>1 DEF TypeOK
  <2>2. CASE \/ rows' = [rows EXCEPT ![n] = RequestStop(@)]
             \/ rows' = [rows EXCEPT ![n] = [RequestStop(@) EXCEPT !.stage = "terminal"]]
    <3>1. PICK r \in {RequestStop(rows[m]), [RequestStop(rows[m]) EXCEPT !.stage = "terminal"]} :
               rows' = [rows EXCEPT ![m] = r] BY <2>1, <2>2
    <3>2. r.status = rows[m].status BY <1>0, <3>1 DEF RequestStop, Row
    <3> QED BY <1>0, <3>1, <3>2 DEF TypeOK
  <2>3. CASE \/ \E s : rows' = [rows EXCEPT ![n].stage = s]
             \/ \E w : rows' = [rows EXCEPT ![n].cid = w]
             \/ \E s : rows' = [rows EXCEPT ![n].status = TRUE, ![n].stage = s]
    BY <1>0, <2>1, <2>3 DEF TypeOK, Row
  <2>4. CASE \E d, s, v : rows' = [rows EXCEPT ![n].desired = d, ![n].stop = s, ![n].version = v]
    BY <1>0, <2>1, <2>4 DEF TypeOK, Row
  <2> QED BY <1>1, <2>2, <2>3, <2>4
<1>2. ASSUME NEW a \in Agent, Request(a) PROVE FALSE
  <2>1. PICK n \in Monitor : Launch(a, n) \/ Pause(a, n) BY <1>0, <1>2 DEF Request, Retire, Cancel
  <2>2. CASE Pause(a, n) BY <1>1, <2>2 DEF Pause
  <2>3. CASE Launch(a, n)
    <3>1. PICK r : r.status /\ rows' = [rows EXCEPT ![n] = r] BY <1>0, <2>3 DEF Launch
    <3> QED BY <1>0, <3>1 DEF TypeOK
  <2> QED BY <2>1, <2>2, <2>3
<1>3. ASSUME NEW a \in Agent, Create(a) PROVE FALSE
  <2>1. Attach(a) \/ RecordFailure(a)
    BY <1>0, <1>3 DEF Create, ReadIntent, FindWorkload, CreateWorkload, Validate, Confirm
  <2>2. \/ \E w : rows' = [rows EXCEPT ![Mon(a)].cid = w]
        \/ rows' = [rows EXCEPT ![Mon(a)].stage = "terminal"] BY <1>0, <2>1 DEF Attach, RecordFailure
  <2> QED BY <1>1, <2>2
<1>4. ASSUME NEW a \in Agent, MarkRetired(a) PROVE FALSE
  <2>1. PICK r : r = MarkDeleting(agents[a].snap) OBVIOUS
  <2>2. rows' = [rows EXCEPT ![Mon(a)].desired = r.desired, ![Mon(a)].stop = r.stop,
                             ![Mon(a)].version = r.version] BY <1>0, <1>4, <2>1 DEF MarkRetired
  <2> QED BY <1>1, <2>2
<1>5. ASSUME NEW n, NEW a \in Agent, PurgeRow(n) PROVE FALSE BY <1>0, <1>5 DEF PurgeRow, TypeOK, NoRow
<1>6. ASSUME NEW a \in Agent, Purge(a) \/ Complete(a) \/ ApplyStopConfirmed(a) PROVE Goal
  <2>1. CASE Complete(a)
    <3>1. CompleteRow(Mon(a)) /\ rows[Mon(a)].cid = agents[a].snap.cid /\ agents[a].pc = "complete"
      BY <1>0, <2>1 DEF Complete, At
    <3>2. Mon(a) = m BY <1>0, <3>1 DEF CompleteRow, TypeOK
    <3> QED BY <3>1, <3>2 DEF Completing
  <2>2. CASE ApplyStopConfirmed(a)
    <3>1. CompleteRow(Mon(a)) /\ Matches(a) /\ agents[a].pc = "stopConfirmed"
      BY <1>0, <1>5, <2>2 DEF ApplyStopConfirmed, At
    <3>2. Mon(a) = m BY <1>0, <3>1 DEF CompleteRow, TypeOK
    <3> QED BY <3>1, <3>2 DEF Completing, Matches
  <2> QED BY <1>0, <1>5, <1>6, <2>1, <2>2 DEF Purge
<1>7. ASSUME NEW a \in Agent, ApplyRunning(a) \/ ApplyTerminal(a) PROVE FALSE
  <2>1. \/ rows' = [rows EXCEPT ![Mon(a)].status = TRUE, ![Mon(a)].stage = "live"]
        \/ rows' = [rows EXCEPT ![Mon(a)].status = TRUE, ![Mon(a)].stage = "terminal"]
        \/ rows' = [rows EXCEPT ![Mon(a)] = [RequestStop(@) EXCEPT !.stage = "terminal"]]
    BY <1>0, <1>7 DEF ApplyRunning, ApplyTerminal, FailAbandoned
  <2> QED BY <1>1, <2>1
<1>8. ASSUME NEW n \in Monitor, StopFailed(n) \/ TaskStarts(n) \/ Worker(n) \/ ExternalRemove(n)
      PROVE  FALSE
  <2>1. \/ rows' = [rows EXCEPT ![n] = RequestStop(@)]
        \/ \E s : rows' = [rows EXCEPT ![n].stage = s] BY <1>0, <1>8
    DEF StopFailed, TaskStarts, ExternalRemove, Worker, Admit, TaskEnds, WorkerFails, Heartbeat
  <2> QED BY <1>1, <2>1
<1>9. ASSUME NEW a \in Agent, RemoveIntent(a) \/ Reconcile(a) \/ Fault(a) PROVE FALSE BY <1>0, <1>9
  DEF RemoveIntent, RemoveById, AwaitById, RemoveByName, AwaitByName,
      Reconcile, Recover, SweepList, Snapshot,
      Fault, AbandonCreate, CreationFails, RemovalFails, Crash
<1>10. ASSUME NEW a \in Agent, CancelSuccessor(a) \/ PauseRead(a) \/ SweepRead(a) \/ Inspect(a)
       PROVE  FALSE BY <1>0, <1>10 DEF CancelSuccessor, PauseRead, SweepRead, Inspect
<1>11. ASSUME NEW i \in inflight, DelayedCreate(i[1], i[2]) PROVE FALSE BY <1>0, <1>11 DEF DelayedCreate
<1> HIDE DEF Goal
<1>12. ASSUME NEW a \in Agent, Proceed(a) PROVE Goal BY <1>3, <1>4, <1>6, <1>7, <1>9, <1>10, <1>12 DEF Proceed
<1>13. Goal BY <1>2, <1>8, <1>9, <1>11, <1>12 DEF Next
<1> QED BY <1>13 DEF Goal

StopCompleted(m) ==
  rows[m].status /\ ~rows'[m].status /\ Present(m)' /\ rows[m].cid # NoWorkload
    => task[m][rows[m].cid] \notin Live

\* A stop is completed only once the task of the workload on record is gone,
\* even one attached while the stop was carried out, and even one whose
\* service was removed behind TACTIC's back.
THEOREM StopsAwaitTasks == Spec => StopAwaitsTask
<1>1. ASSUME TypeOK, RemovalInvariant, Next, NEW m \in Monitor
      PROVE  StopCompleted(m)
  <2>1. SUFFICES ASSUME rows[m].status, ~rows'[m].status, Present(m)', rows[m].cid # NoWorkload
                 PROVE  task[m][rows[m].cid] \notin Live BY DEF StopCompleted
  <2>2. PICK a \in Agent : /\ agents[a].pc \in Completing /\ Mon(a) = m
                           /\ rows[m].cid = agents[a].snap.cid BY <1>1, <2>1, OnlyCompletionReleases
  <2>3. AttachedGone(a) BY <1>1 DEF RemovalInvariant
  <2>4. rows[m].cid = NoWorkload \/ Gone(m, rows[m].cid) BY <2>2, <2>3 DEF AttachedGone, Completing
  <2> QED BY <2>1, <2>4 DEF Gone
<1>2. TypeOK /\ RowsConsistent /\ RemovalInvariant /\ [Next]_vars
        => [\A m \in Monitor :
              rows[m].status /\ ~rows'[m].status /\ Present(m)' /\ rows[m].cid # NoWorkload
                => task[m][rows[m].cid] \notin Live]_vars
  <2>1. SUFFICES ASSUME TypeOK, RemovalInvariant, Next, NEW m \in Monitor
                 PROVE  rows[m].status /\ ~rows'[m].status /\ Present(m)' /\ rows[m].cid # NoWorkload
                          => task[m][rows[m].cid] \notin Live OBVIOUS
  <2> QED BY <1>1, <2>1 DEF StopCompleted
<1> QED BY <1>2, RemovalAlways, PTL DEF Spec, StopAwaitsTask

-----------------------------------------------------------------------------
(* One workload for a monitor that should run.                             *)

CreationPcs == {"find", "create", "validate", "attach", "confirm"}

\* A step of a creation that goes on.
Creates(a) ==
  LET m == Mon(a) IN
  /\ agents[a].pc # "idle" /\ agents'[a].mon = m
  /\ \/ /\ agents'[a].pc = "find" /\ agents'[a].ver = rows[m].version
     \/ /\ agents'[a].pc = "create" /\ At(a, "find") /\ agents'[a].ver = agents[a].ver
     \/ /\ agents'[a].pc = "validate" /\ agents[a].pc \in {"find", "create"}
        /\ agents'[a].ver = agents[a].ver
        /\ svc'[m] # NoService /\ agents'[a].wid = svc'[m].id
     \/ /\ agents'[a].pc = "attach" /\ At(a, "validate")
        /\ agents'[a].ver = agents[a].ver /\ agents'[a].wid = agents[a].wid
     \/ /\ agents'[a].pc = "confirm" /\ Attach(a)
        /\ agents'[a].ver = agents[a].ver /\ agents'[a].wid = agents[a].wid

\* A creation goes on in these ways only.
LEMMA CreationGoesOn ==
  ASSUME TypeOK, NEW a \in Agent, AgentAction(a), agents'[a].pc \in CreationPcs
  PROVE  Creates(a)
<1> USE DEF CreationPcs
<1>0. AgentsTyped /\ agents[a] \in AgentState BY DEF TypeOK, AgentsTyped
<1>1. ASSUME NEW s, Become(a, s) PROVE agents'[a] = s BY <1>0, <1>1 DEF Become, AgentsTyped
<1>2. ASSUME NEW m, NEW pc, Become(a, Begin(m, pc)) PROVE pc \in CreationPcs BY <1>1, <1>2 DEF Begin, Idle
<1>3. ASSUME Finish(a) \/ Fails(a) PROVE FALSE
  <2>1. ASSUME Finish(a) PROVE FALSE BY <1>1, <2>1 DEF Finish, Idle
  <2>2. ASSUME Fails(a) PROVE FALSE BY <1>2, <2>2 DEF Fails
  <2> QED BY <1>3, <2>1, <2>2
<1>4. ASSUME NEW pc, Goto(a, pc)
      PROVE  /\ agents'[a].pc = pc /\ agents'[a].mon = agents[a].mon
             /\ agents'[a].ver = agents[a].ver /\ agents'[a].wid = agents[a].wid
  BY <1>0, <1>4 DEF Goto, AgentsTyped, AgentState, AgentRecord
<1>5. ASSUME NEW m, NEW w, NEW v, NEW t, Become(a, Remove(m, w, v, t)) PROVE FALSE
  <2>1. agents'[a].pc = "removeId" BY <1>1, <1>5 DEF Remove, Begin, Idle
  <2> QED BY <2>1
<1>6. ASSUME NEW m, ReadToRetire(a, m) PROVE FALSE BY <1>1, <1>6 DEF ReadToRetire, Begin, Idle
<1>7. ASSUME Request(a) PROVE FALSE BY <1>2, <1>6, <1>7 DEF Request, Launch, Retire, Cancel, Pause
<1>8. ASSUME Reconcile(a) PROVE FALSE
  <2>1. PICK m \in Monitor : Recover(a, m) \/ SweepList(a, m) \/ Snapshot(a, m) BY <1>8 DEF Reconcile
  <2>2. \/ agents'[a] = Begin(m, "read")
        \/ agents'[a] = [Begin(m, "sweepRead") EXCEPT !.wid = svc[m].id]
        \/ agents'[a] = [Begin(m, "inspect") EXCEPT !.snap = Captured(rows[m])]
    BY <1>1, <2>1 DEF Recover, SweepList, Snapshot
  <2> QED BY <2>2 DEF Begin, Idle
<1>9. ASSUME NEW w, NEW v, Adopt(a, w, v), agents[a].pc \in {"find", "create"},
             svc'[Mon(a)] # NoService, w = svc'[Mon(a)].id
      PROVE  Creates(a)
  <2>1. agents' = [agents EXCEPT ![a].pc = "validate", ![a].wid = w] BY <1>3, <1>9 DEF Adopt
  <2>2. /\ agents'[a].pc = "validate" /\ agents'[a].mon = agents[a].mon
        /\ agents'[a].ver = agents[a].ver /\ agents'[a].wid = w
    BY <1>0, <2>1 DEF AgentsTyped, AgentState, AgentRecord
  <2> QED BY <1>9, <2>2 DEF Creates, Mon
<1>10. CASE Create(a)
  <2>0. agents[a].pc # "idle" /\ Mon(a) \in Monitor BY <1>0, <1>10, BusyMon
    DEF Create, ReadIntent, FindWorkload, CreateWorkload, Validate, Attach, Confirm, RecordFailure, At
  <2>1. CASE ReadIntent(a)
    <3>1. agents' = [agents EXCEPT ![a].pc = "find", ![a].ver = rows[Mon(a)].version]
      BY <1>3, <2>1 DEF ReadIntent
    <3>2. /\ agents'[a].pc = "find" /\ agents'[a].mon = agents[a].mon
          /\ agents'[a].ver = rows[Mon(a)].version BY <1>0, <3>1 DEF AgentsTyped, AgentState, AgentRecord
    <3> QED BY <2>0, <3>2 DEF Creates, Mon
  <2>2. CASE FindWorkload(a)
    <3>1. svc' = svc /\ At(a, "find") BY <2>2 DEF FindWorkload, docker
    <3>2. \/ svc[Mon(a)] # NoService /\ AdoptExisting(a, Mon(a))
          \/ Goto(a, "create") BY <2>2 DEF FindWorkload
    <3> QED BY <1>4, <1>9, <2>0, <3>1, <3>2 DEF AdoptExisting, At, Creates, Mon
  <2>3. CASE CreateWorkload(a)
    <3>1. CASE CanCreate(Mon(a)) /\ DockerCreate(Mon(a), agents[a].ver)
      <4>1. svc'[Mon(a)] = [id |-> NewId(Mon(a)), up |-> TRUE] BY <2>0, <3>1 DEF DockerCreate, TypeOK
      <4>2. svc'[Mon(a)].id = NewId(Mon(a)) /\ svc'[Mon(a)] # NoService
        <5>1. svc'[Mon(a)].up BY <4>1
        <5> QED BY <4>1, <5>1 DEF NoService
      <4>3. svc[Mon(a)] = NoService BY <3>1 DEF CanCreate
      <4> QED BY <1>3, <1>9, <2>3, <3>1, <4>2, <4>3 DEF CreateWorkload, At
    <3>2. CASE svc[Mon(a)] # NoService /\ AdoptExisting(a, Mon(a)) /\ UNCHANGED svc
      BY <1>9, <2>3, <3>2 DEF CreateWorkload, AdoptExisting, At
    <3> QED BY <1>3, <2>3, <3>1, <3>2 DEF CreateWorkload
  <2>4. CASE Validate(a) \/ Attach(a) BY <1>3, <1>4, <2>0, <2>4 DEF Validate, Attach, Creates, Mon, At
  <2>5. CASE Confirm(a) \/ RecordFailure(a) BY <1>3, <1>5, <2>5 DEF Confirm, RecordFailure
  <2> QED BY <1>10, <2>1, <2>2, <2>3, <2>4, <2>5 DEF Create
<1>11. ASSUME RemoveIntent(a) PROVE FALSE
  <2>1. agents[a].then \in After BY <1>0 DEF AgentState, AgentRecord
  <2>2. ASSUME agents' = [agents EXCEPT ![a].pc = "waitName", ![a].wid = svc[Mon(a)].id] PROVE FALSE
    BY <1>0, <2>2 DEF AgentsTyped, AgentState, AgentRecord
  <2> QED BY <1>3, <1>4, <1>11, <2>1, <2>2
    DEF RemoveIntent, RemoveById, AwaitById, RemoveByName, AwaitByName, Continue, After, Removed
<1>12. ASSUME MarkRetired(a) \/ CancelSuccessor(a) \/ SweepRead(a) PROVE FALSE
  BY <1>3, <1>5, <1>6, <1>12 DEF MarkRetired, CancelSuccessor, SweepRead
<1>13. ASSUME PauseRead(a) PROVE FALSE
  <2>1. PICK m : m = Mon(a) OBVIOUS
  <2>2. agents'[a] = [Remove(m, rows[m].cid, rows[m].version, "complete") EXCEPT !.snap.cid = rows[m].cid]
    BY <1>1, <1>3, <1>13, <2>1 DEF PauseRead
  <2>3. agents'[a].pc = "removeId" BY <2>2 DEF Remove, Begin, Idle
  <2> QED BY <2>3
<1>14. ASSUME Inspect(a) PROVE FALSE
  <2>1. PICK s : s = agents[a].snap OBVIOUS
  <2>2. ASSUME Become(a, [Remove(Mon(a), s.cid, 0, "stopConfirmed") EXCEPT !.snap = s]) PROVE FALSE
    <3>1. agents'[a] = [Remove(Mon(a), s.cid, 0, "stopConfirmed") EXCEPT !.snap = s] BY <1>1, <2>2
    <3>2. agents'[a].pc = "removeId" BY <3>1 DEF Remove, Begin, Idle
    <3> QED BY <3>2
  <2>3. PICK seen \in (IF s.cid = NoWorkload THEN {"idle"} ELSE DockerStatus(Mon(a), s.cid)) :
             Finish(a) \/ Goto(a, seen) BY <1>14, <2>1, <2>2 DEF Inspect
  <2>4. Mon(a) \in Monitor /\ s.cid \in Workload \cup {NoWorkload}
    BY <1>0, <1>14, <2>1, BusyMon DEF Inspect, At, AgentState, AgentRecord, Row
  <2>5. seen \notin CreationPcs BY <2>3, <2>4 DEF DockerStatus, TaskState, TypeOK
  <2> QED BY <1>3, <1>4, <2>3, <2>5
<1>15. ASSUME Purge(a) \/ Complete(a) \/ ApplyStopConfirmed(a) \/ ApplyRunning(a) \/ ApplyTerminal(a)
       PROVE  FALSE BY <1>3, <1>15 DEF Purge, Complete, ApplyStopConfirmed, ApplyRunning, ApplyTerminal
<1>16. ASSUME Fault(a) PROVE FALSE BY <1>3, <1>16 DEF Fault, AbandonCreate, CreationFails, RemovalFails, Crash
<1> QED BY <1>7, <1>8, <1>10, <1>11, <1>12, <1>13, <1>14, <1>15, <1>16 DEF AgentAction, Proceed

\* Nobody removes the workload of a monitor that should run.
LEMMA RunningKeepsService ==
  ASSUME TypeOK, OnlyRetiredRemoved, Next, external' = external, NEW m \in Monitor, RunningIntent(m)
  PROVE  SameServices(m) \/ Made(m)
<1>1. WorkloadStep(m) BY WorkloadsOfNext
<1>2. ~Reduced(m) BY DEF Reduced, OnlyRetiredRemoved, Retired
<1> QED BY <1>1, <1>2 DEF WorkloadStep, Vanished

\* A removal begins for a retired monitor only.
LEMMA BeginsRetired ==
  ASSUME TypeOK, IntentInvariant, LaunchInvariant, OneWorkload, Next, NEW a \in Agent, Begins(a),
         NEW m, m = Mon(a)
  PROVE  Retired(m)'
<1>0. /\ m \in Monitor /\ Spent(m) /\ IntentKnown(a)
      /\ agents[a].pc # "idle" /\ agents[a] \in AgentState
  <2>1. agents[a].pc # "idle"
    BY DEF Begins, Confirm, MarkRetired, CancelSuccessor, SweepRead, PauseRead, Inspect, At
  <2> QED BY <2>1, BusyMon DEF TypeOK, AgentsTyped, At, LaunchInvariant, IntentInvariant
<1>1. Retired(m) => Retired(m)' BY <1>0, RetiredStays
<1>2. ~RunningIntent(m) => Retired(m) BY <1>0 DEF Retired, Spent
<1>3. CASE Confirm(a) /\ ~OwnsWorkload(a)
  <2>1. ~RunningIntent(m) BY <1>0, <1>3 DEF Confirm, OwnsWorkload, OneWorkload, At
  <2> QED BY <1>1, <1>2, <2>1
<1>4. CASE MarkRetired(a)
  <2>1. PICK r : r = MarkDeleting(agents[a].snap) OBVIOUS
  <2>2. CASE r = agents[a].snap
    <3>1. agents[a].snap.desired = "deleted"
      BY <1>0, <2>1, <2>2 DEF MarkDeleting, AgentState, AgentRecord, Row
    <3> QED BY <1>0, <1>1, <1>4, <3>1 DEF MarkRetired, IntentKnown, At
  <2>3. CASE r # agents[a].snap
    <3>1. r.desired = "deleted" BY <1>0, <2>1, <2>3 DEF MarkDeleting, AgentState, AgentRecord, Row
    <3>2. ~Finish(a)
      <4>1. Finish(a) => agents'[a].pc = "idle" BY DEF Finish, Become, TypeOK, Idle
      <4> QED BY <4>1 DEF Begins
    <3>3. rows' = [rows EXCEPT ![m].desired = r.desired, ![m].stop = r.stop, ![m].version = r.version]
      BY <1>4, <2>1, <2>3, <3>2 DEF MarkRetired
    <3>4. rows'[m].desired = "deleted" BY <1>0, <3>1, <3>3 DEF TypeOK, Row
    <3> QED BY <3>4 DEF Retired, RunningIntent, Present
  <2> QED BY <2>2, <2>3
<1>5. CASE CancelSuccessor(a) /\ ~Present(m) BY <1>1, <1>2, <1>5 DEF Present, RunningIntent
<1>6. CASE SweepRead(a) /\ rows[m].desired # "running" BY <1>1, <1>2, <1>6 DEF RunningIntent
<1>7. CASE PauseRead(a) /\ rows[m].desired \in {"stopped", "deleted"} BY <1>1, <1>2, <1>7 DEF RunningIntent
<1>8. CASE Inspect(a) /\ MustNotRun(agents[a].snap) BY <1>0, <1>1, <1>8 DEF Inspect, IntentKnown, At
<1> QED BY <1>3, <1>4, <1>5, <1>6, <1>7, <1>8 DEF Begins

\* Who removes a workload removes that of a retired monitor.
LEMMA OnlyRetiredRemovedStays ==
  ASSUME TypeOK, IntentInvariant, LaunchInvariant, OneWorkload, OnlyRetiredRemoved, Next
  PROVE  OnlyRetiredRemoved'
<1> SUFFICES ASSUME NEW a \in Agent, agents'[a].pc \in Removing, NEW n, n = agents'[a].mon
             PROVE  Retired(n)' BY DEF OnlyRetiredRemoved, Mon, Retired, RunningIntent, Present, RunEnded
<1>0. PICK m : m = Mon(a) OBVIOUS
<1>1. agents[a].pc \in Removing => m \in Monitor /\ Retired(m)
  BY <1>0, BusyMon DEF TypeOK, AgentsTyped, Removing, OnlyRetiredRemoved
<1>2. CASE agents'[a] = agents[a] BY <1>0, <1>1, <1>2, RetiredStays DEF Mon
<1>3. CASE RemoveIntent(a)
  <2>0. AgentsTyped /\ agents[a] \in AgentState BY DEF TypeOK, AgentsTyped
  <2>1. agents[a].pc \in Removing
    BY <1>3 DEF RemoveIntent, RemoveById, AwaitById, RemoveByName, AwaitByName, At, Removing
  <2>2. ASSUME Finish(a) PROVE FALSE BY <2>0, <2>2 DEF Finish, Become, AgentsTyped, Idle, Removing
  <2>3. ASSUME NEW pc, Goto(a, pc) PROVE n = m
    BY <1>0, <2>0, <2>3 DEF Goto, AgentsTyped, AgentState, AgentRecord, Mon
  <2>4. ASSUME agents' = [agents EXCEPT ![a].pc = "waitName", ![a].wid = svc[Mon(a)].id] PROVE n = m
    BY <1>0, <2>0, <2>4 DEF AgentsTyped, AgentState, AgentRecord, Mon
  <2>5. n = m BY <1>3, <2>2, <2>3, <2>4
    DEF RemoveIntent, RemoveById, AwaitById, RemoveByName, AwaitByName, Continue
  <2> QED BY <1>1, <2>1, <2>5, RetiredStays
<1>4. CASE AgentAction(a) /\ ~RemoveIntent(a)
  <2>1. Begins(a) BY <1>4, RemovalBegins
  <2> QED BY <1>0, <2>1, BeginsRetired DEF Begins
<1> QED BY <1>2, <1>3, <1>4, OnlyActorsMove

\* What an agent knows of the one workload still holds for those that rest.
OneWorkloadOf(a, m) ==
  /\ agents[a].pc \in CreationPcs => agents[a].ver = 1
  /\ agents[a].pc \in {"validate", "attach", "confirm"}
       => agents[a].wid = svc[m].id /\ agents[a].wid # NoWorkload
  /\ agents[a].pc = "confirm" => rows[m].cid = agents[a].wid

\* A monitor that should run keeps its one workload.
LEMMA OneWorkloadStays ==
  ASSUME TypeOK, IntentInvariant, LaunchInvariant, OneWorkload, OnlyRetiredRemoved, Next,
         external' = external
  PROVE  OneWorkload'
<1> SUFFICES ASSUME NEW m \in Monitor, RunningIntent(m)'
             PROVE  /\ rows'[m].version = 1
                    /\ rows'[m].cid \in {NoWorkload, svc'[m].id}
                    /\ \A a \in Agent : Mon(a)' = m => OneWorkloadOf(a, m)'
  BY DEF OneWorkload, OneWorkloadOf, CreationPcs, At
<1>1. AttachStep(m) BY AttachesOfNext
<1>2. ASSUME NEW a \in Agent, agents'[a].mon = m, agents'[a].pc \in CreationPcs, agents'[a] # agents[a]
      PROVE  Creates(a) /\ Mon(a) = m BY <1>2, OnlyActorsMove, CreationGoesOn DEF Creates
<1>3. CASE ~Spent(m)
  <2>1. ASSUME NEW a \in Agent, Mon(a)' = m PROVE OneWorkloadOf(a, m)'
    <3>1. agents[a].pc # "idle" => Mon(a) # m BY <1>3 DEF LaunchInvariant, At
    <3>2. agents'[a].pc \notin CreationPcs BY <1>2, <2>1, <3>1 DEF Creates, Mon, CreationPcs
    <3> QED BY <3>2 DEF OneWorkloadOf, CreationPcs
  <2>2. ~RunningIntent(m) BY <1>3 DEF Spent, Present, RunningIntent
  <2> QED BY <1>1, <2>1, <2>2 DEF AttachStep
<1>4. CASE Spent(m)
  <2>1. /\ RunningIntent(m) /\ rows'[m].version = rows[m].version
        /\ Present(m)' BY <1>1, <1>4 DEF AttachStep, RunningIntent, Present
  <2>2. /\ rows[m].version = 1 /\ rows[m].cid \in {NoWorkload, svc[m].id}
        /\ \A a \in Agent : Mon(a) = m => OneWorkloadOf(a, m)
    BY <2>1 DEF OneWorkload, OneWorkloadOf, CreationPcs, At
  <2>3. SameServices(m) \/ Made(m) BY <2>1, RunningKeepsService
  <2>4. Made(m) => /\ svc[m].id = NoWorkload
                   /\ \A a \in Agent : Mon(a) = m => agents[a].pc \notin {"validate", "attach", "confirm"}
    BY <2>2 DEF Made, NoService, OneWorkloadOf
  <2>5. \/ rows'[m].cid = rows[m].cid
        \/ \E a \in Agent : /\ At(a, "attach") /\ Mon(a) = m
                            /\ rows[m].cid = NoWorkload /\ rows'[m].cid = agents[a].wid
    BY <1>1, <1>4, <2>1 DEF AttachStep
  <2>6. rows'[m].cid \in {NoWorkload, svc'[m].id}
    BY <2>2, <2>3, <2>4, <2>5 DEF SameServices, OneWorkloadOf, At
  <2>7. ASSUME NEW a \in Agent, Mon(a)' = m PROVE OneWorkloadOf(a, m)'
    <3>1. CASE agents'[a] = agents[a]
      <4>1. Mon(a) = m /\ OneWorkloadOf(a, m) BY <2>2, <2>7, <3>1 DEF Mon
      <4>2. agents[a].pc \in {"validate", "attach", "confirm"} => svc'[m] = svc[m]
        BY <2>3, <2>4, <4>1 DEF SameServices
      <4>3. agents[a].pc = "confirm" => rows'[m].cid = rows[m].cid BY <2>5, <4>1 DEF OneWorkloadOf
      <4> QED BY <3>1, <4>1, <4>2, <4>3 DEF OneWorkloadOf
    <3>2. CASE agents'[a] # agents[a] /\ agents'[a].pc \in CreationPcs
      <4>1. Creates(a) /\ Mon(a) = m /\ OneWorkloadOf(a, m) BY <1>2, <2>2, <2>7, <3>2 DEF Mon
      <4>2. agents[a].pc \in {"validate", "attach", "confirm"} => svc'[m] = svc[m]
        BY <2>3, <2>4, <4>1 DEF SameServices
      <4>3. CASE agents'[a].pc = "find" /\ agents'[a].ver = rows[m].version BY <2>2, <4>3 DEF OneWorkloadOf
      <4>4. CASE agents'[a].pc = "create" /\ At(a, "find") /\ agents'[a].ver = agents[a].ver
        BY <4>1, <4>4 DEF OneWorkloadOf, At, CreationPcs
      <4>5. CASE /\ agents'[a].pc = "validate" /\ agents[a].pc \in {"find", "create"}
                 /\ agents'[a].ver = agents[a].ver
                 /\ svc'[m] # NoService /\ agents'[a].wid = svc'[m].id
        <5>1. svc'[m].id # NoWorkload BY <4>5, LaunchInductive DEF LaunchInvariant
        <5> QED BY <4>1, <4>5, <5>1 DEF OneWorkloadOf, CreationPcs
      <4>6. CASE /\ agents'[a].pc = "attach" /\ At(a, "validate")
                 /\ agents'[a].ver = agents[a].ver /\ agents'[a].wid = agents[a].wid
        BY <4>1, <4>2, <4>6 DEF OneWorkloadOf, At, CreationPcs
      <4>7. CASE /\ agents'[a].pc = "confirm" /\ Attach(a)
                 /\ agents'[a].ver = agents[a].ver /\ agents'[a].wid = agents[a].wid
        <5>1. rows'[m].cid = IF RunningIntent(m) /\ rows[m].version = agents[a].ver /\ rows[m].cid = NoWorkload
                             THEN agents[a].wid ELSE rows[m].cid BY <4>1, <4>7 DEF Attach, TypeOK, Row
        <5>2. agents[a].pc = "attach" BY <4>7 DEF Attach, At
        <5> QED BY <2>1, <2>2, <4>1, <4>2, <4>7, <5>1, <5>2 DEF OneWorkloadOf, CreationPcs
      <4> QED BY <4>1, <4>3, <4>4, <4>5, <4>6, <4>7 DEF Creates
    <3>3. CASE agents'[a].pc \notin CreationPcs BY <3>3 DEF OneWorkloadOf, CreationPcs
    <3> QED BY <3>1, <3>2, <3>3
  <2> QED BY <2>1, <2>2, <2>6, <2>7
<1> QED BY <1>3, <1>4

\* The invariant of the sweep is inductive while nobody removes services
\* behind TACTIC's back.
LEMMA SweepInductive ==
  ASSUME TypeOK, IntentInvariant, LaunchInvariant, OneWorkload, OnlyRetiredRemoved, [Next]_vars,
         MaxExternal = 0
  PROVE  OneWorkload' /\ OnlyRetiredRemoved'
<1>1. CASE Next
  <2>1. external' = external BY <1>1, DockerOfNext DEF TypeOK, DockerTyped
  <2> QED BY <1>1, <2>1, OneWorkloadStays, OnlyRetiredRemovedStays
<1>2. CASE UNCHANGED vars BY <1>2
  DEF vars, docker, OneWorkload, OnlyRetiredRemoved, Retired, RunningIntent, Present, RunEnded, At, Mon
<1> QED BY <1>1, <1>2

\* At first no monitor should run and nobody works.
LEMMA InitSweep == Init => OneWorkload /\ OnlyRetiredRemoved
BY DEF Init, OneWorkload, OnlyRetiredRemoved, RunningIntent, NoRow, Idle, Removing

\* Without external removals, every state satisfies the invariant of the sweep.
LEMMA SweepAlways ==
  ASSUME MaxExternal = 0
  PROVE  Spec => [](/\ TypeOK /\ IntentInvariant /\ LaunchInvariant
                    /\ OneWorkload /\ OnlyRetiredRemoved)
<1>1. TypeOK /\ IntentInvariant /\ LaunchInvariant /\ OneWorkload /\ OnlyRetiredRemoved /\ [Next]_vars
        => OneWorkload' /\ OnlyRetiredRemoved' BY SweepInductive
<1> QED BY <1>1, InitSweep, LaunchAlways, PTL DEF Spec

Spared(m) ==
  svc[m] # NoService /\ svc'[m] # svc[m] /\ external' = external => ~RunningIntent(m)

\* While nobody else removes services, no task of TACTIC removes or scales
\* down the service of a monitor that should run, however old the list,
\* snapshot or row it works from: whatever is attached, validated or found is
\* the one workload of the launch.
THEOREM SweepSpares ==
  ASSUME MaxExternal = 0
  PROVE  Spec => SweepSparesRunning
<1>1. ASSUME TypeOK, OnlyRetiredRemoved, Next, NEW m \in Monitor
      PROVE  Spared(m) BY <1>1, RunningKeepsService DEF Spared, SameServices, Made
<1>2. TypeOK /\ IntentInvariant /\ LaunchInvariant /\ OneWorkload /\ OnlyRetiredRemoved /\ [Next]_vars
        => [\A m \in Monitor :
              svc[m] # NoService /\ svc'[m] # svc[m] /\ external' = external
                => ~RunningIntent(m)]_vars BY <1>1 DEF Spared
<1> QED BY <1>2, SweepAlways, PTL DEF Spec, SweepSparesRunning

\* The invariant the runs check of one monitor, in every state and for any
\* number of monitors and agents.
THEOREM LifecycleHolds ==
  ASSUME MaxExternal = 0
  PROVE  Spec => []LifecycleInvariant
<1>1. ClaimInvariant /\ LaunchInvariant /\ SnapshotsFresh /\ RemovalInvariant /\ OneWorkload
        /\ OnlyRetiredRemoved => LifecycleInvariant BY DEF LifecycleInvariant
<1>2. Spec => []ClaimInvariant BY ClaimAlways, PTL
<1>3. Spec => [](LaunchInvariant /\ OneWorkload /\ OnlyRetiredRemoved) BY SweepAlways, PTL
<1>4. Spec => []SnapshotsFresh BY SnapshotsAlways, PTL
<1>5. Spec => []RemovalInvariant BY RemovalAlways, PTL
<1> QED BY <1>1, <1>2, <1>3, <1>4, <1>5, PTL
=============================================================================
