----------------------- MODULE PipelineActivationProofs -----------------------
(***************************************************************************)
(* What holds of activations for every set of requests, controllers and    *)
(* readings, any capacity and any number of faults: a hand-over never has  *)
(* two monitors on a reading or one too many, what ended leaves nothing,   *)
(* phases go forward, the sweep spares a running preflight, and the claims *)
(* are those that SensorClaims promises.                                   *)
(*                                                                         *)
(* A step is of one of four kinds: a request, a change of one activation's *)
(* phase, a change of one service with its run and worker, or neither.     *)
(* The inductive invariant says what is whole about each activation, each  *)
(* controller and the preflight jobs, and counts the owners of slots.      *)
(***************************************************************************)
EXTENDS PipelineActivation, FiniteSetTheorems, FunctionTheorems, TLAPS

USE ConstantsAssumption

Over(r) == r \in {"failed", "ended"}

-----------------------------------------------------------------------------
(* The inductive invariant.                                                *)

\* What is whole about an activation, its run and its service.  A predecessor has ended its
\* own activation, and once the successor may be there its row is gone.
ActivationWhole(a) ==
  LET r == act[a]
      s == svc[a]
  IN
  /\ r.phase = "none" => /\ s.intent = "none" /\ run[a] = "none" /\ a \notin worker
                         /\ r.pred = NoActivation
  /\ r.phase # "none" => r.inputs \in Requests /\ run[a] # "none"
  /\ r.pred # NoActivation => r.pred # a /\ act[r.pred].phase \in Terminal
  /\ r.phase = "retiring" => r.pred # NoActivation
  /\ s.intent = "running" => s.claim
  /\ s.intent = "none" => ~s.claim
  /\ a \in worker => s.claim
  /\ r.pred # NoActivation /\ (s.claim \/ r.phase \in {"starting", "awaiting_heartbeat"})
       => svc[r.pred].intent = "none"
  /\ r.phase \in {"cancelled", "failed"} => Over(run[a]) /\ s.intent # "running"

\* What a controller in phase ph of activation a can rely on, given the rows A.
TakenWhole(a, ph, A) ==
  /\ a \in Activation
  /\ A[a].phase \notin {"none", "requested"}
  /\ ph \in Phase \ (Terminal \cup {"none", "requested"})
  /\ ph = "cancelling" => A[a].phase \in {"cancelling", "cancelled", "failed"}

\* The phase that a controller at pc is in.
InPhase(pc, ph) ==
  /\ pc \in {"preflighting", "job", "report", "preflighted"} \cup Unjob => ph = "preflighting"
  /\ pc = "validated" => ph = "validated"
  /\ pc \in {"retiring", "shutdown", "absent", "purge", "retired"} => ph = "retiring"
  /\ pc \in {"starting", "launch", "create", "started"} => ph = "starting"
  /\ pc = "awaiting_heartbeat" => ph = "awaiting_heartbeat"
  /\ pc \in {"cancelling", "delete", "absentSuccessor", "stop", "purgeSuccessor", "confirm",
             "stopped", "cleanup", "end"} => ph = "cancelling"

\* ... and what it can rely on there, given services S, runs R and workers W: a predecessor
\* that is retired never runs again, nor does a successor whose run it closed.
PlaceWhole(pc, a, ph, A, S, R, W) ==
  /\ pc \in Pc /\ InPhase(pc, ph)
  /\ pc \in {"shutdown", "absent", "purge", "retired"} =>
       A[a].pred # NoActivation /\ S[A[a].pred].intent # "running"
  /\ pc \in {"absent", "retired"} => S[A[a].pred].intent = "none"
  /\ pc = "purge" => A[a].pred \notin W
  /\ pc \in {"delete", "absentSuccessor", "stop", "purgeSuccessor", "confirm", "stopped",
             "cleanup", "end"} => Over(R[a])
  /\ pc \in {"absentSuccessor", "stop", "purgeSuccessor", "confirm", "stopped", "cleanup",
             "end"} => S[a].intent # "running"
  /\ pc = "purgeSuccessor" => a \notin W

TaskWhole(c) ==
  LET t == ctl[c] IN
  IF t.pc = "idle" THEN t = Idle
  ELSE TakenWhole(t.act, t.phase, act) /\ PlaceWhole(t.pc, t.act, t.phase, act, svc, run, worker)

ClaimsApart ==
  \A s, t \in Activation :
    s # t /\ svc[s].claim /\ svc[t].claim => act[s].inputs \cap act[t].inputs = {}

\* A preflight job is of an activation that is, or was, preflighting; the sweep removes one
\* that was.
JobsKnown ==
  /\ \A a \in jobs \cup calls : act[a].phase \notin {"none", "requested"}
  /\ sweep # NoActivation => act[sweep].phase \notin {"none", "requested", "preflighting"}

OwnersCounted == IsFiniteSet(Owners) /\ Cardinality(Owners) <= Capacity

Whole ==
  /\ TypeOK
  /\ \A a \in Activation : ActivationWhole(a)
  /\ \A c \in Controller : TaskWhole(c)
  /\ ClaimsApart /\ JobsKnown /\ OwnersCounted

-----------------------------------------------------------------------------
(* The kinds of steps.                                                     *)

\* The same rows, but for tokens, leases, errors, requests to cancel, and retirements that
\* start before such a request.
SameRow(a) ==
  /\ act'[a].phase = act[a].phase /\ act'[a].inputs = act[a].inputs
  /\ act'[a].pred = act[a].pred
  /\ act[a].cancel /\ ~act[a].retired => ~act'[a].retired

SameRows == \A a \in Activation : SameRow(a)
SameServices == svc' = svc /\ run' = run /\ worker' = worker

\* What is true when the phase of a changes.
PhaseMoves(a) ==
  LET f == act[a].phase
      g == act'[a].phase
  IN
  \/ f = "requested" /\ g = "preflighting"
  \/ a \in Pending /\ g = "cancelling"
  \/ f = "preflighting" /\ g = "validated"
  \/ f = "validated" /\ g = IF act[a].pred = NoActivation THEN "starting" ELSE "retiring"
  \/ f = "retiring" /\ g = "starting" /\ svc[act[a].pred].intent = "none"
  \/ f = "starting" /\ g = "awaiting_heartbeat"
  \/ f = "awaiting_heartbeat" /\ g = "succeeded" /\ svc[a].intent = "running"
  \/ f = "cancelling" /\ g \in {"cancelled", "failed"} /\ Over(run[a]) /\ svc[a].intent # "running"

Advances(a) ==
  /\ SameServices
  /\ \A b \in Activation \ {a} : SameRow(b)
  /\ act'[a].inputs = act[a].inputs /\ act'[a].pred = act[a].pred
  /\ act'[a].retired = act[a].retired
  /\ PhaseMoves(a)

\* The service of x is told something, or its run ends.
Told(x) ==
  /\ svc'[x].claim = svc[x].claim /\ (x \in worker' <=> x \in worker)
  /\ \/ svc'[x].intent = svc[x].intent
     \/ svc[x].intent # "none" /\ svc'[x].intent = "deleted"
     \/ svc[x].intent = "running" /\ svc'[x].intent = "stopped"
  /\ run'[x] = run[x] \/ (run[x] # "none" /\ Over(run'[x]))

Started1(x) ==
  /\ svc'[x] = svc[x] /\ run'[x] = run[x] /\ x \in worker'
  /\ svc[x].intent = "running" /\ ~Over(run[x])

Stopped1(x) == svc'[x] = svc[x] /\ run'[x] = run[x] /\ x \notin worker'

Launched(x) ==
  /\ run'[x] = run[x] /\ (x \in worker' <=> x \in worker)
  /\ svc[x].intent = "none" /\ svc'[x].intent = "running" /\ svc'[x].claim
  /\ act[x].phase = "starting" /\ run[x] = "open"
  /\ \A s \in Activation \ {x} : svc[s].claim => act[x].inputs \cap act[s].inputs = {}

Released(x) ==
  /\ x \notin worker /\ x \notin worker'
  /\ svc[x].intent \in {"stopped", "deleted"}
  /\ svc'[x].intent \in {"stopped", "none"} /\ ~svc'[x].claim
  /\ run[x] # "none" /\ Over(run'[x])

Serves(x) ==
  /\ SameRows
  /\ \A b \in Activation \ {x} :
       svc'[b] = svc[b] /\ run'[b] = run[b] /\ (b \in worker' <=> b \in worker)
  /\ Told(x) \/ Started1(x) \/ Stopped1(x) \/ Launched(x) \/ Released(x)

Steady == SameRows /\ SameServices

Kind == Steady \/ (\E a \in Activation : Advances(a)) \/ (\E x \in Activation : Serves(x))

-----------------------------------------------------------------------------
(* Types.                                                                  *)

\* A controller that goes on stays with its activation.
LEMMA GoesOn ==
  ASSUME TypeOK, NEW c \in Controller, NEW pc \in Pc, Goto(c, pc)
  PROVE  /\ ctl' \in [Controller -> Task]
         /\ ctl'[c] = [ctl[c] EXCEPT !.pc = pc]
         /\ ctl'[c].pc = pc /\ ctl'[c].act = ctl[c].act /\ ctl'[c].phase = ctl[c].phase
         /\ \A d \in Controller \ {c} : ctl'[d] = ctl[d]
<1>1. ctl \in [Controller -> Task] /\ ctl[c] \in Task BY DEF TypeOK
<1>2. [ctl[c] EXCEPT !.pc = pc] \in Task BY <1>1 DEF Task
<1>3. ctl' = [ctl EXCEPT ![c] = [ctl[c] EXCEPT !.pc = pc]] BY DEF Goto
<1>4. [ctl[c] EXCEPT !.pc = pc].pc = pc /\ [ctl[c] EXCEPT !.pc = pc].act = ctl[c].act
      /\ [ctl[c] EXCEPT !.pc = pc].phase = ctl[c].phase BY <1>1 DEF Task
<1> QED BY <1>1, <1>2, <1>3, <1>4

\* What the values are made of.
LEMMA Values ==
  /\ Idle \in Task /\ NoRow \in Row /\ NoService \in Service
  /\ Idle.pc = "idle" /\ Idle.act = NoActivation
  /\ NoService.intent = "none" /\ ~NoService.claim
  /\ NoRow.phase = "none" /\ NoRow.pred = NoActivation /\ ~NoRow.retired
<1>1. Idle \in Task BY DEF Idle, Task, Pc, Phase
<1>2. NoRow \in Row BY DEF NoRow, Row, Phase
<1>3. NoService \in Service BY DEF NoService, Service
<1> QED BY <1>1, <1>2, <1>3 DEF Idle, NoRow, NoService

\* A controller that is under way has an activation, and knows its place.
LEMMA UnderWay ==
  ASSUME Whole, NEW c \in Controller, ctl[c].pc # "idle"
  PROVE  /\ Act(c) \in Activation /\ act[Act(c)] \in Row /\ ctl[c] \in Task
         /\ act[Act(c)].phase \notin {"none", "requested"}
         /\ TakenWhole(Act(c), ctl[c].phase, act)
         /\ PlaceWhole(ctl[c].pc, Act(c), ctl[c].phase, act, svc, run, worker)
         /\ ActivationWhole(Act(c)) BY DEF Whole, TypeOK, TaskWhole, Act, TakenWhole

-----------------------------------------------------------------------------
(* What every kind of step keeps.                                          *)

\* Rows keep their readings, phases that ended stay, outcomes stay, and a service whose run
\* is over, or that is not being started, does not come to run.
LEMMA Stays ==
  ASSUME Whole, Kind, NEW b \in Activation
  PROVE  /\ act'[b].pred = act[b].pred /\ act'[b].inputs = act[b].inputs
         /\ act[b].phase \in Terminal => act'[b].phase = act[b].phase
         /\ act[b].phase \notin {"none", "requested"} => act'[b].phase \notin {"none", "requested"}
         /\ act[b].phase \notin {"none", "requested", "preflighting"}
              => act'[b].phase \notin {"none", "requested", "preflighting"}
         /\ act[b].phase \in {"cancelling", "cancelled", "failed"}
              => act'[b].phase \in {"cancelling", "cancelled", "failed"}
         /\ Over(run[b]) => Over(run'[b])
         /\ svc[b].intent # "running" /\ (Over(run[b]) \/ act[b].phase # "starting")
              => /\ svc'[b].intent # "running"
                 /\ b \notin worker => b \notin worker'
                 /\ svc[b].intent = "none" => svc'[b].intent = "none"
<1>1. CASE Steady BY <1>1 DEF Steady, SameRows, SameRow, SameServices
<1>2. CASE \E a \in Activation : Advances(a)
  <2>1. PICK a \in Activation : Advances(a) BY <1>2
  <2>2. CASE b = a
    <3>1. act'[b].phase \notin {"none", "requested"} /\ act[b].phase \notin Terminal
      BY <2>1, <2>2 DEF Advances, PhaseMoves, Pending, Terminal
    <3>2. /\ act[b].phase \in {"cancelling", "cancelled", "failed"}
               => act'[b].phase \in {"cancelling", "cancelled", "failed"}
          /\ act[b].phase \notin {"none", "requested", "preflighting"}
               => act'[b].phase \notin {"none", "requested", "preflighting"}
      BY <2>1, <2>2, <3>1 DEF Advances, PhaseMoves, Terminal
    <3> QED BY <2>1, <2>2, <3>1, <3>2 DEF Advances, SameServices
  <2>3. CASE b # a BY <2>1, <2>3 DEF Advances, SameRow, SameServices
  <2> QED BY <2>2, <2>3
<1>3. CASE \E x \in Activation : Serves(x)
  <2>1. PICK x \in Activation : Serves(x) BY <1>3
  <2>2. SameRow(b) BY <2>1 DEF Serves, SameRows
  <2>3. CASE b = x
    <3>1. Over(run[b]) => Over(run'[b])
      BY <2>1, <2>3 DEF Serves, Told, Started1, Stopped1, Launched, Released, Over
    <3>2. ASSUME svc[b].intent # "running", Over(run[b]) \/ act[b].phase # "starting"
          PROVE  /\ svc'[b].intent # "running"
                 /\ b \notin worker => b \notin worker'
                 /\ svc[b].intent = "none" => svc'[b].intent = "none"
      BY <2>1, <2>3, <3>2 DEF Serves, Told, Started1, Stopped1, Launched, Released, Over
    <3> QED BY <2>2, <3>1, <3>2 DEF SameRow
  <2>4. CASE b # x BY <2>1, <2>2, <2>4 DEF Serves, SameRow
  <2> QED BY <2>3, <2>4
<1> QED BY <1>1, <1>2, <1>3 DEF Kind

\* What a controller can rely on where it is stays true.
LEMMA PlaceKept ==
  ASSUME Whole, Kind, NEW pc, NEW a, NEW ph, TakenWhole(a, ph, act),
         PlaceWhole(pc, a, ph, act, svc, run, worker)
  PROVE  TakenWhole(a, ph, act') /\ PlaceWhole(pc, a, ph, act', svc', run', worker')
<1>1. a \in Activation /\ act[a] \in Row /\ ActivationWhole(a) BY DEF TakenWhole, Whole, TypeOK
<1>2. TakenWhole(a, ph, act') BY <1>1, Stays DEF TakenWhole
<1>3. act'[a].pred = act[a].pred BY <1>1, Stays
<1>4. ASSUME act[a].pred # NoActivation
      PROVE  /\ svc[act[a].pred].intent # "running" => svc'[act[a].pred].intent # "running"
             /\ svc[act[a].pred].intent # "running" /\ act[a].pred \notin worker
                  => act[a].pred \notin worker'
             /\ svc[act[a].pred].intent = "none" => svc'[act[a].pred].intent = "none"
  <2>1. act[a].pred \in Activation BY <1>1, <1>4 DEF Row
  <2>2. act[act[a].pred].phase # "starting" BY <1>1, <1>4 DEF ActivationWhole, Terminal
  <2> QED BY <2>1, <2>2, Stays
<1>5. Over(run[a]) => /\ Over(run'[a])
                      /\ svc[a].intent # "running" => svc'[a].intent # "running"
                      /\ svc[a].intent # "running" /\ a \notin worker => a \notin worker' BY <1>1, Stays
<1> QED BY <1>2, <1>3, <1>4, <1>5 DEF PlaceWhole

\* So does what is whole about a controller that does not move.
LEMMA TaskKept ==
  ASSUME Whole, Kind, NEW c \in Controller, ctl'[c] = ctl[c]
  PROVE  TaskWhole(c)'
<1>1. CASE ctl[c].pc = "idle" BY <1>1 DEF Whole, TaskWhole
<1>2. CASE ctl[c].pc # "idle"
  <2>1. /\ TakenWhole(ctl[c].act, ctl[c].phase, act)
        /\ PlaceWhole(ctl[c].pc, ctl[c].act, ctl[c].phase, act, svc, run, worker) BY <1>2 DEF Whole, TaskWhole
  <2>2. /\ TakenWhole(ctl[c].act, ctl[c].phase, act')
        /\ PlaceWhole(ctl[c].pc, ctl[c].act, ctl[c].phase, act', svc', run', worker') BY <2>1, PlaceKept
  <2> QED BY <1>2, <2>2 DEF TaskWhole
<1> QED BY <1>1, <1>2

\* A controller that goes on, and finds what the next place asks for.
LEMMA TasksGoOn ==
  ASSUME Whole, Kind, NEW c \in Controller, ctl[c].pc # "idle", NEW pc \in Pc \ {"idle"},
         Goto(c, pc),
         PlaceWhole(pc, Act(c), ctl[c].phase, act', svc', run', worker')
  PROVE  ctl' \in [Controller -> Task] /\ \A d \in Controller : TaskWhole(d)'
<1>1. TypeOK BY DEF Whole
<1>2. /\ ctl' \in [Controller -> Task]
      /\ ctl'[c].pc = pc /\ ctl'[c].act = ctl[c].act /\ ctl'[c].phase = ctl[c].phase
      /\ \A d \in Controller \ {c} : ctl'[d] = ctl[d] BY <1>1, GoesOn
<1>3. TakenWhole(ctl[c].act, ctl[c].phase, act') BY UnderWay, PlaceKept DEF Act
<1>4. TaskWhole(c)' BY <1>2, <1>3 DEF TaskWhole, Act
<1> QED BY <1>2, <1>4, TaskKept

\* A controller that is done.
LEMMA TasksRest ==
  ASSUME Whole, Kind, NEW c \in Controller, ctl' = [ctl EXCEPT ![c] = Idle]
  PROVE  ctl' \in [Controller -> Task] /\ \A d \in Controller : TaskWhole(d)'
<1>1. ctl' \in [Controller -> Task] /\ ctl'[c] = Idle
      /\ \A d \in Controller \ {c} : ctl'[d] = ctl[d] BY Values DEF Whole, TypeOK
<1>2. TaskWhole(c)' BY <1>1, Values DEF TaskWhole
<1> QED BY <1>1, <1>2, TaskKept

\* What is whole about an activation stays so.
LEMMA ActivationKept ==
  ASSUME Whole, Kind, NEW a \in Activation
  PROVE  ActivationWhole(a)'
<1>1. ActivationWhole(a) /\ act[a] \in Row BY DEF Whole, TypeOK
<1>2. act'[a].pred = act[a].pred /\ act'[a].inputs = act[a].inputs BY Stays
<1>3. act'[a].phase = act[a].phase
      \/ (act[a].phase # "none" /\ act'[a].phase # "none" /\ PhaseMoves(a) /\ SameServices)
  <2>1. ASSUME NEW b \in Activation, Advances(b)
        PROVE  act'[a].phase = act[a].phase
               \/ (act[a].phase # "none" /\ act'[a].phase # "none" /\ PhaseMoves(a) /\ SameServices)
    <3>1. CASE a = b BY <2>1, <3>1 DEF Advances, PhaseMoves, Pending, Terminal
    <3>2. CASE a # b BY <2>1, <3>2 DEF Advances, SameRow
    <3> QED BY <3>1, <3>2
  <2> QED BY <2>1 DEF Kind, Steady, Serves, SameRows, SameRow
<1>4. \/ svc'[a] = svc[a] /\ run'[a] = run[a] /\ (a \in worker' <=> a \in worker)
      \/ Serves(a) BY DEF Kind, Steady, Advances, SameServices, Serves
<1>5. act[a].pred # NoActivation =>
        /\ act'[act[a].pred].phase \in Terminal
        /\ svc[act[a].pred].intent = "none" => svc'[act[a].pred].intent = "none"
  <2>1. SUFFICES ASSUME act[a].pred # NoActivation
                 PROVE  /\ act'[act[a].pred].phase \in Terminal
                        /\ svc[act[a].pred].intent = "none" => svc'[act[a].pred].intent = "none" OBVIOUS
  <2>2. act[a].pred \in Activation BY <1>1, <2>1 DEF Row
  <2>3. act[act[a].pred].phase \in Terminal BY <1>1, <2>1 DEF ActivationWhole
  <2>4. act[act[a].pred].phase # "starting" BY <2>3 DEF Terminal
  <2> QED BY <2>2, <2>3, <2>4, Stays
<1>6. CASE svc'[a] = svc[a] /\ run'[a] = run[a] /\ (a \in worker' <=> a \in worker)
  <2>1. act'[a].phase = "retiring" => act[a].pred # NoActivation BY <1>1, <1>3 DEF ActivationWhole, PhaseMoves
  <2>2. ASSUME act[a].pred # NoActivation, act'[a].phase \in {"starting", "awaiting_heartbeat"}
        PROVE  svc[act[a].pred].intent = "none" BY <1>1, <1>3, <2>2 DEF ActivationWhole, PhaseMoves
  <2>3. act'[a].phase \in {"cancelled", "failed"} => Over(run[a]) /\ svc[a].intent # "running"
    BY <1>1, <1>3 DEF ActivationWhole, PhaseMoves
  <2>4. act'[a].phase = "none" => act[a].phase = "none" BY <1>3
  <2>5. act'[a].phase # "none" => act[a].phase # "none" BY <1>3
  <2> QED BY <1>1, <1>2, <1>5, <1>6, <2>1, <2>2, <2>3, <2>4, <2>5 DEF ActivationWhole
<1>7. CASE Serves(a)
  <2>1. SameRow(a) BY <1>7 DEF Serves, SameRows
  <2>2. /\ act[a].phase = "none" => /\ svc'[a].intent = "none" /\ run'[a] = "none"
                                    /\ a \notin worker'
        /\ act[a].phase # "none" => run'[a] # "none"
        /\ svc'[a].intent = "running" => svc'[a].claim
        /\ svc'[a].intent = "none" => ~svc'[a].claim
        /\ a \in worker' => svc'[a].claim
        /\ svc'[a].claim => svc[a].claim \/ act[a].phase = "starting"
        /\ act[a].phase \in {"cancelled", "failed"} => Over(run'[a]) /\ svc'[a].intent # "running"
    BY <1>1, <1>7 DEF Serves, ActivationWhole, Told, Started1, Stopped1, Launched, Released, Over
  <2> QED BY <1>1, <1>2, <1>5, <2>1, <2>2 DEF ActivationWhole, SameRow
<1> QED BY <1>4, <1>6, <1>7

\* Claims stay apart.
LEMMA ClaimsKept ==
  ASSUME Whole, Kind
  PROVE  ClaimsApart'
<1>1. \A b \in Activation : act'[b].inputs = act[b].inputs BY Stays
<1>2. CASE \A b \in Activation : svc'[b].claim => svc[b].claim BY <1>1, <1>2 DEF Whole, ClaimsApart
<1>3. CASE \E x \in Activation : Serves(x) /\ Launched(x)
  <2>1. PICK x \in Activation : Serves(x) /\ Launched(x) BY <1>3
  <2>2. \A b \in Activation \ {x} : svc'[b] = svc[b] BY <2>1 DEF Serves
  <2> QED BY <1>1, <2>1, <2>2 DEF Whole, ClaimsApart, Launched
<1>4. ASSUME NEW x \in Activation, Serves(x), ~Launched(x), NEW b \in Activation
      PROVE  svc'[b].claim => svc[b].claim BY <1>4 DEF Serves, Told, Started1, Stopped1, Released
<1>5. ASSUME ~(\E x \in Activation : Serves(x))
      PROVE  \A b \in Activation : svc'[b].claim => svc[b].claim
  BY <1>5 DEF Kind, Steady, Advances, SameServices
<1> QED BY <1>2, <1>3, <1>4, <1>5

-----------------------------------------------------------------------------
(* Slots.                                                                  *)

\* Part of a finite set, with one of its elements replaced, is no larger.
LEMMA Swapped ==
  ASSUME NEW S, IsFiniteSet(S), NEW a \in S, NEW b, NEW T, T \subseteq (S \ {a}) \cup {b}
  PROVE  IsFiniteSet(T) /\ Cardinality(T) <= Cardinality(S)
<1>1. /\ IsFiniteSet(S \ {a}) /\ Cardinality(S) \in Nat
      /\ Cardinality(S \ {a}) = Cardinality(S) - 1 BY FS_RemoveElement, FS_CardinalityType
<1>2. /\ IsFiniteSet((S \ {a}) \cup {b})
      /\ Cardinality((S \ {a}) \cup {b}) <= Cardinality(S)
  <2>1. IsFiniteSet((S \ {a}) \cup {b}) BY <1>1, FS_AddElement
  <2>2. \/ Cardinality((S \ {a}) \cup {b}) = Cardinality(S \ {a})
        \/ Cardinality((S \ {a}) \cup {b}) = Cardinality(S \ {a}) + 1 BY <1>1, FS_AddElement
  <2> QED BY <1>1, <2>1, <2>2
<1>3. IsFiniteSet(T) /\ Cardinality(T) <= Cardinality((S \ {a}) \cup {b}) BY <1>2, FS_Subset
<1>4. Cardinality(T) \in Nat /\ Cardinality((S \ {a}) \cup {b}) \in Nat BY <1>2, <1>3, FS_CardinalityType
<1> QED BY <1>1, <1>2, <1>3, <1>4

\* Part of the owners of slots is not too many.
LEMMA FewerOwners ==
  ASSUME OwnersCounted, Owners' \subseteq Owners
  PROVE  OwnersCounted'
<1>1. IsFiniteSet(Owners) /\ Cardinality(Owners) <= Capacity /\ Cardinality(Owners) \in Nat
  BY FS_CardinalityType DEF OwnersCounted
<1>2. IsFiniteSet(Owners') /\ Cardinality(Owners') <= Cardinality(Owners) BY <1>1, FS_Subset
<1>3. Cardinality(Owners') \in Nat BY <1>2, FS_CardinalityType
<1> QED BY <1>1, <1>2, <1>3 DEF OwnersCounted

\* Those who hold readings are those who claim them.
LEMMA HoldersClaim ==
  ASSUME \A a \in Activation : ActivationWhole(a)
  PROVE  Holders = {s \in Activation : svc[s].claim} BY DEF ActivationWhole, Holders

\* A slot is taken over from a predecessor, or by one; none is added.
LEMMA OwnersKept ==
  ASSUME Whole, Kind
  PROVE  OwnersCounted'
<1>0. /\ \A a \in Activation : ActivationWhole(a)
      /\ \A a \in Activation : act'[a].pred = act[a].pred BY Stays DEF Whole
<1>1. Holders = {s \in Activation : svc[s].claim} BY <1>0, HoldersClaim
<1>2. Holders' = {s \in Activation : svc'[s].claim}
  <2>1. \A a \in Activation : ActivationWhole(a)' BY ActivationKept
  <2> QED BY <2>1 DEF ActivationWhole, Holders
<1>3. CASE SameRows
  <2>1. Pending' = Pending BY <1>3 DEF SameRows, SameRow, Pending
  <2>2. Retiring' = Retiring BY <1>0, <2>1 DEF Retiring, Pending
  <2>3. \A s \in Holders' : s \in Holders \/ s \in Pending
    <3>1. ASSUME NEW s \in Activation, svc'[s].claim, ~svc[s].claim PROVE act[s].phase = "starting"
      BY <3>1 DEF Kind, Steady, Advances, SameServices, Serves, Told, Started1, Stopped1,
                  Launched, Released
    <3> QED BY <1>1, <1>2, <3>1 DEF Pending, Terminal
  <2>4. Owners' \subseteq Owners BY <2>1, <2>2, <2>3 DEF Owners
  <2> QED BY <2>4, FewerOwners DEF Whole
<1>4. CASE \E a \in Activation : Advances(a)
  <2>1. PICK a \in Activation : Advances(a) BY <1>4
  <2>2. Holders' = Holders BY <2>1 DEF Advances, SameServices, Holders
  <2>3. a \in Pending /\ act[a] \in Row BY <2>1 DEF Advances, PhaseMoves, Pending, Terminal, Whole, TypeOK
  <2>4. \A b \in Activation \ {a} : act'[b].phase = act[b].phase BY <2>1 DEF Advances, SameRow
  <2>5. CASE act'[a].phase \notin Terminal
    <3>1. act'[a].phase # "none" BY <2>1 DEF Advances, PhaseMoves
    <3>2. Pending' = Pending BY <2>3, <2>4, <2>5, <3>1 DEF Pending
    <3>3. Owners' = Owners BY <1>0, <2>2, <3>2 DEF Owners, Retiring, Pending
    <3> QED BY <3>3, FewerOwners DEF Whole
  <2>6. CASE act'[a].phase \in Terminal
    <3>1. Pending' = Pending \ {a} BY <2>3, <2>4, <2>6 DEF Pending
    <3>2. ASSUME NEW s \in Owners', s \notin Owners \ {a}
          PROVE  s \in Holders /\ s \in {a, act[a].pred}
      <4>1. s \notin Pending' BY <3>1, <3>2 DEF Owners
      <4>2. s \in Holders /\ s \notin Retiring' BY <2>2, <3>2, <4>1 DEF Owners
      <4>3. CASE s \in Owners BY <3>2, <4>2, <4>3
      <4>4. CASE s \notin Owners
        <5>1. s \in Retiring BY <4>2, <4>4 DEF Owners
        <5>2. PICK b \in Pending : s = act[b].pred BY <5>1 DEF Retiring
        <5>3. b = a BY <1>0, <3>1, <4>2, <5>2 DEF Retiring, Pending
        <5> QED BY <4>2, <5>2, <5>3
      <4> QED BY <4>3, <4>4
    <3>3. CASE a \in Holders
      <4>1. act[a].pred \notin Holders BY <1>0, <1>1, <2>3, <3>3 DEF ActivationWhole, Row
      <4>2. Owners' \subseteq Owners BY <2>3, <3>2, <4>1 DEF Owners
      <4> QED BY <4>2, FewerOwners DEF Whole
    <3>4. CASE a \notin Holders
      <4>1. Owners' \subseteq (Owners \ {a}) \cup {act[a].pred} BY <3>2, <3>4
      <4>2. IsFiniteSet(Owners) /\ a \in Owners /\ Cardinality(Owners) <= Capacity
        BY <2>3 DEF Owners, Whole, OwnersCounted
      <4>3. IsFiniteSet(Owners') /\ Cardinality(Owners') <= Cardinality(Owners) BY <4>1, <4>2, Swapped
      <4>4. Cardinality(Owners') \in Nat /\ Cardinality(Owners) \in Nat BY <4>2, <4>3, FS_CardinalityType
      <4> QED BY <4>2, <4>3, <4>4 DEF OwnersCounted
    <3> QED BY <3>3, <3>4
  <2> QED BY <2>5, <2>6
<1> QED BY <1>3, <1>4 DEF Kind, Steady, Serves

-----------------------------------------------------------------------------
(* What a step of a kind makes of the invariant.                           *)

DataTypes ==
  /\ act' \in [Activation -> Row] /\ run' \in [Activation -> RunState]
  /\ svc' \in [Activation -> Service] /\ worker' \in SUBSET Activation
  /\ jobs' \in SUBSET Activation /\ calls' \in SUBSET Activation
  /\ sweep' \in Activation \cup {NoActivation} /\ faults' \in 0 .. MaxFaults

JobsFrom ==
  /\ \A a \in jobs' \cup calls' : a \in jobs \cup calls \/ act[a].phase \notin {"none", "requested"}
  /\ \/ sweep' \in {sweep, NoActivation}
     \/ act[sweep'].phase \notin {"none", "requested", "preflighting"}

\* The jobs stay those of activations that are, or were, preflighting.
LEMMA JobsKept ==
  ASSUME Whole, Kind, DataTypes, JobsFrom
  PROVE  JobsKnown'
<1>1. ASSUME NEW a \in jobs' \cup calls' PROVE act'[a].phase \notin {"none", "requested"}
  <2>1. a \in Activation BY <1>1 DEF DataTypes
  <2>2. act[a].phase \notin {"none", "requested"} BY <1>1 DEF JobsFrom, Whole, JobsKnown
  <2> QED BY <2>1, <2>2, Stays
<1>2. ASSUME sweep' # NoActivation
      PROVE  act'[sweep'].phase \notin {"none", "requested", "preflighting"}
  <2>1. sweep' \in Activation BY <1>2 DEF DataTypes
  <2>2. act[sweep'].phase \notin {"none", "requested", "preflighting"} BY <1>2 DEF JobsFrom, Whole, JobsKnown
  <2> QED BY <2>1, <2>2, Stays
<1> QED BY <1>1, <1>2 DEF JobsKnown

\* A step of any kind keeps the invariant when the controllers are whole after it.
LEMMA KeptByKind ==
  ASSUME Whole, Kind, DataTypes, JobsFrom, ctl' \in [Controller -> Task],
         \A d \in Controller : TaskWhole(d)'
  PROVE  Whole'
<1>1. TypeOK' BY DEF DataTypes, TypeOK
<1>2. \A a \in Activation : ActivationWhole(a)' BY ActivationKept
<1> QED BY <1>1, <1>2, ClaimsKept, JobsKept, OwnersKept DEF Whole

\* Nothing is asked of a controller that has failed or is finishing.
LEMMA AnyPlace ==
  ASSUME NEW pc \in {"finish", "error", "reject"}, NEW a, NEW ph, NEW A, NEW S, NEW R, NEW W
  PROVE  pc \in Pc \ {"idle"} /\ PlaceWhole(pc, a, ph, A, S, R, W) BY DEF PlaceWhole, InPhase, Unjob, Pc

\* A step without a controller.
LEMMA KeptElsewhere ==
  ASSUME Whole, Kind, DataTypes, JobsFrom, ctl' = ctl
  PROVE  Whole'
<1>1. ctl' \in [Controller -> Task] BY DEF Whole, TypeOK
<1>2. \A d \in Controller : TaskWhole(d)' BY TaskKept
<1> QED BY <1>1, <1>2, KeptByKind

\* A step of a controller that goes on.
LEMMA KeptGoing ==
  ASSUME Whole, Kind, DataTypes, JobsFrom, NEW c \in Controller, ctl[c].pc # "idle",
         NEW pc \in Pc \ {"idle"}, Goto(c, pc),
         PlaceWhole(pc, Act(c), ctl[c].phase, act', svc', run', worker')
  PROVE  Whole' BY TasksGoOn, KeptByKind

\* One that changes nothing but jobs and calls.
LEMMA KeptAside ==
  ASSUME Whole, UNCHANGED <<act, run, svc, worker>>, DataTypes, JobsFrom,
         NEW c \in Controller, ctl[c].pc # "idle",
         NEW pc \in Pc \ {"idle"}, Goto(c, pc),
         PlaceWhole(pc, Act(c), ctl[c].phase, act, svc, run, worker)
  PROVE  Whole' /\ Kind
<1>1. Kind BY DEF Kind, Steady, SameRows, SameRow, SameServices
<1>2. PlaceWhole(pc, Act(c), ctl[c].phase, act', svc', run', worker') OBVIOUS
<1> QED BY <1>1, <1>2, KeptGoing

\* Data that does not change is well-typed.
LEMMA SameData ==
  ASSUME Whole
  PROVE  /\ UNCHANGED act => act' \in [Activation -> Row]
         /\ UNCHANGED run => run' \in [Activation -> RunState]
         /\ UNCHANGED svc => svc' \in [Activation -> Service]
         /\ UNCHANGED worker => worker' \in SUBSET Activation
         /\ UNCHANGED jobs => jobs' \in SUBSET Activation
         /\ UNCHANGED calls => calls' \in SUBSET Activation
         /\ UNCHANGED sweep => sweep' \in Activation \cup {NoActivation}
         /\ UNCHANGED faults => faults' \in 0 .. MaxFaults
         /\ UNCHANGED <<jobs, calls, sweep>> => JobsFrom BY DEF Whole, TypeOK, JobsFrom

-----------------------------------------------------------------------------
(* Steps of a controller that change neither rows nor services.            *)

\* A controller that lost its activation, or whose task is cancelled, is finishing.
LEMMA LoseWhole ==
  ASSUME Whole, NEW c \in Controller, Lose(c)
  PROVE  Whole' /\ Kind
<1>1. ctl[c].pc # "idle" /\ Goto(c, "finish") BY DEF Lose
<1>2. DataTypes /\ JobsFrom BY SameData DEF Lose, world, DataTypes
<1>3. PlaceWhole("finish", Act(c), ctl[c].phase, act, svc, run, worker) /\ "finish" \in Pc \ {"idle"}
  BY AnyPlace
<1> QED BY <1>1, <1>2, <1>3, KeptAside DEF Lose, world

\* The steps of a preflight.
LEMMA PreflightWhole ==
  ASSUME Whole, NEW c \in Controller,
         Preflight(c) \/ EnsureJob(c) \/ ReadReport(c) \/ RemoveJob(c)
  PROVE  Whole' /\ Kind
<1>1. ctl[c].pc # "idle" BY DEF Preflight, EnsureJob, ReadReport, RemoveJob, Owned, At, Unjob
<1>2. /\ Act(c) \in Activation /\ act[Act(c)].phase \notin {"none", "requested"}
      /\ PlaceWhole(ctl[c].pc, Act(c), ctl[c].phase, act, svc, run, worker) BY <1>1, UnderWay
<1>3. ctl[c].phase = "preflighting"
  BY <1>2 DEF Preflight, EnsureJob, ReadReport, RemoveJob, Owned, At, Unjob, PlaceWhole, InPhase
<1>4. DataTypes
  BY <1>2, SameData DEF Whole, TypeOK, Preflight, EnsureJob, ReadReport, RemoveJob, world, DataTypes
<1>5. JobsFrom BY <1>2 DEF JobsFrom, Preflight, EnsureJob, ReadReport, RemoveJob, world
<1>6. \E pc \in {"job", "report", "preflighted", "reject", "error", "finish"} \cup Unjob : Goto(c, pc)
  <2>1. CASE Preflight(c) BY <2>1 DEF Preflight
  <2>2. CASE EnsureJob(c) BY <2>2 DEF EnsureJob
  <2>3. CASE ReadReport(c) BY <2>3 DEF ReadReport, Unjob
  <2>4. CASE RemoveJob(c) BY <2>4 DEF RemoveJob, AfterJob, Unjob
  <2> QED BY <2>1, <2>2, <2>3, <2>4
<1>7. PICK pc \in {"job", "report", "preflighted", "reject", "error", "finish"} \cup Unjob : Goto(c, pc)
  BY <1>6
<1>8. pc \in Pc \ {"idle"} /\ PlaceWhole(pc, Act(c), ctl[c].phase, act, svc, run, worker)
  BY <1>3 DEF PlaceWhole, InPhase, Unjob, Pc, Remote
<1> QED BY <1>1, <1>4, <1>5, <1>7, <1>8, KeptAside DEF Preflight, EnsureJob, ReadReport, RemoveJob, world

\* A removal waits until no worker is left.
LEMMA AwaitShutdownWhole ==
  ASSUME Whole, NEW c \in Controller, AwaitShutdown(c)
  PROVE  Whole' /\ Kind
<1>1. ctl[c].pc # "idle" BY DEF AwaitShutdown, At
<1>2. PlaceWhole(ctl[c].pc, Act(c), ctl[c].phase, act, svc, run, worker) BY <1>1, UnderWay
<1>3. DataTypes /\ JobsFrom BY SameData DEF AwaitShutdown, world, DataTypes
<1>4. PICK pc \in {"purge", "retired", "purgeSuccessor", "stopped"} :
        /\ Goto(c, pc)
        /\ \/ pc = "purge" /\ At(c, "shutdown") /\ Shutdown(act[Act(c)].pred)
           \/ pc = "retired" /\ At(c, "absent")
           \/ pc = "purgeSuccessor" /\ At(c, "stop") /\ Shutdown(Act(c))
           \/ pc = "stopped" /\ At(c, "absentSuccessor") BY DEF AwaitShutdown
<1>5. pc \in Pc \ {"idle"} /\ PlaceWhole(pc, Act(c), ctl[c].phase, act, svc, run, worker)
  BY <1>2, <1>4 DEF PlaceWhole, InPhase, Unjob, Pc, At, Shutdown
<1> QED BY <1>1, <1>3, <1>4, <1>5, KeptAside DEF AwaitShutdown, world

\* The steps between two transactions of a launch or a cancellation.
LEMMA BetweenWhole ==
  ASSUME Whole, NEW c \in Controller,
         Start(c) \/ RequireDeleting(c) \/ Stopped(c) \/ CleanUpJob(c)
  PROVE  Whole' /\ Kind
<1>1. ctl[c].pc # "idle" BY DEF Start, RequireDeleting, Stopped, CleanUpJob, Owned, At
<1>2. PlaceWhole(ctl[c].pc, Act(c), ctl[c].phase, act, svc, run, worker) BY <1>1, UnderWay
<1>3. DataTypes BY SameData DEF Whole, TypeOK, Start, RequireDeleting, Stopped, CleanUpJob, world, DataTypes
<1>4. JobsFrom BY DEF JobsFrom, Start, RequireDeleting, Stopped, CleanUpJob, world
<1>5. PICK pc \in {"launch", "stopped", "error", "cleanup", "end"} :
        /\ Goto(c, pc)
        /\ \/ pc = "launch" /\ At(c, "starting")
           \/ pc \in {"stopped", "error"} /\ At(c, "confirm")
           \/ pc = "cleanup" /\ At(c, "stopped")
           \/ pc = "end" /\ At(c, "cleanup")
  <2>1. CASE Start(c) BY <2>1 DEF Start, Owned
  <2>2. CASE RequireDeleting(c) BY <2>2 DEF RequireDeleting
  <2>3. CASE Stopped(c) BY <2>3 DEF Stopped, Owned
  <2>4. CASE CleanUpJob(c) BY <2>4 DEF CleanUpJob
  <2> QED BY <2>1, <2>2, <2>3, <2>4
<1>6. pc \in Pc \ {"idle"} /\ PlaceWhole(pc, Act(c), ctl[c].phase, act, svc, run, worker)
  BY <1>2, <1>5 DEF PlaceWhole, InPhase, Unjob, Pc, Remote, At
<1> QED BY <1>1, <1>3, <1>4, <1>5, <1>6, KeptAside DEF Start, RequireDeleting, Stopped, CleanUpJob, world

-----------------------------------------------------------------------------
(* Steps that give up, and steps that finish.                              *)

\* There is one fault less to come.
LEMMA FaultTyped ==
  ASSUME TypeOK, Fault
  PROVE  faults' \in 0 .. MaxFaults BY DEF TypeOK, Fault

\* A call that is abandoned is one for an activation that is, or was, preflighting.
LEMMA Abandons ==
  ASSUME Whole, NEW c \in Controller, ctl[c].pc # "idle", Abandon(c), UNCHANGED <<jobs, sweep>>
  PROVE  calls' \in SUBSET Activation /\ JobsFrom
<1>1. Act(c) \in Activation /\ act[Act(c)].phase \notin {"none", "requested"} BY UnderWay
<1> QED BY <1>1 DEF Abandon, JobsFrom, Whole, TypeOK

\* A controller whose process dies forgets everything; one that is cancelled cleans up.
LEMMA CrashWhole ==
  ASSUME Whole, NEW c \in Controller, Crash(c)
  PROVE  Whole' /\ Kind
<1>1. ctl[c].pc # "idle" BY DEF Whole, TaskWhole, Crash
<1>2. PlaceWhole(ctl[c].pc, Act(c), ctl[c].phase, act, svc, run, worker) BY <1>1, UnderWay
<1>3. calls' \in SUBSET Activation /\ JobsFrom BY <1>1, Abandons DEF Crash
<1>4. faults' \in 0 .. MaxFaults BY FaultTyped DEF Crash, Whole
<1>5. DataTypes BY <1>3, <1>4, SameData DEF Crash, DataTypes
<1>6. Kind BY DEF Crash, Kind, Steady, SameRows, SameRow, SameServices
<1>7. CASE ctl' = [ctl EXCEPT ![c] = Idle] BY <1>3, <1>5, <1>6, <1>7, TasksRest, KeptByKind
<1>8. CASE Goto(c, IF At(c, "report") THEN "unjobInterrupted" ELSE "finish")
  <2>1. PICK pc \in {"unjobInterrupted", "finish"} :
          Goto(c, pc) /\ (pc = "unjobInterrupted" => At(c, "report")) BY <1>8
  <2>2. pc \in Pc \ {"idle"} /\ PlaceWhole(pc, Act(c), ctl[c].phase, act, svc, run, worker)
    BY <1>2, <2>1 DEF PlaceWhole, InPhase, Unjob, Pc, Remote, At
  <2> QED BY <1>1, <1>3, <1>5, <2>1, <2>2, KeptAside DEF Crash
<1> QED BY <1>6, <1>7, <1>8 DEF Crash

-----------------------------------------------------------------------------
(* Steps of a controller on the row of its activation.                     *)

\* A row that is still that of the same request.
Kept(r, q) ==
  q \in Row /\ q.inputs = r.inputs /\ q.pred = r.pred /\ q.retired = r.retired

\* Errors, tokens and deadlines.
LEMMA Noted ==
  ASSUME NEW r \in Row, NEW e \in BOOLEAN, NEW t \in Controller \cup {NoController},
         NEW b \in BOOLEAN
  PROVE  /\ Kept(r, [r EXCEPT !.error = e]) /\ [r EXCEPT !.error = e].phase = r.phase
         /\ Kept(r, [r EXCEPT !.token = t, !.leased = b])
         /\ [r EXCEPT !.token = t, !.leased = b].phase = r.phase
         /\ Kept(r, [r EXCEPT !.leased = b]) /\ [r EXCEPT !.leased = b].phase = r.phase
         /\ Kept(r, [r EXCEPT !.late = b]) /\ [r EXCEPT !.late = b].phase = r.phase
         /\ [r EXCEPT !.late = b].cancel = r.cancel
         /\ Kept(r, [r EXCEPT !.cancel = b]) /\ [r EXCEPT !.cancel = b].phase = r.phase
<1>1. Kept(r, [r EXCEPT !.error = e]) /\ [r EXCEPT !.error = e].phase = r.phase BY DEF Kept, Row
<1>2. /\ Kept(r, [r EXCEPT !.token = t, !.leased = b])
      /\ [r EXCEPT !.token = t, !.leased = b].phase = r.phase BY DEF Kept, Row
<1>3. Kept(r, [r EXCEPT !.leased = b]) /\ [r EXCEPT !.leased = b].phase = r.phase BY DEF Kept, Row
<1>4. /\ Kept(r, [r EXCEPT !.late = b]) /\ [r EXCEPT !.late = b].phase = r.phase
      /\ [r EXCEPT !.late = b].cancel = r.cancel BY DEF Kept, Row
<1>5. Kept(r, [r EXCEPT !.cancel = b]) /\ [r EXCEPT !.cancel = b].phase = r.phase BY DEF Kept, Row
<1> QED BY <1>1, <1>2, <1>3, <1>4, <1>5

\* A phase that is entered, or the cancellation instead.
LEMMA Enters ==
  ASSUME NEW r \in Row, NEW p \in Phase
  PROVE  /\ Kept(r, Enter(r, p))
         /\ Enter(r, p).phase = IF r.cancel THEN "cancelling" ELSE p
<1>1. "cancelling" \in Phase BY DEF Phase
<1> QED BY <1>1 DEF Kept, Row, Enter

\* The same when an error is over.
LEMMA EntersWell ==
  ASSUME NEW r \in Row, NEW p \in Phase
  PROVE  /\ Kept(r, [Enter(r, p) EXCEPT !.error = FALSE])
         /\ [Enter(r, p) EXCEPT !.error = FALSE].phase = IF r.cancel THEN "cancelling" ELSE p
<1>1. Kept(r, Enter(r, p)) /\ Enter(r, p).phase = IF r.cancel THEN "cancelling" ELSE p BY Enters
<1>2. /\ Kept(Enter(r, p), [Enter(r, p) EXCEPT !.error = FALSE])
      /\ [Enter(r, p) EXCEPT !.error = FALSE].phase = Enter(r, p).phase BY <1>1, Noted DEF Kept
<1> QED BY <1>1, <1>2 DEF Kept

\* A cancellation, with an error or without.
LEMMA Cancels ==
  ASSUME NEW r \in Row
  PROVE  /\ Kept(r, Cancelling(r)) /\ Cancelling(r).phase = "cancelling"
         /\ Kept(r, Failing(r)) /\ Failing(r).phase = "cancelling"
<1>1. "cancelling" \in Phase BY DEF Phase
<1>2. Kept(r, Cancelling(r)) /\ Cancelling(r).phase = "cancelling" BY <1>1 DEF Kept, Row, Cancelling
<1>3. Kept(Cancelling(r), Failing(r)) /\ Failing(r).phase = Cancelling(r).phase
  <2>1. Cancelling(r) \in Row BY <1>2 DEF Kept
  <2> QED BY <2>1, Noted DEF Failing
<1> QED BY <1>2, <1>3 DEF Kept

\* One row is changed, within its phase or to one that comes next.
LEMMA RowChanged ==
  ASSUME Whole, NEW a \in Activation, NEW q, act' = [act EXCEPT ![a] = q], Kept(act[a], q),
         UNCHANGED <<run, svc, worker>>, q.phase = act[a].phase \/ PhaseMoves(a)
  PROVE  act' \in [Activation -> Row] /\ act'[a] = q /\ Kind
<1>1. act \in [Activation -> Row] BY DEF Whole, TypeOK
<1>2. act' \in [Activation -> Row] /\ act'[a] = q /\ \A b \in Activation \ {a} : act'[b] = act[b]
  BY <1>1 DEF Kept
<1>3. CASE q.phase = act[a].phase BY <1>2, <1>3 DEF Kept, Kind, Steady, SameRows, SameRow, SameServices
<1>4. CASE PhaseMoves(a) BY <1>2, <1>4 DEF Kept, Kind, Advances, SameRow, SameServices
<1> QED BY <1>2, <1>3, <1>4

\* A controller is finishing after it has changed the row of its activation.
LEMMA RowUpdated ==
  ASSUME Whole, NEW c \in Controller, ctl[c].pc # "idle", NEW q,
         Update(c, q, "finish"), Kept(act[Act(c)], q), UNCHANGED <<run, svc, world, faults>>,
         q.phase = act[Act(c)].phase \/ PhaseMoves(Act(c))
  PROVE  Whole' /\ Kind
<1>1. Act(c) \in Activation BY UnderWay
<1>2. act' \in [Activation -> Row] /\ Kind BY <1>1, RowChanged DEF Update, world
<1>3. DataTypes /\ JobsFrom BY <1>2, SameData DEF world, DataTypes
<1>4. PlaceWhole("finish", Act(c), ctl[c].phase, act', svc', run', worker')
      /\ "finish" \in Pc \ {"idle"} BY AnyPlace
<1> QED BY <1>2, <1>3, <1>4, KeptGoing DEF Update

\* A controller gives its activation back.
LEMMA FinishWhole ==
  ASSUME Whole, NEW c \in Controller, Finish(c)
  PROVE  Whole' /\ Kind
<1>1. /\ Act(c) \in Activation /\ act[Act(c)] \in Row /\ act \in [Activation -> Row]
      /\ ctl[c].pc # "idle" BY UnderWay DEF Finish, At, Whole, TypeOK
<1>2. UNCHANGED <<run, svc, worker, jobs, calls, sweep, faults>> BY DEF Finish, world
<1>3. act' \in [Activation -> Row] /\ Kind
  <2>1. CASE act' = act BY <1>1, <1>2, <2>1 DEF Kind, Steady, SameRows, SameRow, SameServices
  <2>2. CASE act' = [act EXCEPT ![Act(c)].token = NoController, ![Act(c)].leased = FALSE]
    <3> DEFINE q == [act[Act(c)] EXCEPT !.token = NoController, !.leased = FALSE]
    <3>1. act' = [act EXCEPT ![Act(c)] = q] BY <1>1, <2>2
    <3>2. Kept(act[Act(c)], q) /\ q.phase = act[Act(c)].phase BY <1>1, Noted
    <3> HIDE DEF q
    <3> QED BY <1>1, <1>2, <3>1, <3>2, RowChanged
  <2> QED BY <2>1, <2>2 DEF Finish
<1>4. DataTypes /\ JobsFrom BY <1>2, <1>3, SameData DEF DataTypes
<1> QED BY <1>3, <1>4, TasksRest, KeptByKind DEF Finish

\* A controller takes an activation: in its phase, in that of the preflight, or to cancel it.
LEMMA TakeWhole ==
  ASSUME Whole, NEW c \in Controller, NEW a \in Activation, NEW expired \in BOOLEAN,
         Take(c, a, expired)
  PROVE  Whole' /\ Kind
<1> DEFINE r == act[a]
           cancel == r.cancel \/ RunEnded(a) \/ expired
           phase == IF cancel THEN "cancelling"
                    ELSE IF r.phase = "requested" THEN "preflighting" ELSE r.phase
           q == [r EXCEPT !.token = c, !.leased = TRUE, !.cancel = cancel, !.phase = phase,
                          !.error = @ \/ expired \/ run[a] = "failed"]
<1>1. /\ r \in Row /\ act \in [Activation -> Row] /\ ctl \in [Controller -> Task] /\ TypeOK
      /\ run[a] \in RunState /\ a \in Pending BY DEF Take, Whole, TypeOK
<1>2. act' = [act EXCEPT ![a] = q] /\ ctl' = [ctl EXCEPT ![c] = [pc |-> phase, act |-> a, phase |-> phase]]
  BY DEF Take
<1>3. UNCHANGED <<run, svc, worker, jobs, calls, sweep, faults>> BY DEF Take, world
<1>4. phase \in Phase \ (Terminal \cup {"none", "requested"})
  BY <1>1 DEF Row, Phase, Terminal, Pending, DeadlinePhases
<1>5. cancel \in BOOLEAN /\ (r.error \/ expired \/ run[a] = "failed") \in BOOLEAN BY <1>1 DEF Row, RunEnded
<1> HIDE DEF cancel
<1>6. q.phase = phase /\ Kept(r, q) BY <1>1, <1>4, <1>5 DEF Kept, Row
<1>7. act'[a] = q BY <1>1, <1>2
<1> HIDE DEF q
<1>8. phase = r.phase \/ PhaseMoves(a) BY <1>1, <1>6, <1>7 DEF PhaseMoves
<1>9. act' \in [Activation -> Row] /\ Kind BY <1>2, <1>3, <1>6, <1>8, RowChanged
<1>10. DataTypes /\ JobsFrom BY <1>3, <1>9, SameData DEF DataTypes
<1> HIDE DEF phase
<1> DEFINE t == [pc |-> phase, act |-> a, phase |-> phase]
<1>11. phase \in Pc /\ phase \in Phase BY <1>4 DEF Phase, Terminal, DeadlinePhases, Pc
<1>12. t \in Task /\ t.pc = phase /\ t.act = a /\ t.phase = phase BY <1>11 DEF Task
<1> HIDE DEF t
<1>13. ctl' \in [Controller -> Task] /\ ctl'[c] = t /\ \A d \in Controller \ {c} : ctl'[d] = ctl[d]
  BY <1>1, <1>2, <1>12 DEF t
<1>14. TaskWhole(c)'
  <2>1. phase # "idle" BY <1>4 DEF Phase, Terminal, DeadlinePhases
  <2>2. TakenWhole(a, phase, act') BY <1>4, <1>6, <1>7 DEF TakenWhole, Terminal
  <2>3. PlaceWhole(phase, a, phase, act', svc', run', worker')
    BY <1>4, <1>11 DEF PlaceWhole, InPhase, Phase, Terminal, DeadlinePhases, Unjob
  <2> QED BY <1>12, <1>13, <2>1, <2>2, <2>3 DEF TaskWhole
<1>15. \A d \in Controller : TaskWhole(d)' BY <1>9, <1>13, <1>14, TaskKept
<1> QED BY <1>9, <1>10, <1>13, <1>15, KeptByKind

\* A controller that owns its activation is in the phase of the row.
LEMMA Owner ==
  ASSUME Whole, NEW c \in Controller, NEW pc \in Pc \ {"idle"}, Owned(c, pc)
  PROVE  /\ ctl[c].pc = pc /\ Act(c) \in Activation /\ act[Act(c)] \in Row
         /\ Act(c) \in Pending /\ act[Act(c)].phase = ctl[c].phase
         /\ InPhase(pc, act[Act(c)].phase)
         /\ PlaceWhole(pc, Act(c), act[Act(c)].phase, act, svc, run, worker)
         /\ ActivationWhole(Act(c))
<1>1. ctl[c].pc = pc /\ act[Act(c)].phase = ctl[c].phase BY DEF Owned, At, Owns
<1>2. /\ Act(c) \in Activation /\ act[Act(c)] \in Row /\ ActivationWhole(Act(c))
      /\ TakenWhole(Act(c), ctl[c].phase, act)
      /\ PlaceWhole(pc, Act(c), ctl[c].phase, act, svc, run, worker) BY <1>1, UnderWay
<1>3. Act(c) \in Pending BY <1>1, <1>2 DEF TakenWhole, Pending
<1> QED BY <1>1, <1>2, <1>3 DEF PlaceWhole

\* The row of an activation of which a controller changes more than its phase.
LEMMA UpdatedPhase ==
  ASSUME Whole, NEW c \in Controller, Act(c) \in Activation, NEW q, Kept(act[Act(c)], q),
         Update(c, q, "finish")
  PROVE  act'[Act(c)].phase = q.phase BY DEF Whole, TypeOK, Update, Kept

\* An error is kept in the row; a rejection cancels the activation as well.
LEMMA RecordErrorWhole ==
  ASSUME Whole, NEW c \in Controller, RecordError(c)
  PROVE  Whole' /\ Kind
<1>0. UNCHANGED <<run, svc, world, faults>> BY DEF RecordError
<1>1. CASE Owned(c, "error") /\ Update(c, [act[Act(c)] EXCEPT !.error = TRUE], "finish")
  <2>1. ctl[c].pc # "idle" /\ act[Act(c)] \in Row BY <1>1, Owner DEF Pc
  <2>2. Kept(act[Act(c)], [act[Act(c)] EXCEPT !.error = TRUE])
        /\ [act[Act(c)] EXCEPT !.error = TRUE].phase = act[Act(c)].phase BY <2>1, Noted
  <2> QED BY <1>0, <1>1, <2>1, <2>2, RowUpdated
<1>2. CASE Owned(c, "reject") /\ Update(c, Failing(act[Act(c)]), "finish")
  <2>1. ctl[c].pc # "idle" /\ act[Act(c)] \in Row /\ Act(c) \in Activation /\ Act(c) \in Pending
    BY <1>2, Owner DEF Pc
  <2>2. Kept(act[Act(c)], Failing(act[Act(c)])) /\ Failing(act[Act(c)]).phase = "cancelling" BY <2>1, Cancels
  <2>3. PhaseMoves(Act(c)) BY <1>2, <2>1, <2>2, UpdatedPhase DEF PhaseMoves
  <2> QED BY <1>0, <1>2, <2>1, <2>2, <2>3, RowUpdated
<1> QED BY <1>1, <1>2 DEF RecordError

\* The preflight passed; the activation was validated; the predecessor is gone.
LEMMA EnterWhole ==
  ASSUME Whole, NEW c \in Controller, Preflighted(c) \/ Validated(c) \/ Retired(c)
  PROVE  Whole' /\ Kind
<1> DEFINE a == Act(c)
           next == IF act[a].pred = NoActivation THEN "starting" ELSE "retiring"
<1>0. UNCHANGED <<run, svc, world, faults>> BY DEF Preflighted, Validated, Retired
<1>1. PICK pc \in {"preflighted", "validated", "retired"} : Owned(c, pc)
        /\ (pc = "preflighted" => Preflighted(c)) /\ (pc = "validated" => Validated(c))
        /\ (pc = "retired" => Retired(c)) BY DEF Preflighted, Validated, Retired, Owned, At
<1>2. /\ ctl[c].pc # "idle" /\ a \in Activation /\ act[a] \in Row /\ a \in Pending
      /\ InPhase(pc, act[a].phase)
      /\ PlaceWhole(pc, a, act[a].phase, act, svc, run, worker) BY <1>1, Owner DEF Pc
<1>3. CASE Goto(c, "reject") /\ UNCHANGED act
  <2>1. PlaceWhole("reject", a, ctl[c].phase, act, svc, run, worker) /\ "reject" \in Pc \ {"idle"} BY AnyPlace
  <2>2. DataTypes /\ JobsFrom BY <1>0, <1>3, SameData DEF world, DataTypes
  <2> QED BY <1>0, <1>2, <1>3, <2>1, <2>2, KeptAside DEF world
<1>4. ASSUME NEW p \in Phase, NEW q \in {Enter(act[a], p), [Enter(act[a], p) EXCEPT !.error = FALSE]},
             Update(c, q, "finish"),
             \/ pc = "preflighted" /\ p = "validated"
             \/ pc = "validated" /\ p = next
             \/ pc = "retired" /\ p = "starting"
      PROVE  Whole' /\ Kind
  <2>1. Kept(act[a], q) /\ q.phase = IF act[a].cancel THEN "cancelling" ELSE p
    <3>1. act[a] \in Row BY <1>2
    <3>2. CASE q = Enter(act[a], p)
      <4>1. Kept(act[a], Enter(act[a], p))
            /\ Enter(act[a], p).phase = IF act[a].cancel THEN "cancelling" ELSE p BY <3>1, Enters
      <4> QED BY <3>2, <4>1
    <3>3. CASE q = [Enter(act[a], p) EXCEPT !.error = FALSE]
      <4> DEFINE e == [Enter(act[a], p) EXCEPT !.error = FALSE]
      <4>1. Kept(act[a], e) /\ e.phase = IF act[a].cancel THEN "cancelling" ELSE p BY <3>1, EntersWell
      <4>2. q = e BY <3>3
      <4> HIDE DEF e
      <4> QED BY <4>1, <4>2
    <3> QED BY <1>4, <3>2, <3>3
  <2>2. act'[a].phase = q.phase BY <1>2, <1>4, <2>1, UpdatedPhase
  <2>3. pc = "preflighted" => act[a].phase = "preflighting" BY <1>2 DEF InPhase
  <2>4. pc = "validated" => act[a].phase = "validated" BY <1>2 DEF InPhase
  <2>5. pc = "retired" => act[a].phase = "retiring" /\ svc[act[a].pred].intent = "none"
    BY <1>2 DEF InPhase, PlaceWhole
  <2>6. PhaseMoves(a)
    <3>1. CASE act[a].cancel BY <1>2, <2>1, <2>2, <3>1 DEF PhaseMoves
    <3>2. CASE ~act[a].cancel /\ pc = "preflighted" BY <1>4, <2>1, <2>2, <2>3, <3>2 DEF PhaseMoves
    <3>3. CASE ~act[a].cancel /\ pc = "validated" BY <1>4, <2>1, <2>2, <2>4, <3>3 DEF PhaseMoves
    <3>4. CASE ~act[a].cancel /\ pc = "retired" BY <1>4, <2>1, <2>2, <2>5, <3>4 DEF PhaseMoves
    <3> QED BY <1>1, <3>1, <3>2, <3>3, <3>4
  <2> QED BY <1>0, <1>2, <1>4, <2>1, <2>6, RowUpdated
<1>5. CASE pc = "preflighted"
  <2>1. "validated" \in Phase BY DEF Phase, DeadlinePhases
  <2>2. CASE Update(c, [Enter(act[a], "validated") EXCEPT !.error = FALSE], "finish")
    BY <1>4, <1>5, <2>1, <2>2
  <2> QED BY <1>1, <1>3, <1>5, <2>2 DEF Preflighted
<1>6. CASE pc = "validated"
  <2>1. next \in Phase BY DEF Phase, DeadlinePhases
  <2>2. CASE Update(c, Enter(act[a], next), "finish") BY <1>4, <1>6, <2>1, <2>2
  <2> QED BY <1>1, <1>3, <1>6, <2>2 DEF Validated
<1>7. CASE pc = "retired"
  <2>1. "starting" \in Phase BY DEF Phase, DeadlinePhases
  <2>2. Update(c, [Enter(act[a], "starting") EXCEPT !.error = FALSE], "finish") BY <1>1, <1>7 DEF Retired
  <2> QED BY <1>4, <1>7, <2>1, <2>2
<1> QED BY <1>1, <1>5, <1>6, <1>7

\* The launch is done: the activation waits for a heartbeat, or the run is over.
LEMMA StartedWhole ==
  ASSUME Whole, NEW c \in Controller, Started(c)
  PROVE  Whole' /\ Kind
<1> DEFINE a == Act(c)
           r == [act[a] EXCEPT !.late = FALSE]
           q == IF RunEnded(a) THEN Failing(r)
                ELSE [Enter(r, "awaiting_heartbeat") EXCEPT !.error = FALSE]
<1>1. Owned(c, "started") /\ Update(c, q, "finish") /\ UNCHANGED <<run, svc, world, faults>> BY DEF Started
<1>2. /\ ctl[c].pc # "idle" /\ a \in Activation /\ act[a] \in Row /\ a \in Pending
      /\ InPhase("started", act[a].phase) BY <1>1, Owner DEF Pc
<1>3. Kept(act[a], r) /\ r.phase = act[a].phase BY <1>2, Noted
<1> HIDE DEF r
<1>4. "awaiting_heartbeat" \in Phase BY DEF Phase
<1>5. Kept(r, q) /\ q.phase \in {"cancelling", "awaiting_heartbeat"}
  <2>1. r \in Row BY <1>3 DEF Kept
  <2> QED BY <2>1, <1>4, Cancels, EntersWell
<1> HIDE DEF q
<1>6. Kept(act[a], q) BY <1>3, <1>5 DEF Kept
<1>7. act'[a].phase = q.phase BY <1>1, <1>2, <1>6, UpdatedPhase
<1>8. act[a].phase = "starting" BY <1>2 DEF InPhase
<1>9. PhaseMoves(a) BY <1>2, <1>5, <1>7, <1>8 DEF PhaseMoves
<1> QED BY <1>1, <1>2, <1>6, <1>9, RowUpdated

\* The successor is healthy, has failed, is not wanted any more, or is still to be heard of.
LEMMA VerifyWhole ==
  ASSUME Whole, NEW c \in Controller, NEW recent \in BOOLEAN, Verify(c, recent)
  PROVE  Whole' /\ Kind
<1> DEFINE a == Act(c)
           r == act[a]
           done == [r EXCEPT !.phase = "succeeded", !.error = FALSE]
<1>1. PICK q : /\ Update(c, q, "finish")
               /\ \/ q \in {Cancelling(r), Failing(r), r}
                  \/ q = done /\ svc[a].intent = "running" BY DEF Verify
<1>2. Owned(c, "awaiting_heartbeat") /\ UNCHANGED <<run, svc, world, faults>> BY DEF Verify
<1>3. /\ ctl[c].pc # "idle" /\ a \in Activation /\ r \in Row /\ a \in Pending
      /\ InPhase("awaiting_heartbeat", r.phase) BY <1>2, Owner DEF Pc
<1>4. Kept(r, done) /\ done.phase = "succeeded"
  <2>1. "succeeded" \in Phase BY DEF Phase, Terminal
  <2> QED BY <1>3, <2>1 DEF Kept, Row
<1> HIDE DEF done
<1>5. Kept(r, q) BY <1>1, <1>3, <1>4, Cancels DEF Kept
<1>6. act'[a].phase = q.phase BY <1>1, <1>3, <1>5, UpdatedPhase
<1>7. r.phase = "awaiting_heartbeat" BY <1>3 DEF InPhase
<1>8. q.phase = r.phase \/ PhaseMoves(a)
  <2>1. CASE q \in {Cancelling(r), Failing(r)} BY <1>3, <1>6, <2>1, Cancels DEF PhaseMoves
  <2>2. CASE q = r BY <2>2
  <2>3. CASE q = done /\ svc[a].intent = "running" BY <1>4, <1>6, <1>7, <2>3 DEF PhaseMoves
  <2> QED BY <1>1, <2>1, <2>2, <2>3
<1> QED BY <1>1, <1>2, <1>3, <1>5, <1>8, RowUpdated

\* The cancellation is over once nothing of the successor is left.
LEMMA EndWhole ==
  ASSUME Whole, NEW c \in Controller, End(c)
  PROVE  Whole' /\ Kind
<1> DEFINE a == Act(c)
           p == IF act[a].error THEN "failed" ELSE "cancelled"
           q == [act[a] EXCEPT !.phase = p]
<1>1. Owned(c, "end") /\ Update(c, q, "finish") /\ UNCHANGED <<run, svc, world, faults>> BY DEF End
<1>2. /\ ctl[c].pc # "idle" /\ a \in Activation /\ act[a] \in Row
      /\ PlaceWhole("end", a, act[a].phase, act, svc, run, worker) BY <1>1, Owner DEF Pc
<1>3. p \in {"cancelled", "failed"} /\ p \in Phase BY DEF Phase, Terminal
<1> HIDE DEF p
<1>4. Kept(act[a], q) /\ q.phase = p BY <1>2, <1>3 DEF Kept, Row
<1> HIDE DEF q
<1>5. act'[a].phase = q.phase BY <1>1, <1>2, <1>4, UpdatedPhase
<1>6. act[a].phase = "cancelling" /\ Over(run[a]) /\ svc[a].intent # "running" BY <1>2 DEF PlaceWhole, InPhase
<1>7. PhaseMoves(a) BY <1>3, <1>4, <1>5, <1>6 DEF PhaseMoves
<1> QED BY <1>1, <1>2, <1>4, <1>7, RowUpdated

-----------------------------------------------------------------------------
(* Steps of a controller on services.                                      *)

\* One service with its run is changed, in a way that Serves knows.
LEMMA ServiceChanged ==
  ASSUME Whole, SameRows, NEW x \in Activation, NEW s \in Service, NEW v \in RunState,
         svc' = [svc EXCEPT ![x] = s], run' = [run EXCEPT ![x] = v], UNCHANGED worker,
         Told(x) \/ Launched(x) \/ Released(x)
  PROVE  /\ svc' \in [Activation -> Service] /\ run' \in [Activation -> RunState]
         /\ Kind
<1>1. svc \in [Activation -> Service] /\ run \in [Activation -> RunState] BY DEF Whole, TypeOK
<1>2. \A b \in Activation \ {x} : svc'[b] = svc[b] /\ run'[b] = run[b] BY <1>1
<1>3. Serves(x) BY <1>2 DEF Serves
<1> QED BY <1>1, <1>3 DEF Kind

\* Services are as they were.
LEMMA NothingChanged ==
  ASSUME Whole, SameRows, UNCHANGED <<svc, run, worker>>
  PROVE  /\ svc' \in [Activation -> Service] /\ run' \in [Activation -> RunState]
         /\ Kind BY DEF Whole, TypeOK, Kind, Steady, SameServices

\* Rows that do not change are the same.
LEMMA RowsUnchanged ==
  ASSUME UNCHANGED act
  PROVE  SameRows BY DEF SameRows, SameRow

\* A service that is told to go, or that a removal has gone through with.
LEMMA Deleting ==
  ASSUME NEW s \in Service
  PROVE  /\ MarkDeleting(s) \in Service /\ MarkDeleting(s).intent = "deleted"
         /\ MarkDeleting(s).claim = s.claim BY DEF MarkDeleting, Service

\* A purge releases what was claimed; a row without a claim only goes.
LEMMA PurgeChanges ==
  ASSUME Whole, SameRows, NEW x \in Activation, Purge(x), UNCHANGED worker,
         svc[x].intent = "deleted", x \notin worker
  PROVE  /\ svc' \in [Activation -> Service] /\ run' \in [Activation -> RunState]
         /\ Kind /\ svc'[x].intent = "none"
<1>1. /\ svc \in [Activation -> Service] /\ run \in [Activation -> RunState]
      /\ run[x] \in RunState /\ ActivationWhole(x) BY DEF Whole, TypeOK
<1>2. run[x] # "none" BY <1>1 DEF ActivationWhole
<1>3. Closed(run[x]) \in RunState /\ Over(Closed(run[x])) BY <1>1, <1>2 DEF Closed, RunState, Over
<1>4. svc' = [svc EXCEPT ![x] = NoService] /\ run' = [run EXCEPT ![x] = Closed(run[x])] BY <1>1 DEF Purge
<1>5. svc'[x] = NoService /\ run'[x] = Closed(run[x]) BY <1>1, <1>4
<1>6. Released(x) BY <1>2, <1>3, <1>5, Values DEF Released
<1> QED BY <1>3, <1>4, <1>5, <1>6, Values, ServiceChanged

\* The last transaction of retire_service on the row of x.
LEMMA PurgeRetiredChanges ==
  ASSUME Whole, SameRows, NEW x \in Activation, NEW c, NEW p, NEW q, PurgeRetired(c, x, p, q),
         UNCHANGED worker, x \notin worker
  PROVE  /\ svc' \in [Activation -> Service] /\ run' \in [Activation -> RunState] /\ Kind
         /\ IF svc[x].intent \in {"none", "deleted"}
            THEN Goto(c, p) /\ svc'[x].intent = "none"
            ELSE Goto(c, q) /\ svc' = svc /\ run' = run
<1>1. CASE svc[x].intent = "deleted"
  <2>1. Purge(x) /\ Goto(c, p) BY <1>1 DEF PurgeRetired
  <2> QED BY <1>1, <2>1, PurgeChanges
<1>2. CASE svc[x].intent # "deleted"
  <2>1. UNCHANGED <<svc, run, worker>> BY <1>2 DEF PurgeRetired
  <2>2. Goto(c, IF svc[x].intent \in {"none", "deleted"} THEN p ELSE q) BY DEF PurgeRetired
  <2> QED BY <1>2, <2>1, <2>2, NothingChanged
<1> QED BY <1>1, <1>2

\* retire_service: the predecessor is marked, unless it is gone or no longer wanted gone.
LEMMA RetireWhole ==
  ASSUME Whole, NEW c \in Controller, Retire(c)
  PROVE  Whole' /\ Kind
<1> DEFINE a == Act(c)
           r == act[a]
           x == r.pred
<1>1. Owned(c, "retiring") /\ UNCHANGED <<run, world, faults>> BY DEF Retire
<1>2. /\ ctl[c].pc = "retiring" /\ a \in Activation /\ r \in Row /\ a \in Pending
      /\ r.phase = ctl[c].phase /\ InPhase("retiring", r.phase) /\ ActivationWhole(a) BY <1>1, Owner DEF Pc
<1>3. r.phase = "retiring" /\ x \in Activation /\ ctl[c].phase = "retiring"
  BY <1>2 DEF InPhase, ActivationWhole, Row
<1>4. CASE r.cancel /\ Update(c, Enter(r, "retiring"), "finish") /\ UNCHANGED svc
  <2>1. "retiring" \in Phase BY DEF Phase, DeadlinePhases
  <2>2. Kept(r, Enter(r, "retiring")) /\ Enter(r, "retiring").phase = "cancelling" BY <1>2, <1>4, <2>1, Enters
  <2>3. act'[a].phase = "cancelling" BY <1>2, <1>4, <2>2, UpdatedPhase
  <2>4. PhaseMoves(a) BY <1>2, <2>3 DEF PhaseMoves
  <2> QED BY <1>1, <1>2, <1>4, <2>2, <2>4, RowUpdated
<1>5. ASSUME NEW pc \in {"reject", "absent"}, Goto(c, pc), UNCHANGED <<act, svc>>,
             pc = "absent" => svc[x].intent = "none"
      PROVE  Whole' /\ Kind
  <2>1. pc \in Pc \ {"idle"} /\ PlaceWhole(pc, a, ctl[c].phase, act, svc, run, worker)
    BY <1>3, <1>5 DEF PlaceWhole, InPhase, Unjob, Pc, Remote
  <2>2. DataTypes /\ JobsFrom BY <1>1, <1>5, SameData DEF world, DataTypes
  <2> QED BY <1>1, <1>2, <1>5, <2>1, <2>2, KeptAside DEF world
<1>6. CASE /\ ~r.cancel
           /\ svc[x].intent \in {"deleted", "running"}
           /\ Update(c, [r EXCEPT !.retired = TRUE], "shutdown")
           /\ svc' = [svc EXCEPT ![x] = MarkDeleting(@)]
  <2> DEFINE q == [r EXCEPT !.retired = TRUE]
             s == MarkDeleting(svc[x])
  <2>1. q \in Row /\ q.phase = r.phase /\ q.inputs = r.inputs /\ q.pred = r.pred BY <1>2 DEF Row
  <2>2. act' = [act EXCEPT ![a] = q] /\ Goto(c, "shutdown") BY <1>6 DEF Update
  <2> HIDE DEF q
  <2>3. /\ act \in [Activation -> Row] /\ svc \in [Activation -> Service]
        /\ run \in [Activation -> RunState] BY DEF Whole, TypeOK
  <2>4. act' \in [Activation -> Row] /\ act'[a] = q /\ \A b \in Activation \ {a} : act'[b] = act[b]
    BY <1>2, <2>1, <2>2, <2>3
  <2>5. SameRows BY <1>6, <2>1, <2>4 DEF SameRows, SameRow
  <2>6. s \in Service /\ s.intent = "deleted" /\ s.claim = svc[x].claim BY <1>3, <2>3, Deleting
  <2>7. svc' = [svc EXCEPT ![x] = s] BY <1>6, <2>3
  <2> HIDE DEF s
  <2>8. svc'[x] = s BY <1>3, <2>3, <2>7
  <2>9. run' = [run EXCEPT ![x] = run[x]] /\ run[x] \in RunState /\ UNCHANGED <<run, worker>>
    BY <1>1, <1>3, <2>3 DEF world
  <2>10. Told(x) BY <1>6, <2>6, <2>8, <2>9 DEF Told
  <2>11. svc' \in [Activation -> Service] /\ run' \in [Activation -> RunState] /\ Kind
    BY <1>3, <2>5, <2>6, <2>7, <2>9, <2>10, ServiceChanged
  <2>12. DataTypes /\ JobsFrom BY <1>1, <2>4, <2>11, SameData DEF world, DataTypes
  <2>13. "shutdown" \in Pc \ {"idle"} /\ PlaceWhole("shutdown", a, ctl[c].phase, act', svc', run', worker')
    BY <1>3, <2>1, <2>4, <2>6, <2>8 DEF PlaceWhole, InPhase, Unjob, Pc, Remote
  <2> QED BY <1>2, <2>2, <2>11, <2>12, <2>13, KeptGoing
<1>7. \/ r.cancel /\ Update(c, Enter(r, "retiring"), "finish") /\ UNCHANGED svc
      \/ Goto(c, "reject") /\ UNCHANGED <<act, svc>>
      \/ /\ ~r.cancel
         /\ svc[x].intent \in {"deleted", "running"}
         /\ Update(c, [r EXCEPT !.retired = TRUE], "shutdown")
         /\ svc' = [svc EXCEPT ![x] = MarkDeleting(@)]
      \/ Goto(c, "absent") /\ UNCHANGED <<act, svc>> /\ svc[x].intent = "none" BY DEF Retire, RetireCancelled
<1> QED BY <1>4, <1>5, <1>6, <1>7

\* The row of the predecessor, or of the successor, is purged after its worker is gone.
LEMMA PurgeRowWhole ==
  ASSUME Whole, NEW c \in Controller, PurgeRow(c)
  PROVE  Whole' /\ Kind
<1> DEFINE a == Act(c)
<1>1. /\ ctl[c].pc \in {"purge", "purgeSuccessor"} /\ ctl[c].pc # "idle"
      /\ UNCHANGED <<act, world, faults>> /\ UNCHANGED worker BY DEF PurgeRow, At, world
<1>2. /\ a \in Activation /\ act[a] \in Row
      /\ PlaceWhole(ctl[c].pc, a, ctl[c].phase, act, svc, run, worker) BY <1>1, UnderWay
<1>3. SameRows BY <1>1, RowsUnchanged
<1>4. ASSUME svc' \in [Activation -> Service], run' \in [Activation -> RunState]
      PROVE  DataTypes /\ JobsFrom BY <1>1, <1>4, SameData DEF world, DataTypes
<1>5. CASE ctl[c].pc = "purge"
  <2> DEFINE x == act[a].pred
  <2>1. x \in Activation /\ x \notin worker /\ svc[x].intent # "running" /\ ctl[c].phase = "retiring"
    BY <1>2, <1>5 DEF PlaceWhole, InPhase, Row
  <2>2. PurgeRetired(c, x, "retired", "error") BY <1>5 DEF PurgeRow, At
  <2>3. /\ svc' \in [Activation -> Service] /\ run' \in [Activation -> RunState] /\ Kind
        /\ \/ Goto(c, "retired") /\ svc'[x].intent = "none"
           \/ Goto(c, "error") BY <1>1, <1>3, <2>1, <2>2, PurgeRetiredChanges
  <2>4. PICK pc \in {"retired", "error"} : Goto(c, pc) /\ (pc = "retired" => svc'[x].intent = "none") BY <2>3
  <2>5. pc \in Pc \ {"idle"} /\ PlaceWhole(pc, a, ctl[c].phase, act', svc', run', worker')
    BY <1>1, <2>1, <2>4 DEF PlaceWhole, InPhase, Unjob, Pc, Remote
  <2> QED BY <1>1, <1>4, <2>3, <2>4, <2>5, KeptGoing
<1>6. CASE ctl[c].pc = "purgeSuccessor"
  <2>1. a \notin worker /\ svc[a].intent # "running" /\ ctl[c].phase = "cancelling" /\ Over(run[a])
    BY <1>2, <1>6 DEF PlaceWhole, InPhase
  <2>2. PurgeRetired(c, a, "stopped", "confirm") BY <1>6 DEF PurgeRow, At
  <2>3. /\ svc' \in [Activation -> Service] /\ run' \in [Activation -> RunState] /\ Kind
        /\ Goto(c, "stopped") \/ Goto(c, "confirm")
        /\ svc'[a].intent # "running" BY <1>1, <1>2, <1>3, <2>1, <2>2, PurgeRetiredChanges
  <2>4. PICK pc \in {"stopped", "confirm"} : Goto(c, pc) BY <2>3
  <2>5. Over(run'[a]) BY <1>2, <2>1, <2>3, Stays
  <2>6. pc \in Pc \ {"idle"} /\ PlaceWhole(pc, a, ctl[c].phase, act', svc', run', worker')
    BY <1>1, <2>1, <2>3, <2>5 DEF PlaceWhole, InPhase, Unjob, Pc, Remote
  <2> QED BY <1>1, <1>4, <2>3, <2>4, <2>6, KeptGoing
<1> QED BY <1>1, <1>5, <1>6

\* A launch claims the readings; one that was interrupted is resumed.
LEMMA LaunchWhole ==
  ASSUME Whole, NEW c \in Controller, Launch(c)
  PROVE  Whole' /\ Kind
<1> DEFINE a == Act(c)
           s == [NoService EXCEPT !.intent = "running", !.claim = TRUE]
<1>1. At(c, "launch") /\ ctl[c].pc # "idle" /\ UNCHANGED <<act, run, world, faults>>
      /\ UNCHANGED <<run, worker>> BY DEF Launch, At, world
<1>2. a \in Activation /\ PlaceWhole("launch", a, ctl[c].phase, act, svc, run, worker)
  BY <1>1, UnderWay DEF At
<1>3. ctl[c].phase = "starting" BY <1>2 DEF PlaceWhole, InPhase
<1>4. SameRows BY <1>1, RowsUnchanged
<1>5. \A pc \in {"error", "create"} :
        pc \in Pc \ {"idle"} /\ \A S : PlaceWhole(pc, a, ctl[c].phase, act, S, run, worker)
  BY <1>3 DEF PlaceWhole, InPhase, Unjob, Pc, Remote
<1>6. CASE UNCHANGED svc
  <2>1. PICK pc \in {"error", "create"} : Goto(c, pc) BY DEF Launch
  <2>2. DataTypes /\ JobsFrom BY <1>1, <1>6, SameData DEF world, DataTypes
  <2> QED BY <1>1, <1>5, <1>6, <2>1, <2>2, KeptAside
<1>7. CASE /\ MayLaunch(a) /\ InputsAvailable(a) /\ Goto(c, "create") /\ svc[a].intent = "none"
           /\ svc' = [svc EXCEPT ![a] = s]
  <2>1. svc \in [Activation -> Service] /\ run \in [Activation -> RunState]
        /\ \A b \in Activation : ActivationWhole(b) BY DEF Whole, TypeOK
  <2>2. s \in Service /\ s.intent = "running" /\ s.claim BY DEF NoService, Service
  <2> HIDE DEF s
  <2>3. svc'[a] = s /\ run' = [run EXCEPT ![a] = run[a]] /\ run[a] \in RunState BY <1>1, <1>2, <1>7, <2>1
  <2>4. Holders = {t \in Activation : svc[t].claim} BY <2>1, HoldersClaim
  <2>5. \A t \in Activation \ {a} : svc[t].claim => act[a].inputs \cap act[t].inputs = {}
    <3>1. \A t \in Holders \ {a} : Inputs(a) \cap Inputs(t) = {} BY <1>7 DEF InputsAvailable
    <3>2. \A t \in Activation : Inputs(t) = act[t].inputs BY DEF Inputs
    <3> QED BY <1>2, <2>4, <3>1, <3>2
  <2>6. Launched(a) BY <1>1, <1>7, <2>2, <2>3, <2>5 DEF Launched, MayLaunch
  <2>7. svc' \in [Activation -> Service] /\ run' \in [Activation -> RunState] /\ Kind
    BY <1>1, <1>2, <1>4, <1>7, <2>2, <2>3, <2>6, ServiceChanged
  <2>8. DataTypes /\ JobsFrom BY <1>1, <2>7, SameData DEF world, DataTypes
  <2>9. "create" \in Pc \ {"idle"} /\ PlaceWhole("create", a, ctl[c].phase, act', svc', run', worker')
    BY <1>1, <1>5
  <2> QED BY <1>1, <1>7, <2>7, <2>8, <2>9, KeptGoing
<1>8. UNCHANGED svc \/ (/\ MayLaunch(a) /\ InputsAvailable(a) /\ Goto(c, "create")
                        /\ svc[a].intent = "none" /\ svc' = [svc EXCEPT ![a] = s]) BY DEF Launch
<1> QED BY <1>6, <1>7, <1>8

\* A service of which only what it claims and whether it is to run matters here.
LEMMA SameIntent ==
  ASSUME NEW s \in Service, NEW f \in {"no", "launch", "worker"}
  PROVE  /\ [s EXCEPT !.attached = TRUE] \in Service
         /\ [s EXCEPT !.attached = TRUE].intent = s.intent
         /\ [s EXCEPT !.attached = TRUE].claim = s.claim
         /\ [s EXCEPT !.failed = f] \in Service
         /\ [s EXCEPT !.failed = f].intent = s.intent /\ [s EXCEPT !.failed = f].claim = s.claim
<1>1. /\ [s EXCEPT !.attached = TRUE] \in Service
      /\ [s EXCEPT !.attached = TRUE].intent = s.intent
      /\ [s EXCEPT !.attached = TRUE].claim = s.claim BY DEF Service
<1>2. /\ [s EXCEPT !.failed = f] \in Service
      /\ [s EXCEPT !.failed = f].intent = s.intent /\ [s EXCEPT !.failed = f].claim = s.claim BY DEF Service
<1> QED BY <1>1, <1>2

\* One service is told something while all runs stay.
LEMMA ServiceTold ==
  ASSUME Whole, SameRows, NEW x \in Activation, NEW s \in Service,
         svc' = [svc EXCEPT ![x] = s], UNCHANGED <<run, worker>>, s.claim = svc[x].claim,
         s.intent = svc[x].intent \/ (svc[x].intent # "none" /\ s.intent = "deleted")
           \/ (svc[x].intent = "running" /\ s.intent = "stopped")
  PROVE  /\ svc' \in [Activation -> Service] /\ run' \in [Activation -> RunState]
         /\ Kind /\ svc'[x] = s
<1>1. svc \in [Activation -> Service] /\ run \in [Activation -> RunState] BY DEF Whole, TypeOK
<1>2. svc'[x] = s /\ run' = [run EXCEPT ![x] = run[x]] /\ run[x] \in RunState BY <1>1
<1>3. Told(x) BY <1>2 DEF Told
<1> QED BY <1>2, <1>3, ServiceChanged

\* A creation attaches the workload, or finds that it is not wanted any more.
LEMMA CreateWorkloadWhole ==
  ASSUME Whole, NEW c \in Controller, CreateWorkload(c)
  PROVE  Whole' /\ Kind
<1> DEFINE a == Act(c)
<1>1. At(c, "create") /\ ctl[c].pc # "idle" /\ UNCHANGED <<act, run, world, faults>>
      /\ UNCHANGED <<run, worker>> BY DEF CreateWorkload, At, world
<1>2. /\ a \in Activation /\ PlaceWhole("create", a, ctl[c].phase, act, svc, run, worker)
      /\ svc \in [Activation -> Service] BY <1>1, UnderWay DEF At, Whole, TypeOK
<1>3. ctl[c].phase = "starting" BY <1>2 DEF PlaceWhole, InPhase
<1>4. SameRows BY <1>1, RowsUnchanged
<1>5. \A pc \in {"error", "started"} :
        pc \in Pc \ {"idle"} /\ \A S : PlaceWhole(pc, a, ctl[c].phase, act, S, run, worker)
  BY <1>3 DEF PlaceWhole, InPhase, Unjob, Pc, Remote
<1>6. PICK pc \in {"error", "started"} : Goto(c, pc) BY DEF CreateWorkload
<1>7. svc' \in [Activation -> Service] /\ run' \in [Activation -> RunState] /\ Kind
  <2>1. CASE UNCHANGED svc BY <1>1, <1>4, <2>1, NothingChanged
  <2>2. CASE svc' = [svc EXCEPT ![a].attached = TRUE]
    <3>1. svc' = [svc EXCEPT ![a] = [svc[a] EXCEPT !.attached = TRUE]] BY <2>2
    <3>2. svc[a] \in Service BY <1>2
    <3>3. /\ [svc[a] EXCEPT !.attached = TRUE] \in Service
          /\ [svc[a] EXCEPT !.attached = TRUE].intent = svc[a].intent
          /\ [svc[a] EXCEPT !.attached = TRUE].claim = svc[a].claim BY <3>2, SameIntent
    <3> QED BY <1>1, <1>2, <1>4, <3>1, <3>3, ServiceTold
  <2> QED BY <2>1, <2>2 DEF CreateWorkload
<1>8. DataTypes /\ JobsFrom BY <1>1, <1>7, SameData DEF world, DataTypes
<1>9. PlaceWhole(pc, a, ctl[c].phase, act', svc', run', worker') BY <1>1, <1>5, <1>6
<1> QED BY <1>1, <1>5, <1>6, <1>7, <1>8, <1>9, KeptGoing

\* _cancel ends the run first.
LEMMA CloseRunWhole ==
  ASSUME Whole, NEW c \in Controller, CloseRun(c)
  PROVE  Whole' /\ Kind
<1> DEFINE a == Act(c)
           v == IF run[a] # "open" THEN run[a] ELSE IF act[a].error THEN "failed" ELSE "ended"
<1>1. /\ Owned(c, "cancelling") /\ Goto(c, "delete") /\ UNCHANGED <<act, svc, world, faults>>
      /\ UNCHANGED worker BY DEF CloseRun, world
<1>2. /\ ctl[c].pc # "idle" /\ a \in Activation /\ a \in Pending /\ act[a].phase = ctl[c].phase
      /\ InPhase("cancelling", act[a].phase) /\ ActivationWhole(a) BY <1>1, Owner DEF Pc
<1>3. run \in [Activation -> RunState] /\ svc \in [Activation -> Service] /\ svc[a] \in Service
  BY <1>2 DEF Whole, TypeOK
<1>4. run[a] \in RunState \ {"none"} BY <1>2, <1>3 DEF ActivationWhole, Pending
<1>5. v \in RunState /\ Over(v) BY <1>4 DEF RunState, Over
<1>6. run' = [run EXCEPT ![a] = v] BY <1>3 DEF CloseRun
<1> HIDE DEF v
<1>7. SameRows BY <1>1, RowsUnchanged
<1>8. svc' = [svc EXCEPT ![a] = svc[a]] /\ run'[a] = v BY <1>1, <1>2, <1>3, <1>6
<1>9. Told(a) BY <1>1, <1>4, <1>5, <1>8 DEF Told
<1>10. svc' \in [Activation -> Service] /\ run' \in [Activation -> RunState] /\ Kind
  BY <1>1, <1>2, <1>3, <1>5, <1>6, <1>7, <1>8, <1>9, ServiceChanged
<1>11. DataTypes /\ JobsFrom BY <1>1, <1>10, SameData DEF world, DataTypes
<1>12. "delete" \in Pc \ {"idle"} /\ PlaceWhole("delete", a, ctl[c].phase, act', svc', run', worker')
  BY <1>2, <1>5, <1>8 DEF PlaceWhole, InPhase, Unjob, Pc, Remote
<1> QED BY <1>1, <1>2, <1>10, <1>11, <1>12, KeptGoing

\* Then it marks the successor, if there is one.
LEMMA DeleteSuccessorWhole ==
  ASSUME Whole, NEW c \in Controller, DeleteSuccessor(c)
  PROVE  Whole' /\ Kind
<1> DEFINE a == Act(c)
<1>1. /\ Owned(c, "delete") /\ UNCHANGED <<act, run, world, faults>> /\ UNCHANGED <<run, worker>>
  BY DEF DeleteSuccessor, world
<1>2. /\ ctl[c].pc # "idle" /\ a \in Activation /\ act[a].phase = ctl[c].phase
      /\ PlaceWhole("delete", a, act[a].phase, act, svc, run, worker) BY <1>1, Owner DEF Pc
<1>3. Over(run[a]) /\ ctl[c].phase = "cancelling" BY <1>2 DEF PlaceWhole, InPhase
<1>4. svc \in [Activation -> Service] /\ svc[a] \in Service BY <1>2 DEF Whole, TypeOK
<1>5. SameRows BY <1>1, RowsUnchanged
<1>6. PICK pc \in {"absentSuccessor", "stop"} : Goto(c, pc) BY DEF DeleteSuccessor
<1>7. svc' \in [Activation -> Service] /\ run' \in [Activation -> RunState] /\ Kind
      /\ svc'[a].intent # "running"
  <2>1. CASE svc[a].intent = "none" /\ UNCHANGED svc BY <1>1, <1>5, <2>1, NothingChanged
  <2>2. CASE svc[a].intent # "none" /\ svc' = [svc EXCEPT ![a] = MarkDeleting(@)]
    <3>1. svc' = [svc EXCEPT ![a] = MarkDeleting(svc[a])] BY <1>2, <1>4, <2>2
    <3>2. /\ MarkDeleting(svc[a]) \in Service /\ MarkDeleting(svc[a]).intent = "deleted"
          /\ MarkDeleting(svc[a]).claim = svc[a].claim BY <1>4, Deleting
    <3>3. svc' \in [Activation -> Service] /\ run' \in [Activation -> RunState]
          /\ Kind /\ svc'[a] = MarkDeleting(svc[a]) BY <1>1, <1>2, <1>5, <2>2, <3>1, <3>2, ServiceTold
    <3> QED BY <3>2, <3>3
  <2> QED BY <2>1, <2>2 DEF DeleteSuccessor
<1>8. DataTypes /\ JobsFrom BY <1>1, <1>7, SameData DEF world, DataTypes
<1>9. pc \in Pc \ {"idle"} /\ PlaceWhole(pc, a, ctl[c].phase, act', svc', run', worker')
  BY <1>1, <1>3, <1>7 DEF PlaceWhole, InPhase, Unjob, Pc, Remote
<1> QED BY <1>2, <1>6, <1>7, <1>8, <1>9, KeptGoing

\* A remote call fails.
LEMMA RemoteFailsWhole ==
  ASSUME Whole, NEW c \in Controller, RemoteFails(c)
  PROVE  Whole' /\ Kind
<1> DEFINE a == Act(c)
<1>1. /\ ctl[c].pc \in Remote /\ ctl[c].pc # "idle" /\ Fault /\ Abandon(c)
      /\ UNCHANGED <<act, run, worker, jobs, sweep>>
      /\ UNCHANGED act /\ UNCHANGED <<run, worker>> /\ UNCHANGED <<jobs, sweep>>
  BY DEF RemoteFails, Remote, Unjob
<1>2. /\ a \in Activation /\ PlaceWhole(ctl[c].pc, a, ctl[c].phase, act, svc, run, worker)
      /\ svc \in [Activation -> Service] /\ svc[a] \in Service BY <1>1, UnderWay DEF Whole, TypeOK
<1>3. calls' \in SUBSET Activation /\ JobsFrom BY <1>1, Abandons
<1>4. faults' \in 0 .. MaxFaults BY <1>1, FaultTyped DEF Whole
<1>5. SameRows BY <1>1, RowsUnchanged
<1>6. svc' \in [Activation -> Service] /\ run' \in [Activation -> RunState] /\ Kind
      /\ svc'[a].intent = svc[a].intent
  <2>1. CASE UNCHANGED svc BY <1>1, <1>5, <2>1, NothingChanged
  <2>2. CASE svc' = [svc EXCEPT ![a].failed = "launch"]
    <3>1. svc' = [svc EXCEPT ![a] = [svc[a] EXCEPT !.failed = "launch"]] BY <2>2
    <3>2. /\ [svc[a] EXCEPT !.failed = "launch"] \in Service
          /\ [svc[a] EXCEPT !.failed = "launch"].intent = svc[a].intent
          /\ [svc[a] EXCEPT !.failed = "launch"].claim = svc[a].claim BY <1>2, SameIntent
    <3>3. svc' \in [Activation -> Service] /\ run' \in [Activation -> RunState]
          /\ Kind /\ svc'[a] = [svc[a] EXCEPT !.failed = "launch"]
      BY <1>1, <1>2, <1>5, <3>1, <3>2, ServiceTold
    <3> QED BY <3>2, <3>3
  <2> QED BY <2>1, <2>2 DEF RemoteFails
<1>7. DataTypes BY <1>1, <1>3, <1>4, <1>6, SameData DEF DataTypes
<1>8. PICK pc \in {"confirm", "unjobFailing", "error"} :
        /\ Goto(c, pc)
        /\ pc = "confirm" => ctl[c].pc = "stop"
        /\ pc = "unjobFailing" => ctl[c].pc = "report" BY DEF RemoteFails, At
<1>9. pc \in Pc \ {"idle"} /\ PlaceWhole(pc, a, ctl[c].phase, act', svc', run', worker')
  BY <1>1, <1>2, <1>6, <1>8 DEF PlaceWhole, InPhase, Unjob, Pc, Remote
<1> QED BY <1>1, <1>3, <1>6, <1>7, <1>8, <1>9, KeptGoing

-----------------------------------------------------------------------------
(* Steps of users, services, workers and the sweep.                        *)

\* A step without a controller on one service, its row told something.
LEMMA ToldElsewhere ==
  ASSUME Whole, SameRows, act' \in [Activation -> Row], UNCHANGED <<ctl, world, faults>>,
         svc' \in [Activation -> Service], run' \in [Activation -> RunState], Kind
  PROVE  Whole'
<1>1. DataTypes /\ JobsFrom BY SameData DEF world, DataTypes
<1> QED BY <1>1, KeptElsewhere

\* One row is marked.
LEMMA RowMarked ==
  ASSUME Whole, NEW a \in Activation, NEW q, act' = [act EXCEPT ![a] = q], Kept(act[a], q),
         q.phase = act[a].phase, UNCHANGED <<run, svc, world, ctl>>, faults' \in 0 .. MaxFaults
  PROVE  Whole' /\ Kind
<1>1. act' \in [Activation -> Row] /\ Kind BY RowChanged DEF world
<1>2. DataTypes /\ JobsFrom BY <1>1, SameData DEF world, DataTypes
<1> QED BY <1>1, <1>2, KeptElsewhere

\* A request to cancel, a deadline and a lease that passes mark one row.
LEMMA MarksWhole ==
  ASSUME Whole, NEW a \in Activation, RequestCancel(a) \/ DeadlinePasses(a) \/ LeaseExpires(a)
  PROVE  Whole' /\ Kind
<1>1. act[a] \in Row /\ act \in [Activation -> Row] /\ TypeOK BY DEF Whole, TypeOK
<1>2. faults' \in 0 .. MaxFaults BY <1>1, FaultTyped DEF RequestCancel, DeadlinePasses, LeaseExpires, TypeOK
<1>3. UNCHANGED <<run, svc, world, ctl>> BY DEF RequestCancel, DeadlinePasses, LeaseExpires
<1>4. PICK q \in {[act[a] EXCEPT !.cancel = TRUE], [act[a] EXCEPT !.late = TRUE],
                  [act[a] EXCEPT !.leased = FALSE]} : act' = [act EXCEPT ![a] = q]
  <2>1. CASE RequestCancel(a)
    <3>1. act' = [act EXCEPT ![a] = [act[a] EXCEPT !.cancel = TRUE]] BY <2>1 DEF RequestCancel
    <3> QED BY <3>1
  <2>2. CASE DeadlinePasses(a)
    <3>1. act' = [act EXCEPT ![a] = [act[a] EXCEPT !.late = TRUE]] BY <2>2 DEF DeadlinePasses
    <3> QED BY <3>1
  <2>3. CASE LeaseExpires(a)
    <3>1. act' = [act EXCEPT ![a] = [act[a] EXCEPT !.leased = FALSE]] BY <2>3 DEF LeaseExpires
    <3> QED BY <3>1
  <2> QED BY <2>1, <2>2, <2>3
<1>5. Kept(act[a], q) /\ q.phase = act[a].phase
  <2>1. CASE q = [act[a] EXCEPT !.cancel = TRUE] BY <1>1, <2>1 DEF Kept, Row
  <2>2. CASE q = [act[a] EXCEPT !.late = TRUE] BY <1>1, <2>2 DEF Kept, Row
  <2>3. CASE q = [act[a] EXCEPT !.leased = FALSE] BY <1>1, <2>3 DEF Kept, Row
  <2> QED BY <1>4, <2>1, <2>2, <2>3
<1> QED BY <1>2, <1>3, <1>4, <1>5, RowMarked

\* Services deleted by users cancel what waits for them.
LEMMA DeleteServiceWhole ==
  ASSUME Whole, NEW s \in Activation, DeleteService(s)
  PROVE  Whole' /\ Kind
<1> DEFINE affected == {a \in Pending : a = s \/ act[a].pred = s}
<1>1. /\ UNCHANGED <<run, world, ctl, faults>> /\ UNCHANGED <<run, worker>>
      /\ UNCHANGED <<ctl, world, faults>> BY DEF DeleteService, world
<1>2. /\ act \in [Activation -> Row] /\ svc \in [Activation -> Service] /\ svc[s] \in Service
  BY DEF Whole, TypeOK
<1>3. act' = [a \in Activation |-> IF a \in affected THEN [act[a] EXCEPT !.cancel = TRUE] ELSE act[a]]
  BY DEF DeleteService
<1> HIDE DEF affected
<1>4. \A a \in Activation : Kept(act[a], act'[a]) /\ act'[a].phase = act[a].phase
  <2> TAKE a \in Activation
  <2>1. CASE a \in affected
    <3>1. act'[a] = [act[a] EXCEPT !.cancel = TRUE] /\ act[a] \in Row BY <1>2, <1>3, <2>1
    <3> QED BY <3>1 DEF Kept, Row
  <2>2. CASE a \notin affected
    <3>1. act'[a] = act[a] /\ act[a] \in Row BY <1>2, <1>3, <2>2
    <3> QED BY <3>1 DEF Kept
  <2> QED BY <2>1, <2>2
<1>5. act' \in [Activation -> Row]
  <2>1. act' = [a \in Activation |-> act'[a]] BY <1>3
  <2>2. \A a \in Activation : act'[a] \in Row BY <1>4 DEF Kept
  <2> QED BY <2>1, <2>2
<1>6. SameRows BY <1>4 DEF SameRows, SameRow, Kept
<1>7. svc' \in [Activation -> Service] /\ run' \in [Activation -> RunState] /\ Kind
  <2>1. CASE UNCHANGED svc BY <1>1, <1>6, <2>1, NothingChanged
  <2>2. CASE svc[s].intent # "none" /\ svc' = [svc EXCEPT ![s] = MarkDeleting(@)]
    <3>1. svc' = [svc EXCEPT ![s] = MarkDeleting(svc[s])] BY <1>2, <2>2
    <3>2. /\ MarkDeleting(svc[s]) \in Service /\ MarkDeleting(svc[s]).intent = "deleted"
          /\ MarkDeleting(svc[s]).claim = svc[s].claim BY <1>2, Deleting
    <3> QED BY <1>1, <1>6, <2>2, <3>1, <3>2, ServiceTold
  <2> QED BY <2>1, <2>2 DEF DeleteService
<1> QED BY <1>1, <1>5, <1>6, <1>7, ToldElsewhere

\* A monitor is given up, or its worker says that it failed; its run ends with it.
LEMMA FailedWhole ==
  ASSUME Whole, NEW x \in Activation, GiveUp(x) \/ WorkerFails(x)
  PROVE  Whole' /\ Kind
<1>1. /\ UNCHANGED act /\ UNCHANGED worker /\ UNCHANGED <<ctl, world, faults>>
  BY DEF GiveUp, WorkerFails, world
<1>2. /\ act \in [Activation -> Row] /\ svc \in [Activation -> Service] /\ svc[x] \in Service
      /\ run \in [Activation -> RunState] /\ run[x] \in RunState /\ ActivationWhole(x) BY DEF Whole, TypeOK
<1>3. SameRows BY <1>1, RowsUnchanged
<1>4. svc[x].intent # "none" /\ run[x] # "none" BY <1>2 DEF GiveUp, WorkerFails, ActivationWhole
<1>5. \E s \in Service, v \in RunState :
        /\ svc' = [svc EXCEPT ![x] = s] /\ run' = [run EXCEPT ![x] = v]
        /\ s.claim = svc[x].claim /\ (v = run[x] \/ Over(v))
        /\ s.intent = svc[x].intent \/ (svc[x].intent = "running" /\ s.intent = "stopped")
  <2>1. CASE GiveUp(x)
    <3> DEFINE s == [svc[x] EXCEPT !.intent = "stopped"]
               v == IF run[x] = "open" THEN "failed" ELSE run[x]
    <3>1. s \in Service /\ s.claim = svc[x].claim /\ s.intent = "stopped" BY <1>2 DEF Service
    <3>2. v \in RunState /\ (v = run[x] \/ Over(v)) BY <1>2 DEF RunState, Over
    <3>3. svc' = [svc EXCEPT ![x] = s] /\ run' = [run EXCEPT ![x] = v] /\ svc[x].intent = "running"
      BY <1>2, <2>1 DEF GiveUp
    <3> HIDE DEF s, v
    <3> QED BY <3>1, <3>2, <3>3
  <2>2. CASE WorkerFails(x)
    <3> DEFINE s == [svc[x] EXCEPT !.failed = "worker", !.beat = "none"]
    <3>1. s \in Service /\ s.claim = svc[x].claim /\ s.intent = svc[x].intent BY <1>2 DEF Service
    <3>2. "failed" \in RunState /\ Over("failed") BY DEF RunState, Over
    <3>3. svc' = [svc EXCEPT ![x] = s] /\ run' = [run EXCEPT ![x] = "failed"] BY <1>2, <2>2 DEF WorkerFails
    <3> HIDE DEF s
    <3> QED BY <3>1, <3>2, <3>3
  <2> QED BY <2>1, <2>2
<1>6. PICK s \in Service, v \in RunState :
        /\ svc' = [svc EXCEPT ![x] = s] /\ run' = [run EXCEPT ![x] = v]
        /\ s.claim = svc[x].claim /\ (v = run[x] \/ Over(v))
        /\ s.intent = svc[x].intent \/ (svc[x].intent = "running" /\ s.intent = "stopped") BY <1>5
<1>7. svc'[x] = s /\ run'[x] = v BY <1>2, <1>6
<1>8. Told(x) BY <1>1, <1>4, <1>6, <1>7 DEF Told
<1>9. svc' \in [Activation -> Service] /\ run' \in [Activation -> RunState] /\ Kind
  BY <1>1, <1>3, <1>6, <1>8, ServiceChanged
<1>10. act' \in [Activation -> Row] BY <1>1, <1>2
<1> QED BY <1>1, <1>3, <1>9, <1>10, ToldElsewhere

\* A service whose worker is gone gives up its claim, or its row.
LEMMA ServiceRemovedWhole ==
  ASSUME Whole, NEW x \in Activation, ServiceRemoved(x)
  PROVE  Whole' /\ Kind
<1>1. /\ UNCHANGED act /\ UNCHANGED worker /\ UNCHANGED <<ctl, world, faults>> /\ x \notin worker
  BY DEF ServiceRemoved, world
<1>2. /\ act \in [Activation -> Row] /\ svc \in [Activation -> Service]
      /\ run \in [Activation -> RunState] /\ run[x] \in RunState /\ ActivationWhole(x) BY DEF Whole, TypeOK
<1>3. SameRows BY <1>1, RowsUnchanged
<1>4. svc' \in [Activation -> Service] /\ run' \in [Activation -> RunState] /\ Kind
  <2>1. CASE svc[x].intent = "deleted" /\ Purge(x) BY <1>1, <1>3, <2>1, PurgeChanges
  <2>2. CASE /\ svc[x].intent = "stopped" /\ svc[x].claim
             /\ svc' = [svc EXCEPT ![x] = [NoService EXCEPT !.intent = "stopped"]]
             /\ run' = [run EXCEPT ![x] = Closed(@)]
    <3> DEFINE s == [NoService EXCEPT !.intent = "stopped"]
    <3>1. s \in Service /\ s.intent = "stopped" /\ ~s.claim BY DEF NoService, Service
    <3>2. run[x] # "none" BY <1>2, <2>2 DEF ActivationWhole
    <3>3. Closed(run[x]) \in RunState /\ Over(Closed(run[x])) BY <1>2, <3>2 DEF Closed, RunState, Over
    <3>4. svc' = [svc EXCEPT ![x] = s] /\ run' = [run EXCEPT ![x] = Closed(run[x])] BY <1>2, <2>2
    <3> HIDE DEF s
    <3>5. svc'[x] = s /\ run'[x] = Closed(run[x]) BY <1>2, <3>4
    <3>6. Released(x) BY <1>1, <2>2, <3>1, <3>2, <3>3, <3>5 DEF Released
    <3> QED BY <1>1, <1>3, <3>1, <3>3, <3>4, <3>6, ServiceChanged
  <2> QED BY <2>1, <2>2 DEF ServiceRemoved
<1>5. act' \in [Activation -> Row] BY <1>1, <1>2
<1> QED BY <1>1, <1>3, <1>4, <1>5, ToldElsewhere

\* A workload is attached after all, or heard of.
LEMMA HeardWhole ==
  ASSUME Whole, NEW x \in Activation, RecoverPending(x) \/ Heartbeat(x)
  PROVE  Whole' /\ Kind
<1>1. /\ UNCHANGED act /\ UNCHANGED <<run, worker>> /\ UNCHANGED <<ctl, world, faults>>
  BY DEF RecoverPending, Heartbeat, world
<1>2. /\ act \in [Activation -> Row] /\ svc \in [Activation -> Service] /\ svc[x] \in Service
  BY DEF Whole, TypeOK
<1>3. SameRows BY <1>1, RowsUnchanged
<1>4. \E s \in Service : /\ svc' = [svc EXCEPT ![x] = s]
                         /\ s.claim = svc[x].claim /\ s.intent = svc[x].intent
  <2>1. CASE RecoverPending(x)
    <3>1. svc' = [svc EXCEPT ![x] = [svc[x] EXCEPT !.attached = TRUE]] BY <2>1 DEF RecoverPending
    <3> QED BY <1>2, <3>1, SameIntent
  <2>2. CASE Heartbeat(x)
    <3>1. \E f \in {"no", "worker"}, b \in {"none", "timely", "late"} :
            svc' = [svc EXCEPT ![x] = [svc[x] EXCEPT !.failed = f, !.beat = b]]
      <4>1. CASE svc' = [svc EXCEPT ![x].failed = "worker", ![x].beat = "none"]
        <5>1. svc' = [svc EXCEPT ![x] = [svc[x] EXCEPT !.failed = "worker", !.beat = "none"]] BY <1>2, <4>1
        <5> QED BY <5>1
      <4>2. CASE svc' = [svc EXCEPT
                   ![x].failed = "no",
                   ![x].beat = IF @ # "none" THEN @ ELSE IF act[x].late THEN "late" ELSE "timely"]
        <5> DEFINE b == IF svc[x].beat # "none" THEN svc[x].beat
                        ELSE IF act[x].late THEN "late" ELSE "timely"
        <5>1. b \in {"none", "timely", "late"} BY <1>2 DEF Service
        <5>2. svc' = [svc EXCEPT ![x] = [svc[x] EXCEPT !.failed = "no", !.beat = b]] BY <1>2, <4>2
        <5> HIDE DEF b
        <5> QED BY <5>1, <5>2
      <4> QED BY <2>2, <4>1, <4>2 DEF Heartbeat
    <3>2. PICK f \in {"no", "worker"}, b \in {"none", "timely", "late"} :
            svc' = [svc EXCEPT ![x] = [svc[x] EXCEPT !.failed = f, !.beat = b]] BY <3>1
    <3> DEFINE s == [svc[x] EXCEPT !.failed = f, !.beat = b]
    <3>3. s \in Service /\ s.claim = svc[x].claim /\ s.intent = svc[x].intent BY <1>2 DEF Service
    <3>4. svc' = [svc EXCEPT ![x] = s] BY <3>2
    <3> HIDE DEF s
    <3> QED BY <3>3, <3>4
  <2> QED BY <2>1, <2>2
<1>5. svc' \in [Activation -> Service] /\ run' \in [Activation -> RunState] /\ Kind
  BY <1>1, <1>3, <1>4, ServiceTold
<1>6. act' \in [Activation -> Row] BY <1>1, <1>2
<1> QED BY <1>1, <1>3, <1>5, <1>6, ToldElsewhere

\* A worker is admitted, or stops.
LEMMA WorkerWhole ==
  ASSUME Whole, NEW x \in Activation, WorkerStarts(x) \/ WorkerStops(x)
  PROVE  Whole' /\ Kind
<1>1. UNCHANGED <<act, run, svc, jobs, calls, ctl, sweep, faults>> BY DEF WorkerStarts, WorkerStops
<1>2. SameRows BY <1>1, RowsUnchanged
<1>3. worker' \in SUBSET Activation /\ Serves(x)
  <2>1. CASE WorkerStarts(x)
    BY <1>1, <1>2, <2>1 DEF WorkerStarts, RunEnded, Over, Serves, Started1, Whole, TypeOK
  <2>2. CASE WorkerStops(x) BY <1>1, <1>2, <2>2 DEF WorkerStops, Serves, Stopped1, Whole, TypeOK
  <2> QED BY <2>1, <2>2
<1>4. DataTypes /\ JobsFrom BY <1>1, <1>3, SameData DEF DataTypes
<1> QED BY <1>1, <1>3, <1>4, KeptElsewhere DEF Kind

\* Preflight jobs that come late, and those that are swept.
LEMMA SweepWhole ==
  ASSUME Whole, (\E a \in Activation : DelayedJob(a) \/ SweepRead(a)) \/ SweepRemove
  PROVE  Whole' /\ Kind
<1>1. UNCHANGED <<act, run, svc, worker, ctl, faults>> BY DEF DelayedJob, SweepRead, SweepRemove
<1>2. Kind BY <1>1 DEF Kind, Steady, SameRows, SameRow, SameServices
<1>3. DataTypes BY <1>1, SameData DEF DelayedJob, SweepRead, SweepRemove, DataTypes, Whole, TypeOK
<1>4. JobsFrom
  <2>1. ASSUME NEW a \in Activation, DelayedJob(a) PROVE JobsFrom BY <2>1 DEF DelayedJob, JobsFrom
  <2>2. ASSUME NEW a \in Activation, SweepRead(a) PROVE JobsFrom
    BY <2>2 DEF SweepRead, Needed, JobsFrom, Whole, JobsKnown
  <2>3. ASSUME SweepRemove PROVE JobsFrom BY <2>3 DEF SweepRemove, JobsFrom
  <2> QED BY <2>1, <2>2, <2>3
<1> QED BY <1>1, <1>2, <1>3, <1>4, KeptElsewhere

-----------------------------------------------------------------------------
(* Requests, the initial states, and the invariant.                        *)

\* A request is a new row, of an activation that nothing is known of.
LEMMA SubmitRow ==
  ASSUME Whole, NEW a \in Activation, NEW inputs \in Requests,
         NEW p \in (Activation \ {a}) \cup {NoActivation}, Submit(a, inputs, p)
  PROVE  /\ act[a].phase = "none" /\ svc[a].intent = "none" /\ ~svc[a].claim /\ a \notin worker
         /\ run[a] = "none"
         /\ act' \in [Activation -> Row] /\ act'[a].phase = "requested"
         /\ act'[a].inputs = inputs /\ act'[a].pred = p /\ ~act'[a].retired
         /\ run' \in [Activation -> RunState] /\ run'[a] = "open"
         /\ \A b \in Activation \ {a} : act'[b] = act[b] /\ run'[b] = run[b]
         /\ UNCHANGED <<svc, worker, jobs, calls, sweep, ctl, faults>>
<1> DEFINE q == [NoRow EXCEPT !.phase = "requested", !.inputs = inputs, !.pred = p]
<1>1. act[a].phase = "none" /\ act' = [act EXCEPT ![a] = q] /\ run' = [run EXCEPT ![a] = "open"]
      /\ UNCHANGED <<svc, worker, jobs, calls, sweep, ctl, faults>> BY DEF Submit, world
<1>2. /\ act \in [Activation -> Row] /\ run \in [Activation -> RunState] /\ ActivationWhole(a)
  BY DEF Whole, TypeOK
<1>3. inputs \in SUBSET Reading /\ "requested" \in Phase /\ "open" \in RunState
  BY DEF Phase, DeadlinePhases, RunState
<1>4. q \in Row /\ q.phase = "requested" /\ q.inputs = inputs /\ q.pred = p /\ ~q.retired
  BY <1>3 DEF NoRow, Row
<1> HIDE DEF q
<1>5. act' \in [Activation -> Row] /\ act'[a] = q /\ \A b \in Activation \ {a} : act'[b] = act[b]
  BY <1>1, <1>2, <1>4
<1>6. run' \in [Activation -> RunState] /\ run'[a] = "open"
      /\ \A b \in Activation \ {a} : run'[b] = run[b] BY <1>1, <1>2, <1>3
<1>7. svc[a].intent = "none" /\ ~svc[a].claim /\ a \notin worker /\ run[a] = "none"
  BY <1>1, <1>2 DEF ActivationWhole
<1> QED BY <1>1, <1>4, <1>5, <1>6, <1>7

\* What is replaced runs and has succeeded: were its own request still pending, the two
\* would overlap in its readings, of which there is at least one.
LEMMA ReplacesOne ==
  ASSUME Whole, NEW a \in Activation, NEW inputs \in Requests,
         NEW p \in Activation \ {a}, Submit(a, inputs, p)
  PROVE  act[p].phase \in Terminal /\ p \notin Pending
<1>1. /\ p # NoActivation /\ svc[p].claim /\ svc[p].intent = "running" /\ ActivationWhole(p)
      /\ act[p] \in Row BY DEF Submit, Whole, TypeOK
<1>2. act[p].phase # "none" /\ act[p].inputs \in Requests BY <1>1 DEF ActivationWhole
<1>3. act[p].inputs # {} BY <1>2
<1>4. p \notin Pending
  <2>1. SUFFICES ASSUME p \in Pending PROVE FALSE OBVIOUS
  <2>2. (inputs \cup Inputs(p)) \cap Claim(p) = {} BY <2>1 DEF Submit
  <2>3. Inputs(p) = act[p].inputs /\ Inputs(p) \subseteq Claim(p) BY <1>1 DEF Inputs, Claim
  <2> QED BY <1>3, <2>2, <2>3
<1>5. act[p].phase \in Terminal BY <1>2, <1>4 DEF Pending
<1> QED BY <1>4, <1>5

\* The request takes the slot of what it replaces, or a free one.
LEMMA SubmitOwners ==
  ASSUME Whole, NEW a \in Activation, NEW inputs \in Requests,
         NEW p \in (Activation \ {a}) \cup {NoActivation}, Submit(a, inputs, p)
  PROVE  OwnersCounted'
<1>1. /\ act[a].phase = "none" /\ act'[a].phase = "requested" /\ act'[a].pred = p
      /\ \A b \in Activation \ {a} : act'[b] = act[b]
      /\ svc' = svc BY SubmitRow
<1>2. Holders' = Holders BY <1>1 DEF Holders
<1>3. Pending' = Pending \cup {a} /\ a \notin Pending BY <1>1 DEF Pending, Terminal
<1>4. p \notin Pending
  <2>1. p = NoActivation => p \notin Pending BY DEF Pending
  <2> QED BY <2>1, ReplacesOne
<1>5. p \in Retiring' BY <1>1, <1>3 DEF Retiring
<1>6. Retiring \subseteq Retiring'
  <2>1. \A b \in Pending : act'[b].pred = act[b].pred BY <1>1, <1>3 DEF Pending
  <2> QED BY <1>3, <2>1 DEF Retiring
<1>7. Owners' \subseteq OwnersWithout(p) \cup {a} BY <1>2, <1>3, <1>4, <1>5, <1>6 DEF Owners, OwnersWithout
<1>8. IsFiniteSet(Owners) /\ Cardinality(OwnersWithout(p)) < Capacity BY DEF Whole, OwnersCounted, Submit
<1>9. IsFiniteSet(OwnersWithout(p)) /\ Cardinality(OwnersWithout(p)) \in Nat
  BY <1>8, FS_Subset, FS_CardinalityType DEF OwnersWithout
<1>10. /\ IsFiniteSet(OwnersWithout(p) \cup {a})
       /\ \/ Cardinality(OwnersWithout(p) \cup {a}) = Cardinality(OwnersWithout(p))
          \/ Cardinality(OwnersWithout(p) \cup {a}) = Cardinality(OwnersWithout(p)) + 1 BY <1>9, FS_AddElement
<1>11. /\ IsFiniteSet(Owners')
       /\ Cardinality(Owners') <= Cardinality(OwnersWithout(p) \cup {a}) BY <1>7, <1>10, FS_Subset
<1>12. Cardinality(Owners') \in Nat BY <1>11, FS_CardinalityType
<1> QED BY <1>8, <1>9, <1>10, <1>11, <1>12 DEF OwnersCounted

\* What is whole about the other activations does not depend on the new one.
LEMMA SubmitWhole ==
  ASSUME Whole, NEW a \in Activation, NEW inputs \in Requests,
         NEW p \in (Activation \ {a}) \cup {NoActivation}, Submit(a, inputs, p)
  PROVE  Whole'
<1>1. /\ act[a].phase = "none" /\ svc[a].intent = "none" /\ ~svc[a].claim /\ a \notin worker
      /\ act' \in [Activation -> Row] /\ act'[a].phase = "requested"
      /\ act'[a].inputs = inputs /\ act'[a].pred = p
      /\ run' \in [Activation -> RunState] /\ run'[a] = "open"
      /\ \A b \in Activation \ {a} : act'[b] = act[b] /\ run'[b] = run[b]
      /\ UNCHANGED <<svc, worker, jobs, calls, sweep, ctl, faults>> BY SubmitRow
<1>2. TypeOK' BY <1>1 DEF Whole, TypeOK
<1>3. ASSUME NEW b \in Activation PROVE ActivationWhole(b)'
  <2>1. CASE b = a
    <3>1. p # NoActivation => p # a /\ act'[p].phase \in Terminal BY <1>1, ReplacesOne
    <3> QED BY <1>1, <2>1, <3>1 DEF ActivationWhole
  <2>2. CASE b # a
    <3>1. ActivationWhole(b) /\ act[b] \in Row BY DEF Whole, TypeOK
    <3>2. act'[b] = act[b] /\ run'[b] = run[b] /\ svc' = svc /\ worker' = worker BY <1>1, <2>2
    <3>3. act[b].pred # NoActivation => act'[act[b].pred].phase \in Terminal
      BY <1>1, <3>1 DEF ActivationWhole, Row, Terminal
    <3> QED BY <3>1, <3>2, <3>3 DEF ActivationWhole
  <2> QED BY <2>1, <2>2
<1>4. ASSUME NEW c \in Controller PROVE TaskWhole(c)'
  <2>1. CASE ctl[c].pc = "idle" BY <1>1, <2>1 DEF Whole, TaskWhole
  <2>2. CASE ctl[c].pc # "idle"
    <3>1. /\ TakenWhole(ctl[c].act, ctl[c].phase, act)
          /\ PlaceWhole(ctl[c].pc, ctl[c].act, ctl[c].phase, act, svc, run, worker)
      BY <2>2 DEF Whole, TaskWhole
    <3>2. act'[ctl[c].act] = act[ctl[c].act] /\ run'[ctl[c].act] = run[ctl[c].act]
      BY <1>1, <3>1 DEF TakenWhole
    <3>3. TakenWhole(ctl[c].act, ctl[c].phase, act') BY <3>1, <3>2 DEF TakenWhole
    <3>4. PlaceWhole(ctl[c].pc, ctl[c].act, ctl[c].phase, act', svc, run', worker)
      BY <3>1, <3>2 DEF PlaceWhole
    <3> QED BY <1>1, <2>2, <3>3, <3>4 DEF TaskWhole
  <2> QED BY <2>1, <2>2
<1>5. ClaimsApart'
  <2>1. \A s \in Activation : svc[s].claim => act'[s].inputs = act[s].inputs BY <1>1
  <2> QED BY <1>1, <2>1 DEF Whole, ClaimsApart
<1>6. JobsKnown'
  <2>1. \A b \in jobs \cup calls : b \in Activation \ {a} BY <1>1 DEF Whole, JobsKnown, TypeOK
  <2>2. sweep # NoActivation => sweep \in Activation \ {a} BY <1>1 DEF Whole, JobsKnown, TypeOK
  <2> QED BY <1>1, <2>1, <2>2 DEF Whole, JobsKnown
<1> QED BY <1>2, <1>3, <1>4, <1>5, <1>6, SubmitOwners DEF Whole

\* At first there are the monitors that run already.
LEMMA WholeInit ==
  ASSUME Init
  PROVE  Whole
<1>1. PICK inputs \in [Deployed -> Requests] :
        /\ \A a, b \in Deployed : a # b => inputs[a] \cap inputs[b] = {}
        /\ act = [a \in Activation |->
                   IF a \in Deployed
                   THEN [NoRow EXCEPT !.phase = "succeeded", !.inputs = inputs[a]]
                   ELSE NoRow] BY DEF Init
<1> DEFINE monitor == [intent |-> "running", claim |-> TRUE, attached |-> TRUE,
                       failed |-> "no", beat |-> "timely"]
<1>2. /\ run = [a \in Activation |-> IF a \in Deployed THEN "open" ELSE "none"]
      /\ svc = [a \in Activation |-> IF a \in Deployed THEN monitor ELSE NoService]
      /\ worker = Deployed /\ jobs = {} /\ calls = {}
      /\ ctl = [c \in Controller |-> Idle] /\ sweep = NoActivation /\ faults = MaxFaults BY DEF Init
<1>3. ASSUME NEW a \in Activation
      PROVE  /\ act[a] \in Row /\ act[a].pred = NoActivation
             /\ act[a].phase = IF a \in Deployed THEN "succeeded" ELSE "none"
             /\ a \in Deployed => act[a].inputs = inputs[a] /\ act[a].inputs \in Requests
  <2>1. CASE a \in Deployed
    <3>1. inputs[a] \in Requests /\ inputs[a] \in SUBSET Reading BY <2>1
    <3>2. "succeeded" \in Phase BY DEF Phase, Terminal
    <3>3. act[a] = [NoRow EXCEPT !.phase = "succeeded", !.inputs = inputs[a]] BY <1>1, <2>1
    <3> QED BY <2>1, <3>1, <3>2, <3>3 DEF NoRow, Row
  <2>2. CASE a \notin Deployed
    <3>1. act[a] = NoRow BY <1>1, <2>2
    <3> QED BY <2>2, <3>1, Values
  <2> QED BY <2>1, <2>2
<1>4. monitor \in Service /\ monitor.intent = "running" /\ monitor.claim BY DEF Service
<1> HIDE DEF monitor
<1>5. \A a \in Activation : run[a] = (IF a \in Deployed THEN "open" ELSE "none")
                            /\ svc[a] = IF a \in Deployed THEN monitor ELSE NoService BY <1>2
<1>6. TypeOK
  <2>1. act \in [Activation -> Row]
    <3>1. act = [a \in Activation |-> act[a]] BY <1>1
    <3> QED BY <1>3, <3>1
  <2>2. run \in [Activation -> RunState] BY <1>2 DEF RunState
  <2>3. svc \in [Activation -> Service] BY <1>2, <1>4, Values
  <2>4. ctl \in [Controller -> Task] BY <1>2, Values
  <2>5. faults \in 0 .. MaxFaults BY <1>2
  <2> QED BY <1>2, <2>1, <2>2, <2>3, <2>4, <2>5 DEF TypeOK
<1>7. ASSUME NEW a \in Activation PROVE ActivationWhole(a)
  <2>1. CASE a \in Deployed BY <1>2, <1>3, <1>4, <1>5, <2>1 DEF ActivationWhole
  <2>2. CASE a \notin Deployed BY <1>2, <1>3, <1>5, <2>2, Values DEF ActivationWhole
  <2> QED BY <2>1, <2>2
<1>8. \A c \in Controller : TaskWhole(c) BY <1>2, Values DEF TaskWhole
<1>9. ClaimsApart
  <2>1. \A a \in Activation : svc[a].claim => a \in Deployed BY <1>5, Values
  <2>2. \A a \in Deployed : act[a].inputs = inputs[a] BY <1>3
  <2> QED BY <1>1, <2>1, <2>2 DEF ClaimsApart
<1>10. JobsKnown BY <1>2 DEF JobsKnown
<1>11. OwnersCounted
  <2>1. Pending = {} BY <1>3 DEF Pending, Terminal
  <2>2. Holders = Deployed BY <1>4, <1>5, Values DEF Holders
  <2>3. Owners = Deployed BY <2>1, <2>2 DEF Owners, Retiring
  <2> QED BY <2>3 DEF OwnersCounted
<1> QED BY <1>6, <1>7, <1>8, <1>9, <1>10, <1>11 DEF Whole

\* A step of the system is a request or of a kind.
LEMMA StepWhole ==
  ASSUME Whole, Next
  PROVE  /\ Whole'
         /\ \/ Kind
            \/ \E a \in Activation, inputs \in Requests :
                 \E p \in (Activation \ {a}) \cup {NoActivation} : Submit(a, inputs, p)
<1> DEFINE Goal == /\ Whole'
                   /\ \/ Kind
                      \/ \E a \in Activation, inputs \in Requests :
                           \E p \in (Activation \ {a}) \cup {NoActivation} : Submit(a, inputs, p)
<1>1. ASSUME User PROVE Goal
  <2>1. PICK a \in Activation :
          \/ \E inputs \in Requests, p \in (Activation \ {a}) \cup {NoActivation} :
               Submit(a, inputs, p)
          \/ RequestCancel(a) \/ DeleteService(a) BY <1>1 DEF User
  <2> QED BY <2>1, SubmitWhole, MarksWhole, DeleteServiceWhole
<1>2. ASSUME Lifecycle PROVE Goal
  <2>1. PICK s \in Activation :
          \/ GiveUp(s) \/ ServiceRemoved(s) \/ RecoverPending(s)
          \/ WorkerStarts(s) \/ WorkerStops(s) \/ Heartbeat(s) \/ WorkerFails(s)
          \/ DeadlinePasses(s) BY <1>2 DEF Lifecycle
  <2> QED BY <2>1, FailedWhole, ServiceRemovedWhole, HeardWhole, WorkerWhole, MarksWhole
<1>3. ASSUME Environment PROVE Goal
  BY <1>3, RemoteFailsWhole, CrashWhole, MarksWhole, SweepWhole DEF Environment
<1>4. ASSUME NEW c \in Controller, Step(c) PROVE Goal
  BY <1>4, LoseWhole, RecordErrorWhole, FinishWhole, PreflightWhole, EnterWhole, RetireWhole,
     AwaitShutdownWhole, PurgeRowWhole, BetweenWhole, LaunchWhole, CreateWorkloadWhole,
     StartedWhole, VerifyWhole, CloseRunWhole, DeleteSuccessorWhole, EndWhole
  DEF Step
<1>5. ASSUME NEW c \in Controller, NEW a \in Activation, NEW expired \in BOOLEAN,
             Take(c, a, expired)
      PROVE  Goal BY <1>5, TakeWhole
<1> HIDE DEF Goal
<1>6. Goal BY <1>1, <1>2, <1>3, <1>4, <1>5 DEF Next
<1> QED BY <1>6 DEF Goal

\* Nothing happens to the invariant when nothing changes.
LEMMA WholeStays ==
  ASSUME Whole, [Next]_vars
  PROVE  Whole'
<1>1. CASE Next BY <1>1, StepWhole
<1>2. CASE UNCHANGED vars
  <2>1. Kind /\ DataTypes /\ JobsFrom /\ ctl' = ctl
    BY <1>2, SameData DEF vars, Kind, Steady, SameRows, SameRow, SameServices, DataTypes
  <2> QED BY <2>1, KeptElsewhere
<1> QED BY <1>1, <1>2

\* The inductive invariant of activations.
THEOREM WholeAlways == Spec => []Whole
<1> QED BY WholeInit, WholeStays, PTL DEF Spec

-----------------------------------------------------------------------------
(* What follows from it.                                                   *)

\* Who holds readings has a slot of his own, or that of the request that retires him: no
\* more hold than there are slots.
LEMMA HoldersCounted ==
  ASSUME Whole
  PROVE  IsFiniteSet(Holders) /\ Cardinality(Holders) <= Cardinality(Owners)
<1>1. /\ \A a \in Activation : ActivationWhole(a) /\ act[a] \in Row
      /\ IsFiniteSet(Owners) BY DEF Whole, TypeOK, OwnersCounted
<1>2. Holders = {s \in Activation : svc[s].claim} BY <1>1, HoldersClaim
<1> DEFINE slot == [s \in Holders |-> IF s \in Owners THEN s
                                      ELSE CHOOSE b \in Pending : act[b].pred = s]
<1>3. ASSUME NEW s \in Holders, s \notin Owners
      PROVE  slot[s] \in Pending /\ act[slot[s]].pred = s
  <2>1. s \in Retiring BY <1>3 DEF Owners
  <2>2. \E b \in Pending : act[b].pred = s BY <2>1 DEF Retiring
  <2> QED BY <1>3, <2>2
<1>4. slot \in [Holders -> Owners]
  <2>1. \A s \in Holders : slot[s] \in Owners
    <3> TAKE s \in Holders
    <3>1. CASE s \in Owners BY <3>1
    <3>2. CASE s \notin Owners BY <1>3, <3>2 DEF Owners
    <3> QED BY <3>1, <3>2
  <2> QED BY <2>1
<1>5. ASSUME NEW s \in Holders, s \notin Owners PROVE slot[s] \notin Holders
  <2>1. slot[s] \in Pending /\ act[slot[s]].pred = s BY <1>3, <1>5
  <2>2. svc[s].claim /\ s \in Activation /\ svc[s].intent # "none" BY <1>1, <1>2 DEF ActivationWhole
  <2>3. slot[s] \in Activation /\ s # NoActivation BY <2>1, <2>2 DEF Pending
  <2>4. ~svc[slot[s]].claim BY <1>1, <2>1, <2>2, <2>3 DEF ActivationWhole
  <2> QED BY <1>2, <2>4
<1>6. \A s \in Holders : s \in Owners => slot[s] = s OBVIOUS
<1> HIDE DEF slot
<1>7. \A s, t \in Holders : slot[s] = slot[t] => s = t BY <1>3, <1>5, <1>6
<1>8. slot \in Injection(Holders, Owners) BY <1>4, <1>7, Fun_IsInj
<1> QED BY <1>1, <1>8, FS_Injection

\* A hand-over has at every moment one monitor per reading, and as many monitors as slots.
THEOREM HandOver == Spec => []HandOverInvariant
<1>1. ASSUME Whole PROVE HandOverInvariant
  <2>1. /\ TypeOK /\ ClaimsApart /\ \A a \in Activation : ActivationWhole(a)
        /\ IsFiniteSet(Owners) /\ Cardinality(Owners) <= Capacity BY <1>1 DEF Whole, OwnersCounted
  <2>2. Holders \cup worker \subseteq {s \in Activation : svc[s].claim}
    BY <2>1, HoldersClaim DEF TypeOK, ActivationWhole
  <2>3. \A s \in Activation : Inputs(s) = act[s].inputs BY DEF Inputs
  <2>4. ReadingsExclusive BY <2>1, <2>2, <2>3 DEF ReadingsExclusive, ClaimsApart
  <2>5. IsFiniteSet(Holders) /\ Cardinality(Holders) <= Cardinality(Owners) BY <1>1, HoldersCounted
  <2>6. Cardinality(Holders) \in Nat /\ Cardinality(Owners) \in Nat BY <2>1, <2>5, FS_CardinalityType
  <2>7. CapacityHeld BY <2>1, <2>5, <2>6 DEF CapacityHeld
  <2> QED BY <2>1, <2>4, <2>7 DEF HandOverInvariant
<1> QED BY <1>1, WholeAlways, PTL

\* What ended without success has no monitor that could run, and an outcome.
THEOREM EndedLeaves == Spec => []EndedLeavesNothing
<1>1. ASSUME Whole PROVE EndedLeavesNothing
  BY <1>1 DEF Whole, ActivationWhole, EndedLeavesNothing, RunEnded, Over
<1> QED BY <1>1, WholeAlways, PTL

\* An activation never returns to a phase it has left, whoever comes back late.
THEOREM PhasesGoForward == Spec => PhasesForward
<1> DEFINE Forward == \A a \in Activation :
             act'[a].phase = act[a].phase \/ Rank[act[a].phase] < Rank[act'[a].phase]
<1>1. Whole /\ [Next]_vars => [Forward]_vars
  <2>1. ASSUME Whole, Kind PROVE Forward
    <3>1. ASSUME NEW b \in Activation, Advances(b) PROVE Forward
      <4>1. \A a \in Activation \ {b} : act'[a].phase = act[a].phase BY <3>1 DEF Advances, SameRow
      <4>2. act'[b].phase = act[b].phase \/ Rank[act[b].phase] < Rank[act'[b].phase]
        <5>1. act[b].phase \in Phase /\ PhaseMoves(b) BY <2>1, <3>1 DEF Whole, TypeOK, Row, Advances
        <5>2. CASE b \in Pending /\ act'[b].phase = "cancelling"
          <6>1. act[b].phase \in DeadlinePhases \cup {"awaiting_heartbeat", "cancelling"}
            BY <5>1, <5>2 DEF Pending, Phase, Terminal
          <6> QED BY <5>2, <6>1 DEF DeadlinePhases, Rank
        <5>3. CASE ~(b \in Pending /\ act'[b].phase = "cancelling") BY <5>1, <5>3 DEF PhaseMoves, Rank
        <5> QED BY <5>2, <5>3
      <4> QED BY <4>1, <4>2
    <3>2. ASSUME SameRows PROVE Forward BY <3>2 DEF SameRows, SameRow
    <3> QED BY <2>1, <3>1, <3>2 DEF Kind, Steady, Serves
  <2>2. ASSUME Whole, NEW b \in Activation, NEW inputs \in Requests,
               NEW p \in (Activation \ {b}) \cup {NoActivation}, Submit(b, inputs, p)
        PROVE  Forward
    <3>1. /\ act[b].phase = "none" /\ act'[b].phase = "requested"
          /\ \A a \in Activation \ {b} : act'[a] = act[a] BY <2>2, SubmitRow
    <3> QED BY <3>1 DEF Rank
  <2> HIDE DEF Forward
  <2> QED BY <2>1, <2>2, StepWhole
<1> QED BY <1>1, WholeAlways, PTL DEF Spec, PhasesForward

\* A cancellation that was accepted in time is not overtaken by a retirement.
THEOREM CancellationSpares == Spec => CancelSparesPredecessor
<1> DEFINE Spares == \A a \in Activation : act[a].cancel /\ ~act[a].retired => ~act'[a].retired
<1>1. Whole /\ [Next]_vars => [Spares]_vars
  <2>1. ASSUME Whole, Kind PROVE Spares BY <2>1 DEF Kind, Steady, Advances, Serves, SameRows, SameRow
  <2>2. ASSUME Whole, NEW b \in Activation, NEW inputs \in Requests,
               NEW p \in (Activation \ {b}) \cup {NoActivation}, Submit(b, inputs, p)
        PROVE  Spares
    <3>1. ~act'[b].retired /\ \A a \in Activation \ {b} : act'[a] = act[a] BY <2>2, SubmitRow
    <3> QED BY <3>1
  <2> HIDE DEF Spares
  <2> QED BY <2>1, <2>2, StepWhole
<1> QED BY <1>1, WholeAlways, PTL DEF Spec, CancelSparesPredecessor

\* Jobs are removed by a controller for its activation, or by the sweep.
LEMMA JobsRemoved ==
  ASSUME Next
  PROVE  \/ jobs \subseteq jobs'
         \/ \E c \in Controller : RemoveJob(c) \/ CleanUpJob(c)
         \/ SweepRemove
<1>1. ASSUME User \/ Lifecycle PROVE jobs' = jobs BY <1>1
  DEF User, Submit, RequestCancel, DeleteService, Lifecycle, GiveUp, ServiceRemoved,
      RecoverPending, WorkerStarts, WorkerStops, Heartbeat, WorkerFails, DeadlinePasses, world
<1>2. ASSUME Environment PROVE jobs \subseteq jobs' \/ SweepRemove BY <1>2
  DEF Environment, RemoteFails, Crash, LeaseExpires, DelayedJob, SweepRead, world
<1>3. ASSUME NEW c \in Controller, Step(c)
      PROVE  jobs \subseteq jobs' \/ RemoveJob(c) \/ CleanUpJob(c) BY <1>3
  DEF Step, Lose, RecordError, Finish, Preflight, EnsureJob, ReadReport, Preflighted, Validated,
      Retire, AwaitShutdown, PurgeRow, Retired, Start, Launch, CreateWorkload, Started, Verify,
      CloseRun, DeleteSuccessor, RequireDeleting, Stopped, End, world
<1>4. ASSUME NEW c \in Controller, NEW a \in Activation, NEW expired \in BOOLEAN,
             Take(c, a, expired)
      PROVE  jobs' = jobs BY <1>4 DEF Take, world
<1> QED BY <1>1, <1>2, <1>3, <1>4 DEF Next

\* The phase that the sweep has read does not come again before the removal.
THEOREM SweepSpares == Spec => SweepSparesPreflight
<1> DEFINE Spares == \A a \in jobs \ jobs' : act[a].phase = "preflighting" =>
             \E c \in Controller : Act(c) = a /\ ctl[c].pc \in Unjob \cup {"cleanup"}
<1>1. Whole /\ [Next]_vars => [Spares]_vars
  <2>1. ASSUME Whole, SweepRemove PROVE Spares BY <2>1 DEF SweepRemove, Whole, JobsKnown
  <2>2. ASSUME NEW c \in Controller, RemoveJob(c) \/ CleanUpJob(c) PROVE Spares
    BY <2>2 DEF RemoveJob, CleanUpJob, At
  <2>3. ASSUME jobs \subseteq jobs' PROVE Spares BY <2>3
  <2> HIDE DEF Spares
  <2> QED BY <2>1, <2>2, <2>3, JobsRemoved
<1> QED BY <1>1, WholeAlways, PTL DEF Spec, SweepSparesPreflight

-----------------------------------------------------------------------------
(* The claims of the monitors together.                                    *)

Finished == {a \in Activation : RunEnded(a)}

\* Monitors, with the readings that the rows A give them.
Pairs(S, A) == {<<s, A[s].inputs>> : s \in S}

\* What SensorClaims sees of a state, and of the one after it.
LEMMA Seen ==
  /\ Monitors(Holders) = Pairs(Holders, act) /\ Monitors(worker) = Pairs(worker, act)
  /\ Monitors({a \in Activation : RunEnded(a)}) = Pairs(Finished, act)
  /\ Monitors(Holders)' = Pairs(Holders', act') /\ Monitors(worker)' = Pairs(worker', act')
  /\ Monitors({a \in Activation : RunEnded(a)})' = Pairs(Finished', act') BY DEF Monitors, Pairs, Finished

\* Only the readings of those in S matter.
LEMMA SamePairs ==
  ASSUME NEW S, NEW A, NEW B, \A s \in S : A[s].inputs = B[s].inputs
  PROVE  Pairs(S, A) = Pairs(S, B) BY DEF Pairs

\* Pairs come and go as their activations do.
LEMMA OnePair ==
  ASSUME NEW S, NEW x, NEW A
  PROVE  /\ Pairs(S \cup {x}, A) = Pairs(S, A) \cup {<<x, A[x].inputs>>}
         /\ Pairs(S \ {x}, A) = Pairs(S, A) \ {<<x, A[x].inputs>>}
         /\ <<x, A[x].inputs>> \in Pairs(S, A) <=> x \in S BY DEF Pairs

\* A set of which at most x comes or goes.
LEMMA OneMoves ==
  ASSUME NEW U, NEW S \in SUBSET U, NEW T \in SUBSET U, NEW x \in U,
         \A b \in U \ {x} : b \in T <=> b \in S
  PROVE  /\ (x \in T <=> x \in S) => T = S
         /\ x \in T => T = S \cup {x}
         /\ x \notin T => T = S \ {x}
<1>1. S \subseteq U /\ T \subseteq U OBVIOUS
<1>2. ASSUME x \in T <=> x \in S PROVE T = S
  <2>1. \A b \in U : b \in T <=> b \in S BY <1>2
  <2> QED BY <1>1, <2>1
<1>3. ASSUME x \in T PROVE T = S \cup {x}
  <2>1. \A b \in U : b \in T <=> b \in S \cup {x} BY <1>3
  <2>2. S \cup {x} \subseteq U BY <1>1
  <2> QED BY <1>1, <2>1, <2>2
<1>4. ASSUME x \notin T PROVE T = S \ {x}
  <2>1. \A b \in U : b \in T <=> b \in S \ {x} BY <1>4
  <2> QED BY <1>1, <2>1
<1> QED BY <1>2, <1>3, <1>4

\* A request, and a step that leaves all services alone, are nothing to SensorClaims.
LEMMA ClaimsStutter ==
  ASSUME Whole, Whole', UNCHANGED svc, worker' = worker, Finished' = Finished,
         \A b \in Activation : act[b].phase # "none" => act'[b].inputs = act[b].inputs
  PROVE  UNCHANGED Claims!abstractVars
<1>1. \A b \in Activation : ActivationWhole(b) BY DEF Whole
<1>2. Holders' = Holders BY DEF Holders
<1>3. \A b \in Holders \cup worker \cup Finished : b \in Activation /\ act[b].phase # "none"
  BY <1>1 DEF Whole, TypeOK, ActivationWhole, Holders, Finished, RunEnded
<1>4. /\ Pairs(Holders, act') = Pairs(Holders, act) /\ Pairs(worker, act') = Pairs(worker, act)
      /\ Pairs(Finished, act') = Pairs(Finished, act) BY <1>3, SamePairs
<1> QED BY <1>2, <1>4, Seen DEF Claims!abstractVars

\* A step of one service is one of its monitor.
LEMMA ServesClaims ==
  ASSUME Whole, Whole', NEW x \in Activation, Serves(x)
  PROVE  [Claims!Next]_(Claims!abstractVars)
<1> DEFINE m == <<x, act[x].inputs>>
           H == Pairs(Holders, act)
           W == Pairs(worker, act)
           F == Pairs(Finished, act)
<1>1. /\ \A b \in Activation : ActivationWhole(b) /\ act'[b].inputs = act[b].inputs
      /\ \A b \in Activation : ActivationWhole(b)'
      /\ worker \subseteq Activation /\ worker' \subseteq Activation
      /\ ClaimsApart BY DEF Whole, TypeOK, Serves, SameRows, SameRow
<1>2. Holders = {b \in Activation : svc[b].claim} BY <1>1, HoldersClaim
<1>3. Holders' = {b \in Activation : svc'[b].claim} BY <1>1 DEF ActivationWhole, Holders
<1>4. Finished = {b \in Activation : Over(run[b])} /\ Finished' = {b \in Activation : Over(run'[b])}
  BY DEF Finished, RunEnded, Over
<1>5. /\ (svc'[x].claim <=> svc[x].claim) => Holders' = Holders
      /\ svc'[x].claim => Holders' = Holders \cup {x}
      /\ ~svc'[x].claim => Holders' = Holders \ {x}
      /\ (x \in worker' <=> x \in worker) => worker' = worker
      /\ x \in worker' => worker' = worker \cup {x}
      /\ x \notin worker' => worker' = worker \ {x}
      /\ (Over(run'[x]) <=> Over(run[x])) => Finished' = Finished
      /\ Over(run'[x]) => Finished' = Finished \cup {x}
  <2>1. /\ Holders \in SUBSET Activation /\ Holders' \in SUBSET Activation
        /\ Finished \in SUBSET Activation /\ Finished' \in SUBSET Activation
        /\ worker \in SUBSET Activation /\ worker' \in SUBSET Activation BY <1>1, <1>2, <1>3, <1>4
  <2>2. /\ x \in Holders <=> svc[x].claim
        /\ x \in Holders' <=> svc'[x].claim
        /\ x \in Finished <=> Over(run[x])
        /\ x \in Finished' <=> Over(run'[x]) BY <1>2, <1>3, <1>4
  <2>3. \A b \in Activation \ {x} : b \in Holders' <=> b \in Holders BY <1>2, <1>3 DEF Serves
  <2>4. \A b \in Activation \ {x} : b \in Finished' <=> b \in Finished BY <1>4 DEF Serves
  <2>5. \A b \in Activation \ {x} : b \in worker' <=> b \in worker BY DEF Serves
  <2>6. /\ (x \in Holders' <=> x \in Holders) => Holders' = Holders
        /\ x \in Holders' => Holders' = Holders \cup {x}
        /\ x \notin Holders' => Holders' = Holders \ {x} BY <2>1, <2>3, OneMoves
  <2>7. /\ (x \in Finished' <=> x \in Finished) => Finished' = Finished
        /\ x \in Finished' => Finished' = Finished \cup {x} BY <2>1, <2>4, OneMoves
  <2>8. /\ (x \in worker' <=> x \in worker) => worker' = worker
        /\ x \in worker' => worker' = worker \cup {x}
        /\ x \notin worker' => worker' = worker \ {x} BY <2>1, <2>5, OneMoves
  <2> QED BY <2>2, <2>6, <2>7, <2>8
<1>6. \A S \in SUBSET Activation : Pairs(S, act') = Pairs(S, act)
  <2> TAKE S \in SUBSET Activation
  <2>1. \A s \in S : act'[s].inputs = act[s].inputs BY <1>1
  <2> QED BY <2>1, SamePairs
<1>7. /\ Monitors(Holders) = H /\ Monitors(worker) = W
      /\ Monitors({a \in Activation : RunEnded(a)}) = F
      /\ Monitors(Holders)' = Pairs(Holders', act) /\ Monitors(worker)' = Pairs(worker', act)
      /\ Monitors({a \in Activation : RunEnded(a)})' = Pairs(Finished', act)
  <2>1. Holders' \subseteq Activation /\ worker' \subseteq Activation /\ Finished' \subseteq Activation
    BY <1>1, <1>3, <1>4
  <2> QED BY <1>6, <2>1, Seen
<1>8. m \in Activation \X Requests \/ act[x].phase = "none" BY <1>1 DEF ActivationWhole
<1>9. /\ Pairs(Holders \cup {x}, act) = H \cup {m} /\ Pairs(Holders \ {x}, act) = H \ {m}
      /\ Pairs(worker \cup {x}, act) = W \cup {m} /\ Pairs(worker \ {x}, act) = W \ {m}
      /\ Pairs(Finished \cup {x}, act) = F \cup {m}
      /\ m \in H <=> svc[x].claim
      /\ m \in W <=> x \in worker
      /\ m \in F <=> Over(run[x])
  <2>1. (x \in Holders <=> svc[x].claim) /\ (x \in Finished <=> Over(run[x])) BY <1>2, <1>4
  <2>2. \A S : Pairs(S \cup {x}, act) = Pairs(S, act) \cup {m}
    <3> SUFFICES ASSUME NEW S PROVE Pairs(S \cup {x}, act) = Pairs(S, act) \cup {m} OBVIOUS
    <3> QED BY OnePair
  <2>3. \A S : Pairs(S \ {x}, act) = Pairs(S, act) \ {m}
    <3> SUFFICES ASSUME NEW S PROVE Pairs(S \ {x}, act) = Pairs(S, act) \ {m} OBVIOUS
    <3> QED BY OnePair
  <2>4. \A S : m \in Pairs(S, act) <=> x \in S
    <3> SUFFICES ASSUME NEW S PROVE m \in Pairs(S, act) <=> x \in S OBVIOUS
    <3> QED BY OnePair
  <2> HIDE DEF m
  <2> QED BY <2>1, <2>2, <2>3, <2>4
<1>10. ASSUME Launched(x) PROVE \A n \in H : <<m, n>> \notin Overlap
  <2> SUFFICES ASSUME NEW s \in Holders PROVE <<m, <<s, act[s].inputs>>>> \notin Overlap BY DEF Pairs
  <2>1. s # x BY <1>1, <1>2, <1>10 DEF Launched, ActivationWhole
  <2>2. act[x].inputs \cap act[s].inputs = {} BY <1>2, <1>10, <2>1 DEF Launched
  <2> QED BY <2>2 DEF Overlap
<1>11. CASE act[x].phase = "none"
  <2>1. ~svc[x].claim /\ x \notin worker /\ ~Over(run[x]) BY <1>1, <1>11 DEF ActivationWhole, Over
  <2>2. act'[x].phase = "none" BY <1>11 DEF Serves, SameRows, SameRow
  <2>3. ~svc'[x].claim /\ x \notin worker' /\ ~Over(run'[x]) BY <1>1, <2>2 DEF ActivationWhole, Over
  <2>4. Holders' = Holders /\ worker' = worker /\ Finished' = Finished BY <1>5, <2>1, <2>3
  <2> QED BY <1>7, <2>4 DEF Claims!abstractVars
<1> HIDE DEF m, H, W, F
<1>12. CASE m \in Activation \X Requests
  <2> USE DEF Claims!Next
  <2>1. ASSUME Holders' = Holders, worker' = worker, Over(run'[x]) \/ run'[x] = run[x]
        PROVE  [Claims!Next]_(Claims!abstractVars)
    <3>1. CASE run'[x] = run[x]
      <4>1. Finished' = Finished BY <1>5, <3>1
      <4> QED BY <1>7, <2>1, <4>1 DEF Claims!abstractVars, H, W, F
    <3>2. CASE Over(run'[x])
      <4>1. Finished' = Finished \cup {x} BY <1>5, <3>2
      <4>2. Monitors({a \in Activation : RunEnded(a)})' = F \cup {m} BY <1>7, <1>9, <4>1
      <4>3. Monitors(Holders)' = H /\ Monitors(worker)' = W BY <1>7, <2>1 DEF H, W
      <4>4. Claims!CloseRun(m) BY <1>7, <4>2, <4>3 DEF Claims!CloseRun
      <4> QED BY <1>12, <4>4
    <3> QED BY <2>1, <3>1, <3>2
  <2>2. CASE Told(x)
    <3>1. /\ svc'[x].claim = svc[x].claim /\ (x \in worker' <=> x \in worker)
          /\ Over(run'[x]) \/ run'[x] = run[x] BY <2>2 DEF Told
    <3> QED BY <1>5, <2>1, <3>1
  <2>3. CASE Started1(x)
    <3>1. /\ svc'[x] = svc[x] /\ run'[x] = run[x] /\ x \in worker' /\ svc[x].claim
          /\ ~Over(run[x]) BY <1>1, <2>3 DEF Started1, ActivationWhole
    <3>2. Holders' = Holders /\ Finished' = Finished /\ worker' = worker \cup {x} BY <1>5, <3>1
    <3>3. /\ Monitors(Holders)' = H /\ Monitors(worker)' = W \cup {m}
          /\ Monitors({a \in Activation : RunEnded(a)})' = F BY <1>7, <1>9, <3>2 DEF H, F
    <3>4. Claims!StartWorker(m) BY <1>7, <1>9, <3>1, <3>3 DEF Claims!StartWorker
    <3> QED BY <1>12, <3>4
  <2>4. CASE Stopped1(x)
    <3>1. svc'[x] = svc[x] /\ run'[x] = run[x] /\ x \notin worker' BY <2>4 DEF Stopped1
    <3>2. Holders' = Holders /\ Finished' = Finished /\ worker' = worker \ {x} BY <1>5, <3>1
    <3>3. /\ Monitors(Holders)' = H /\ Monitors(worker)' = W \ {m}
          /\ Monitors({a \in Activation : RunEnded(a)})' = F BY <1>7, <1>9, <3>2 DEF H, F
    <3>4. Claims!StopWorker(m) BY <1>7, <3>3 DEF Claims!StopWorker
    <3> QED BY <1>12, <3>4
  <2>5. CASE Launched(x)
    <3>1. /\ svc'[x].claim /\ ~svc[x].claim /\ run'[x] = run[x] /\ ~Over(run[x])
          /\ (x \in worker' <=> x \in worker) BY <1>1, <2>5 DEF Launched, ActivationWhole, Over
    <3>2. Holders' = Holders \cup {x} /\ worker' = worker /\ Finished' = Finished BY <1>5, <3>1
    <3>3. /\ Monitors(Holders)' = H \cup {m} /\ Monitors(worker)' = W
          /\ Monitors({a \in Activation : RunEnded(a)})' = F BY <1>7, <1>9, <3>2 DEF W, F
    <3>4. m \notin H /\ m \notin F /\ \A n \in H : <<m, n>> \notin Overlap BY <1>9, <1>10, <2>5, <3>1
    <3>5. Claims!Claim(m) BY <1>7, <3>3, <3>4 DEF Claims!Claim
    <3> QED BY <1>12, <3>5
  <2>6. CASE Released(x)
    <3>1. ~svc'[x].claim /\ x \notin worker /\ x \notin worker' /\ Over(run'[x]) BY <2>6 DEF Released
    <3>2. Holders' = Holders \ {x} /\ worker' = worker /\ Finished' = Finished \cup {x} BY <1>5, <3>1
    <3>3. CASE svc[x].claim
      <4>1. /\ Monitors(Holders)' = H \ {m} /\ Monitors(worker)' = W
            /\ Monitors({a \in Activation : RunEnded(a)})' = F \cup {m} BY <1>7, <1>9, <3>2 DEF W
      <4>2. m \in H /\ m \notin W BY <1>9, <3>1, <3>3
      <4>3. Claims!Release(m) BY <1>7, <4>1, <4>2 DEF Claims!Release
      <4> QED BY <1>12, <4>3
    <3>4. CASE ~svc[x].claim
      <4>1. Holders' = Holders /\ worker' = worker BY <1>5, <3>1, <3>4
      <4> QED BY <2>1, <3>1, <4>1
    <3> QED BY <3>3, <3>4
  <2> QED BY <2>2, <2>3, <2>4, <2>5, <2>6 DEF Serves
<1> QED BY <1>8, <1>11, <1>12

\* Every step is one of SensorClaims, or nothing to it.
LEMMA StepClaims ==
  ASSUME Whole, [Next]_vars
  PROVE  [Claims!Next]_(Claims!abstractVars)
<1>0. Whole' BY WholeStays
<1>1. CASE Next /\ Kind
  <2>1. CASE \E x \in Activation : Serves(x) BY <1>0, <2>1, ServesClaims
  <2>2. CASE SameServices /\ \A b \in Activation : act'[b].inputs = act[b].inputs
    BY <1>0, <2>2, ClaimsStutter DEF SameServices, Finished, RunEnded
  <2>3. ASSUME Steady \/ \E a \in Activation : Advances(a)
        PROVE  SameServices /\ \A b \in Activation : act'[b].inputs = act[b].inputs
    BY <2>3 DEF Steady, Advances, SameRows, SameRow
  <2> QED BY <1>1, <2>1, <2>2, <2>3 DEF Kind
<1>2. CASE Next /\ ~Kind
  <2>1. PICK a \in Activation, inputs \in Requests :
          \E p \in (Activation \ {a}) \cup {NoActivation} : Submit(a, inputs, p) BY <1>2, StepWhole
  <2>2. PICK p \in (Activation \ {a}) \cup {NoActivation} : Submit(a, inputs, p) BY <2>1
  <2>3. /\ act[a].phase = "none" /\ run[a] = "none" /\ run'[a] = "open"
        /\ \A b \in Activation \ {a} : act'[b] = act[b] /\ run'[b] = run[b]
        /\ svc' = svc /\ worker' = worker BY <2>2, SubmitRow
  <2>4. Finished' = Finished BY <2>3 DEF Finished, RunEnded
  <2> QED BY <1>0, <2>3, <2>4, ClaimsStutter
<1>3. CASE UNCHANGED vars
  <2>1. UNCHANGED svc /\ worker' = worker /\ act' = act /\ Finished' = Finished
    BY <1>3 DEF vars, Finished, RunEnded
  <2> QED BY <1>0, <2>1, ClaimsStutter
<1> QED BY <1>1, <1>2, <1>3

\* Whatever is requested, launched, replaced and removed at once, activations implement
\* SensorClaims, which starts before the first monitor.
THEOREM ActivationImplementsClaims ==
  ASSUME Deployed = {}
  PROVE  Spec => RefinesClaims
<1>1. Init => Claims!Init
  <2> SUFFICES ASSUME Init PROVE Claims!Init OBVIOUS
  <2>1. \A a \in Activation : run[a] = "none" /\ svc[a] = NoService BY DEF Init
  <2>2. worker = {} BY DEF Init
  <2>3. Holders = {} /\ Finished = {} BY <2>1, Values DEF Holders, Finished, RunEnded
  <2> QED BY <2>2, <2>3, Seen DEF Pairs, Claims!Init
<1>2. Whole /\ [Next]_vars => [Claims!Next]_(Claims!abstractVars) BY StepClaims
<1> QED BY <1>1, <1>2, WholeAlways, PTL DEF Spec, RefinesClaims, Claims!Spec
=============================================================================
