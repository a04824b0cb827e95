---------------------------- MODULE PreparedStage ----------------------------
(***************************************************************************)
(* The Prepare stage of a run: every observation passes the steps of the   *)
(* compiled plan once; their next states are staged and committed together,*)
(* a step that cannot give a finite value rejects the observation, a Gate  *)
(* may hold it back, and the learned stage behind may take back the last   *)
(* one.  Snapshots restore the same history.                               *)
(***************************************************************************)
EXTENDS PipelineDesign

CONSTANTS Slot,              \* input_slots
          Designs,           \* the designs that are tried
          Readings,          \* the observations
          MaxObservations

VARIABLES
  design, plan,
  stage,      \* [states, updates, accepted, rejected, held_back]
  undo,       \* _undo: at most one stage
  result,     \* what the last pass gave
  log,        \* the observations that count
  image       \* the last snapshot, with the observations that it counts

vars == <<design, plan, stage, undo, result, log, image>>

NoPlan == [steps |-> <<>>]
Fresh(p) ==
  [states |-> [n \in ToSet(p.steps) |-> [f \in p.node[n].uses |-> <<>>]],
   updates |-> [n \in ToSet(p.steps) |-> 0], accepted |-> 0, rejected |-> 0, held_back |-> 0]

Init ==
  /\ design \in Designs
  /\ plan = IF Errors(design, Slot) = {} THEN Compile(design, Slot) ELSE NoPlan
  /\ stage = IF plan = NoPlan THEN <<>> ELSE Fresh(plan)
  /\ undo = {} /\ result = [kind |-> "none"]
  /\ log = <<>> /\ image = [stage |-> stage, log |-> <<>>]

-----------------------------------------------------------------------------
(* One value through one step.                                             *)

\* _pushed
Pushed(window, v, size) ==
  LET all == Append(window, v) IN IF Len(window) = size THEN Tail(all) ELSE all

Sorted(window) == SortSeq(window, <)
Median(window) == Sorted(window)[Len(window) \div 2 + 1]
Spike(step, window, v) ==
  LET spread == Median([i \in DOMAIN window |-> Absolute(window[i] - Median(window))]) IN
  spread > 0 /\ 10000 * Absolute(v - Median(window)) > step.low * 14826 * spread

\* Percent change from 0, and values to skip.
Fails(step, window, v) ==
  \/ /\ step.step = "change" /\ step.mode = "percent"
     /\ Len(window) = step.size /\ window[1] = 0
  \/ step.step = "range" /\ step.mode = "skip" /\ v \notin step.low .. step.high

\* What the step has once its window is full, of the window before and of the value.
Output(step, window, v) ==
  LET next == Pushed(window, v, step.size) IN
  CASE step.step = "rolling" -> (CASE step.mode = "min" -> Min(ToSet(next))
                                   [] step.mode = "max" -> Max(ToSet(next))
                                   [] step.mode = "median" -> Median(next)
                                   [] step.mode = "range" -> Max(ToSet(next)) - Min(ToSet(next)))
    [] step.step = "despike" -> IF Spike(step, next, v) THEN Median(next) ELSE v
    [] step.step = "change" -> (CASE step.mode = "lag" -> window[1]
                                  [] step.mode = "difference" -> v - window[1]
                                  [] step.mode = "percent" ->
                                       (100 * (v - window[1])) \div Absolute(window[1]))
    [] step.step = "math" -> (CASE step.mode = "abs" -> Absolute(v)
                                [] step.mode = "square" -> v * v
                                [] step.mode = "linear" -> step.size * v + step.low)
    [] step.step = "range" -> Clip(step, v)

Combined(mode, values) ==
  CASE mode = "min" -> Min(Range(values))
    [] mode = "max" -> Max(Range(values))
    [] mode = "range" -> Max(Range(values)) - Min(Range(values))
    [] mode = "sum" -> MapThenSumSet(LAMBDA f : values[f], DOMAIN values)

-----------------------------------------------------------------------------
(* One observation through the stage.                                      *)

\* A pass that is under way: rows by node, the states that are staged, the steps that ran,
\* the nodes that a Gate holds back, and whether a step failed.
Begun(s, reading) ==
  [rows |-> plan.source :> reading, states |-> s.states, ran |-> {}, held |-> {},
   failed |-> FALSE]

\* _advance, _row and _route: the row that a step makes of a row.
Made(step, row, windows) ==
  CASE step.step \in LaneSteps ->
         [f \in DOMAIN row |-> IF f \in step.uses THEN Output(step, windows[f], row[f]) ELSE row[f]]
    [] step.step = "aggregate" ->
         (step.name :> Combined(step.mode, [f \in step.uses |-> row[f]])) @@ row
    [] step.step = "select" -> [f \in step.uses |-> row[f]]
    [] step.step = "rename" ->
         [f \in (DOMAIN row \ step.uses) \cup {step.name} |->
            IF f = step.name THEN row[CHOOSE g \in step.uses : TRUE] ELSE row[f]]
    [] OTHER -> row

Passed(pass, n) ==
  LET step == plan.node[n]
      parents == plan.parents[n]
      row == Merged([i \in DOMAIN parents |-> pass.rows[parents[i]]])
      windows == pass.states[n]
      full == \A f \in step.uses : step.step \in LaneSteps => Len(windows[f]) >= Lead(step)
      closed == step.step = "gate" /\ \E f \in step.uses : row[f] < step.low IN
  IF pass.failed THEN pass
  ELSE IF ~ (ToSet(parents) \subseteq DOMAIN pass.rows)
    THEN IF ToSet(parents) \cap pass.held = {} THEN pass
         ELSE [pass EXCEPT !.held = @ \cup {n}]
  ELSE IF step.step \in LaneSteps /\ \E f \in step.uses : Fails(step, windows[f], row[f])
    THEN [pass EXCEPT !.failed = TRUE]
  ELSE [pass EXCEPT
          !.ran = @ \cup {n},
          !.held = IF closed THEN @ \cup {n} ELSE @,
          !.states[n] = IF Window(step) = 0 THEN @
                        ELSE [f \in step.uses |-> Pushed(windows[f], row[f], step.size)],
          !.rows = IF full /\ ~closed THEN (n :> Made(step, row, windows)) @@ @ ELSE @]

Pass(s, reading) == FoldLeft(Passed, Begun(s, reading), plan.steps)

\* Mutant: the steps before the one that failed keep what they saw.
HalfCommitted(s, pass) ==
  IF pass.failed THEN [s EXCEPT !.rejected = @ + 1, !.states = pass.states]
  ELSE [s EXCEPT !.states = pass.states, !.accepted = @ + 1,
                 !.held_back = @ + (IF pass.held # {} THEN 1 ELSE 0),
                 !.updates = [n \in DOMAIN @ |-> @[n] + (IF n \in pass.ran THEN 1 ELSE 0)]]
\* _commit, or _reject
Committed(s, pass) ==
  IF pass.failed THEN [s EXCEPT !.rejected = @ + 1]
  ELSE [s EXCEPT !.states = pass.states, !.accepted = @ + 1,
                 !.held_back = @ + (IF pass.held # {} THEN 1 ELSE 0),
                 !.updates = [n \in DOMAIN @ |-> @[n] + (IF n \in pass.ran THEN 1 ELSE 0)]]

\* run
Observe(reading) ==
  LET pass == Pass(stage, reading) IN
  /\ plan.steps # <<>> /\ stage.accepted + stage.rejected < MaxObservations
  /\ stage' = Committed(stage, pass)
  /\ undo' = IF pass.failed THEN {} ELSE {stage}
  /\ log' = IF pass.failed THEN log ELSE Append(log, reading)
  /\ result' = CASE pass.failed -> [kind |-> "rejected"]
                 [] ~pass.failed /\ pass.held # {} -> [kind |-> "held_back"]
                 [] OTHER -> IF plan.frontier \subseteq DOMAIN pass.rows
                               THEN [kind |-> "row", row |-> [n \in plan.frontier |-> pass.rows[n]]]
                               ELSE [kind |-> "preparing"]
  /\ UNCHANGED <<design, plan, image>>

\* revert, when a learned step skips the observation
Revert ==
  /\ result.kind = "row" /\ undo # {}
  /\ stage' = [CHOOSE s \in undo : TRUE EXCEPT !.rejected = stage.rejected]
  /\ undo' = {} /\ result' = [kind |-> "none"]
  /\ log' = Front(log)
  /\ UNCHANGED <<design, plan, image>>

\* export_state
Save ==
  /\ plan.steps # <<>> /\ image.log # log
  /\ image' = [stage |-> stage, log |-> log]
  /\ UNCHANGED <<design, plan, stage, undo, result, log>>

\* load_state, in a worker that starts again
Restart ==
  /\ plan.steps # <<>> /\ stage # image.stage
  /\ stage' = image.stage /\ log' = image.log
  /\ undo' = {} /\ result' = [kind |-> "none"]
  /\ UNCHANGED <<design, plan, image>>

Next == Revert \/ Save \/ Restart \/ \E reading \in Readings : Observe(reading)

Spec == Init /\ [][Next]_vars

-----------------------------------------------------------------------------
\* remaining
Left(s) ==
  LET left == FoldLeft(LAMBDA found, n :
                LET before == Max({found[p] : p \in ToSet(plan.parents[n])})
                    lead == Lead(plan.node[n]) IN
                (n :> IF before > 0 THEN before + lead ELSE Max({lead + 1 - s.updates[n], 0}))
                  @@ found,
                plan.source :> 0, plan.steps) IN
  Max({left[n] : n \in plan.frontier})

(* The compiler accepts exactly the graphs in which every node lies on a   *)
(* way from the source to the output, every node has the inputs its kind   *)
(* takes, no prepare step follows one that learns, and a feature keeps one *)
(* name; its order puts every node after what it reads.                    *)
CompilesSoundly ==
  LET nodes == DOMAIN design.nodes
      path == Order(design)
      source == Of(design, "source")
      before(n) == Before(design, n) IN
  plan # NoPlan /\ log = <<>> =>
    /\ Len(path) = Cardinality(nodes)
    /\ \A i, j \in DOMAIN path : [source |-> path[j], target |-> path[i]] \in
         {[source |-> e.source, target |-> e.target] : e \in design.edges} => j < i
    /\ \A n \in nodes \ source : source \subseteq before(n)
    /\ \A n \in nodes \ Of(design, "output") : n \in UNION {before(m) : m \in Of(design, "output")}
    /\ \A n \in nodes : Cardinality(Into(design, n)) > 1 =>
                          design.nodes[n].kind \in {"merge", "policy"}
    /\ \A n \in nodes : Prepares(design, n) => \A m \in before(n) : ~Learns(design, m)

(* An observation that was rejected or taken back leaves no trace, through *)
(* a snapshot and its restart: the stage is what the observations that     *)
(* count make of a new one.                                                *)
Traceless ==
  plan.steps # <<>> =>
    LET replay == FoldLeft(LAMBDA s, reading : Committed(s, Pass(s, reading)), Fresh(plan), log) IN
    stage = [replay EXCEPT !.rejected = stage.rejected]

(* The stage says truly how many observations it needs: it gives a row     *)
(* when none is left, waits while there are some, and while no Gate closed *)
(* it needs as many as the compiler said.                                  *)
RemainingTrue ==
  plan.steps # <<>> =>
    /\ result.kind = "row" => Left(stage) = 0
    /\ result.kind = "preparing" => Left(stage) > 0
    /\ stage.held_back = 0 => Left(stage) = Max({plan.required - stage.accepted, 0})

(* What the learned stage is given lies in the ranges the compiler knew.   *)
WithinBounds ==
  result.kind = "row" =>
    \A n \in plan.frontier : \A f \in DOMAIN result.row[n] :
      Within(result.row[n][f], plan.features[n][f])
=============================================================================
