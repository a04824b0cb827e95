----------------------------- MODULE DetectorRun -----------------------------
(***************************************************************************)
(* The model of a worker, of either strategy: a static baseline collects,  *)
(* calibrates and fits in the background while observations are discarded, *)
(* an adaptive stream warms up, calibrates a threshold and learns on.  An  *)
(* observation may be withheld by the Prepare stage (here a count, see     *)
(* PreparedStage), skipped without a trace, or fail the run; a snapshot is *)
(* never taken of a failed one.  Values and scores are left out.           *)
(***************************************************************************)
EXTENDS Integers, Sequences, FiniteSets, FiniteSetsExt

CONSTANTS Detectors,                    \* how many the policy combines
          TrainingWindow, CalibrationWindow,
          Warmup,                       \* observations the Prepare stage needs before a row
          Horizon,                      \* threshold_horizon
          MaxSeen, MaxMishaps

DetectorAssumption ==
  /\ {Detectors, TrainingWindow, CalibrationWindow, Horizon} \subseteq Nat \ {0}
  /\ {Warmup, MaxSeen, MaxMishaps} \subseteq Nat

VARIABLES
  strategy,
  d,         \* what a snapshot holds
  fit,       \* _training_future and the observations it was submitted with
  dead,      \* _execution_failed
  frozen,    \* the last snapshot
  seen,      \* observations that arrived
  mishaps

vars == <<strategy, d, fit, dead, frozen, seen, mishaps>>

\* Buffers hold the numbers of observations; model: what was fitted, or what the threshold was
\* frozen from; crossed: whether each value that was tested reached the alarm's threshold.
NoModel == <<>>
FreshDetector(kind) ==
  [phase |-> IF kind = "static" THEN "collecting" ELSE "warmup", train |-> <<>>, calib |-> <<>>,
   model |-> NoModel, prep |-> 0, processed |-> 0, withheld |-> 0, discarded |-> 0, warm |-> 0,
   updates |-> [i \in 1 .. Detectors |-> 0], certain |-> TRUE,
   crossed |-> <<>>, active |-> FALSE, position |-> 0, alarms |-> 0]

NoFit == [status |-> "none", of |-> NoModel]

DetectorTypeOK ==
  /\ d.phase \in IF strategy = "static" THEN {"collecting", "calibrating", "training", "ready", "failed"}
                                        ELSE {"warmup", "calibrating", "operational", "failed"}
  /\ fit.status \in {"none", "running", "done", "broken"}
  /\ d.position \in 0 .. Horizon /\ seen \in 0 .. MaxSeen /\ dead \in BOOLEAN

Init ==
  /\ strategy \in {"static", "adaptive"}
  /\ d = FreshDetector(strategy) /\ fit = NoFit /\ dead = FALSE
  /\ frozen = d /\ seen = 0 /\ mishaps = 0

Mishap == mishaps < MaxMishaps /\ mishaps' = mishaps + 1

\* What every observation that is not skipped does to the counters.
Processed(s) == [s EXCEPT !.processed = @ + 1, !.prep = @ + 1]
\* Withheld while the Prepare stage warms up, or by a Gate
HeldBack(s) == [Processed(s) EXCEPT !.withheld = @ + 1]

-----------------------------------------------------------------------------
(* A static baseline.                                                      *)

Submitted(s) == [status |-> "running", of |-> <<s.train, s.calib>>]

FitEnds ==
  /\ fit.status = "running"
  /\ \/ fit' = [fit EXCEPT !.status = "done"] /\ UNCHANGED mishaps
     \/ fit' = [fit EXCEPT !.status = "broken"] /\ Mishap
  /\ UNCHANGED <<strategy, d, dead, frozen, seen>>

\* _publish_training
Fitted(s) ==
  IF s.phase = "training" /\ fit.status = "done"
    THEN [s EXCEPT !.phase = "ready", !.model = fit.of, !.train = <<>>, !.calib = <<>>] ELSE s
StillFitting == IF fit.status = "done" THEN NoFit ELSE fit

\* refresh_background_state, from the checkpoint loop; a fit that failed fails the run.
Refresh ==
  /\ strategy = "static" /\ ~dead /\ fit.status \in {"done", "broken"}
  /\ IF fit.status = "done" THEN d' = Fitted(d) /\ UNCHANGED dead
                            ELSE d' = [d EXCEPT !.phase = "failed"] /\ dead' = TRUE
  /\ fit' = NoFit
  /\ UNCHANGED <<strategy, frozen, seen, mishaps>>

\* MartingaleTrackerController.update: a value that crosses fires once, in every window anew.
Tested(s, crosses) ==
  LET renewed == s.position >= Horizon
      fires == crosses /\ (renewed \/ ~s.active) IN
  [s EXCEPT !.crossed = Append(@, crosses), !.active = crosses,
            !.position = IF renewed THEN 1 ELSE @ + 1, !.alarms = IF fires THEN @ + 1 ELSE @]

\* Mutant: what arrives while the model fits is kept for its calibration.
KeptWhileFitting(s) == [s EXCEPT !.calib = Append(@, seen'), !.discarded = @ + 1]
\* _process_training
DiscardedWhileFitting(s) == [s EXCEPT !.discarded = @ + 1]

\* _process of a row
Learnt(s, crosses) ==
  CASE s.phase = "collecting" ->
         LET train == Append(s.train, seen') IN
         [s EXCEPT !.train = train,
                   !.phase = IF Len(train) >= TrainingWindow THEN "calibrating" ELSE @]
    [] s.phase = "calibrating" ->
         LET calib == Append(s.calib, seen') IN
         [s EXCEPT !.calib = calib,
                   !.phase = IF Len(calib) >= CalibrationWindow THEN "training" ELSE @]
    [] s.phase = "training" -> DiscardedWhileFitting(s)
    [] s.phase = "ready" -> Tested(s, crosses)

Arrives == seen < MaxSeen /\ seen' = seen + 1

\* process_data_point: published first, then withheld, learned or scored, or rejected.
StaticObserve ==
  LET s == Fitted(d) IN
  /\ strategy = "static" /\ ~dead /\ fit.status # "broken"
  /\ Arrives
  /\ \/ s.prep < Warmup /\ d' = HeldBack(s)
     \/ s.prep >= Warmup /\ (d' = HeldBack(s) \/ \E crosses \in BOOLEAN : d' = Learnt(Processed(s), crosses))
     \/ d' = s
  /\ fit' = IF d'.phase = "training" /\ s.phase # "training" THEN Submitted(d') ELSE StillFitting
  /\ UNCHANGED <<strategy, dead, frozen, mishaps>>

-----------------------------------------------------------------------------
(* An adaptive stream.                                                     *)

\* Mutant: the fastest detector ends the warm-up.
FastestCounts(updates) == Max({updates[i] : i \in DOMAIN updates})
\* last_learning_outcome.model_updates of the slowest detector
WarmupCount(updates) == Min({updates[i] : i \in DOMAIN updates})

\* _learn and _learn_fused: a detector learns, or rolls back and misses the observation.
Outcomes == [1 .. Detectors -> {"learns", "misses"}]
Trained(s, outcome) ==
  [s EXCEPT !.updates = [i \in DOMAIN @ |-> IF outcome[i] = "learns" THEN @[i] + 1 ELSE @[i]]]

\* _process_warmup, _process_calibration and _process_operational, of a row
Streamed(s) ==
  CASE s.phase = "warmup" ->
         [s EXCEPT !.warm = @ + 1,
                   !.phase = IF WarmupCount(s.updates) >= TrainingWindow THEN "calibrating" ELSE @]
    [] s.phase = "calibrating" ->
         LET calib == Append(s.calib, seen') IN
         IF Len(calib) >= CalibrationWindow
           THEN [s EXCEPT !.calib = calib, !.phase = "operational", !.model = <<calib>>]
           ELSE [s EXCEPT !.calib = calib]
    [] s.phase = "operational" -> [s EXCEPT !.crossed = Append(@, FALSE)]

\* When the first detector cannot learn, the observation is skipped for all.
AdaptiveObserve ==
  /\ strategy = "adaptive" /\ ~dead
  /\ Arrives
  /\ \/ d.prep < Warmup /\ d' = HeldBack(d)
     \/ d.prep >= Warmup /\
          \/ d' = HeldBack(d)
          \/ \E outcome \in Outcomes :
               outcome[1] = "learns" /\ d' = Streamed(Processed(Trained(d, outcome)))
     \/ UNCHANGED d
  /\ UNCHANGED <<strategy, fit, dead, frozen, mishaps>>

-----------------------------------------------------------------------------
(* Failure, snapshots and restarts.                                        *)

\* A detector that fails while it learns, or a value that is not finite: the run fails.
ExecutionFails ==
  /\ ~dead /\ d.prep >= Warmup
  /\ Arrives /\ Mishap
  /\ dead' = TRUE
  /\ d' = [d EXCEPT !.phase = "failed", !.certain = FALSE]
  /\ UNCHANGED <<strategy, fit, frozen>>

\* Mutant: whatever the model is, it is saved.
AnyState == TRUE
\* _require_exportable
Exportable == ~dead

ExportCheckpoint ==
  /\ Exportable /\ frozen # d
  /\ frozen' = d
  /\ UNCHANGED <<strategy, d, fit, dead, seen, mishaps>>

\* from_checkpoint_data; a static model that was fitting is fitted again.
RestoreCheckpoint ==
  /\ Mishap
  /\ d' = frozen
  /\ fit' = IF frozen.phase = "training" THEN Submitted(frozen) ELSE NoFit
  /\ dead' = FALSE
  /\ UNCHANGED <<strategy, frozen, seen>>

Next == FitEnds \/ Refresh \/ StaticObserve \/ AdaptiveObserve \/ ExecutionFails
          \/ ExportCheckpoint \/ RestoreCheckpoint

\* Fitting ends, and the checkpoint loop goes round.
Spec == Init /\ [][Next]_vars /\ WF_vars(FitEnds) /\ WF_vars(Refresh)

-----------------------------------------------------------------------------
Increasing(s) == \A i \in 2 .. Len(s) : s[i - 1] < s[i]

(* Every observation that is counted as processed was withheld, learned,   *)
(* calibrated with, discarded or tested, across failures and restarts.     *)
EveryObservation ==
  \A s \in {d, frozen} :
    s.processed = s.withheld + s.discarded + s.warm + Len(s.crossed)
      + IF strategy = "static" /\ s.model # NoModel THEN Len(s.model[1]) + Len(s.model[2])
                                                   ELSE Len(s.train) + Len(s.calib)

(* A baseline is fitted once, from windows of the right size, the first    *)
(* before the second and without gaps of order, and a restart in the       *)
(* middle of the fitting, or after it, comes to the same one.              *)
BaselineKept ==
  /\ \A s \in {d, frozen} : s.model # NoModel =>
       /\ Increasing(IF strategy = "static" THEN s.model[1] \o s.model[2] ELSE s.model[1])
       /\ Len(s.model[Len(s.model)]) = CalibrationWindow
       /\ strategy = "static" => Len(s.model[1]) = TrainingWindow
  /\ frozen.model # NoModel => d.model = frozen.model
  /\ frozen.phase = "training" /\ d.model # NoModel => d.model = <<frozen.train, frozen.calib>>

(* Every detector that is combined learned enough before any score counts. *)
AllWarm ==
  strategy = "adaptive" /\ d.phase \in {"calibrating", "operational"} =>
    \A i \in 1 .. Detectors : d.updates[i] >= TrainingWindow

(* No snapshot holds a model that failed or whose state is uncertain.      *)
CertainSnapshots == frozen.certain /\ frozen.phase # "failed"

(* The alarms that were counted are the times the statistic rose to its    *)
(* threshold, counted anew in every window of the horizon.                 *)
AlarmsCounted ==
  strategy = "static" =>
    d.alarms = Cardinality({i \in DOMAIN d.crossed :
                 d.crossed[i] /\ ((i - 1) % Horizon = 0 \/ ~d.crossed[i - 1])})

(* A fit that was started is published, or the run fails.                  *)
TrainingEnds == d.phase = "training" ~> d.phase # "training"
=============================================================================
