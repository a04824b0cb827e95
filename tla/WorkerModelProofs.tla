-------------------------- MODULE WorkerModelProofs --------------------------
(***************************************************************************)
(* What is proved of what becomes of a reading: the inductive invariants   *)
(* of the alignment and the detector, of the writer, the message path, the *)
(* story of a run and the supervisor of the brokers, and of what members   *)
(* are shown, as charts, as alarms and live.                               *)
(***************************************************************************)
EXTENDS WorkerModel, SequenceTheorems, FiniteSetTheorems, WellFoundedInduction, TLAPS

(* Windows of observations.                                                *)

\* What was observed in this order, the last of it the k-th observation or an earlier one.
Rising(u, k) ==
  u \in Seq(Nat) /\ (\A i \in 1 .. Len(u) : u[i] <= k) /\ DR!Increasing(u)

\* Nothing was observed at first.
LEMMA NothingRises == \A k : Rising(<<>>, k)
BY DEF Rising, DR!Increasing

\* What was observed stays so.
LEMMA RisesLater ==
  ASSUME NEW k \in Nat, NEW u, Rising(u, k)
  PROVE  Rising(u, k + 1)
<1>1. \A i \in 1 .. Len(u) : u[i] \in Nat BY DEF Rising
<1> QED BY <1>1 DEF Rising

\* The next observation comes after the others.
LEMMA NextRises ==
  ASSUME NEW k \in Nat, NEW u, Rising(u, k)
  PROVE  Rising(Append(u, k + 1), k + 1)
<1> DEFINE w == Append(u, k + 1)
<1>1. u \in Seq(Nat) /\ k + 1 \in Nat /\ Len(u) \in Nat BY DEF Rising
<1>2. w \in Seq(Nat) /\ Len(w) = Len(u) + 1 /\ w[Len(u) + 1] = k + 1 BY <1>1
<1>3. \A i \in 1 .. Len(u) : w[i] = u[i] /\ u[i] \in Nat /\ u[i] <= k BY <1>1 DEF Rising
<1>4. \A i \in 1 .. Len(w) : i \in 1 .. Len(u) \/ i = Len(u) + 1 BY <1>1, <1>2
<1> HIDE DEF w
<1>5. ASSUME NEW i \in 1 .. Len(w) PROVE  w[i] <= k + 1
  <2>1. CASE i \in 1 .. Len(u)
    <3>1. w[i] \in Nat /\ w[i] <= k BY <2>1, <1>3
    <3> QED BY <3>1
  <2>2. CASE i = Len(u) + 1 BY <2>2, <1>1, <1>2
  <2> QED BY <2>1, <2>2, <1>4
<1>6. ASSUME NEW i \in 2 .. Len(w) PROVE  w[i - 1] < w[i]
  <2>1. i - 1 \in 1 .. Len(u) BY <1>1, <1>2
  <2>2. CASE i \in 1 .. Len(u)
    <3>1. u[i - 1] < u[i] BY <2>2, <1>1 DEF Rising, DR!Increasing
    <3> QED BY <3>1, <2>1, <2>2, <1>3
  <2>3. CASE i = Len(u) + 1
    <3>1. w[i] = k + 1 BY <2>3, <1>2
    <3> QED BY <3>1, <2>1, <1>3
  <2> QED BY <2>2, <2>3, <1>4, <1>1, <1>2
<1> QED BY <1>2, <1>5, <1>6 DEF Rising, w, DR!Increasing

\* Windows one after the other.
LEMMA Windows ==
  ASSUME NEW t \in Seq(Nat), NEW c \in Seq(Nat), NEW e \in Nat
  PROVE  /\ t \o Append(c, e) = Append(t \o c, e)
         /\ t \o <<>> = t /\ t \o c \in Seq(Nat)
         /\ Append(t, e) \in Seq(Nat) /\ Append(c, e) \in Seq(Nat)
         /\ Len(Append(t, e)) = Len(t) + 1 /\ Len(Append(c, e)) = Len(c) + 1
         /\ Len(t) \in Nat /\ Len(c) \in Nat
<1>1. t \o <<>> = t OBVIOUS
<1>2. t \o Append(c, e) = Append(t \o c, e) OBVIOUS
<1> QED BY <1>1, <1>2

\* The least of some numbers.
LEMMA LeastNumber ==
  ASSUME NEW T, T \subseteq Nat, T # {}
  PROVE  \E x \in T : \A y \in T : x <= y
<1> DEFINE R == {p \in Nat \X Nat : p[1] < p[2]}
<1>1. IsWellFoundedOn(R, Nat) BY NatLessThanWellFounded, Zenon DEF OpToRel
<1>2. \A x, y \in Nat : y < x => <<y, x>> \in R OBVIOUS
<1> HIDE DEF R
<1>3. PICK x \in T : \A y \in T : ~ (<<y, x>> \in R) BY <1>1, WFMin
<1>4. \A y \in T : x \in Nat /\ y \in Nat OBVIOUS
<1>5. \A y \in T : ~ (y < x) BY <1>2, <1>3, <1>4
<1>6. \A y \in T : x <= y BY <1>4, <1>5
<1> QED BY <1>6

\* What the slowest detector has learned, each of them has.
LEMMA SlowestCounts ==
  ASSUME NEW updates \in [1 .. Detectors -> Nat], Detectors \in Nat \ {0}
  PROVE  /\ DR!WarmupCount(updates) \in Nat
         /\ \A i \in 1 .. Detectors : DR!WarmupCount(updates) <= updates[i]
<1> DEFINE T == {updates[i] : i \in DOMAIN updates}
<1>1. T \subseteq Nat /\ T # {} /\ \A i \in 1 .. Detectors : updates[i] \in T
  <2>1. 1 \in DOMAIN updates OBVIOUS
  <2> QED BY <2>1
<1>2. \E x \in T : \A y \in T : x <= y BY <1>1, LeastNumber
<1>3. DR!WarmupCount(updates) = CHOOSE x \in T : \A y \in T : x <= y BY DEF DR!WarmupCount, DR!Min
<1> HIDE DEF T
<1>4. DR!WarmupCount(updates) \in T /\ \A y \in T : DR!WarmupCount(updates) <= y BY <1>2, <1>3
<1> QED BY <1>1, <1>4

(* What a snapshot holds.                                                  *)

\* It has what the rest of this module speaks of.
Holds(s) ==
  /\ {"phase", "train", "calib", "model", "updates", "certain"} \subseteq DOMAIN s
  /\ s.updates \in [1 .. Detectors -> Nat]

\* What a baseline is fitted from: a window to train with, and the next one to calibrate with.
StaticModel(m, k) ==
  /\ Len(m) = 2 /\ Rising(m[1] \o m[2], k)
  /\ Len(m[1]) = TrainingWindow /\ Len(m[2]) = CalibrationWindow

\* A baseline is collected before it is calibrated, calibrated before it is fitted, and there
\* once it is fitted.
StaticWhole(s, k) ==
  /\ s.phase \in {"collecting", "calibrating", "training", "ready", "failed"}
  /\ s.train \in Seq(Nat) /\ s.calib \in Seq(Nat) /\ Rising(s.train \o s.calib, k)
  /\ s.phase = "collecting" => Len(s.train) < TrainingWindow /\ s.calib = <<>>
  /\ s.phase = "calibrating" => Len(s.train) = TrainingWindow /\ Len(s.calib) < CalibrationWindow
  /\ s.phase = "training" => Len(s.train) = TrainingWindow /\ Len(s.calib) = CalibrationWindow
  /\ s.phase \in {"collecting", "calibrating", "training"} => s.model = DR!NoModel
  /\ s.phase = "ready" => s.model # DR!NoModel
  /\ s.model # DR!NoModel => StaticModel(s.model, k)

\* What the threshold of a stream is frozen from: one window.
AdaptiveModel(m, k) ==
  Len(m) = 1 /\ Rising(m[1], k) /\ Len(m[1]) = CalibrationWindow

\* A stream warms up before it is calibrated, and its threshold is there once it was.
AdaptiveWhole(s, k) ==
  /\ s.phase \in {"warmup", "calibrating", "operational", "failed"}
  /\ Rising(s.calib, k)
  /\ s.phase = "warmup" => s.calib = <<>>
  /\ s.phase = "calibrating" => Len(s.calib) < CalibrationWindow
  /\ s.phase \in {"warmup", "calibrating"} => s.model = DR!NoModel
  /\ s.phase = "operational" => s.model # DR!NoModel
  /\ s.phase \in {"calibrating", "operational"} => \A i \in 1 .. Detectors : s.updates[i] >= TrainingWindow
  /\ s.model # DR!NoModel => AdaptiveModel(s.model, k)

Whole(kind, s, k) ==
  Holds(s) /\ IF kind = "static" THEN StaticWhole(s, k) ELSE AdaptiveWhole(s, k)

\* What is in a snapshot is where the model went on from.
Follows(s, from) ==
  /\ from.model # DR!NoModel =>
       s.model = from.model /\ s.phase \in {"ready", "operational", "failed"}
  /\ from.phase = "training" =>
       \/ /\ s.phase \in {"training", "failed"} /\ s.model = DR!NoModel
          /\ s.train = from.train /\ s.calib = from.calib
       \/ s.phase \in {"ready", "failed"} /\ s.model = <<from.train, from.calib>>

\* The fit that runs, or is done, is of the windows that wait for it.
FitOf(f, s) ==
  /\ {"status", "of"} \subseteq DOMAIN f
  /\ s.phase = "training" /\ f.status \in {"running", "done"} => f.of = <<s.train, s.calib>>

\* The inductive invariant of a detector.
DetectorWhole ==
  /\ strategy \in {"static", "adaptive"} /\ seen \in Nat
  /\ Whole(strategy, d, seen) /\ Whole(strategy, frozen, seen)
  /\ ~dead => d.certain /\ d.phase # "failed"
  /\ frozen.certain /\ frozen.phase # "failed"
  /\ strategy = "static" => FitOf(fit, d)
  /\ Follows(d, frozen)

(* The readings of a worker.                                               *)

\* A reading that was not in a vector is newer than the last one that was.
NewIsLater ==
  \A c \in Charger, s \in Sensor :
    readings[c][s] # SA!NoReading /\ readings[c][s].seq > versions[c][s] =>
      readings[c][s].time > vector[c][s]

\* The inductive invariant of the alignment.
AlignmentWhole ==
  SA!AlignmentTypeOK /\ SA!WithinWatermarks /\ NewIsLater

(* Steps of a detector.                                                    *)

\* The windows are not empty, and there are detectors.
LEMMA DetectorSizes ==
  /\ Detectors \in Nat \ {0} /\ TrainingWindow \in Nat \ {0} /\ CalibrationWindow \in Nat \ {0}
BY ModelAssumption DEF DR!DetectorAssumption

\* Only the counters differ.
Agrees(s, r) ==
  /\ Holds(r) /\ r.phase = s.phase /\ r.train = s.train /\ r.calib = s.calib
  /\ r.model = s.model /\ r.updates = s.updates /\ r.certain = s.certain

\* The next observation, the k-th, is trained with.
Collects(s, r, k) ==
  /\ Holds(r) /\ s.phase = "collecting"
  /\ r.phase = IF Len(r.train) >= TrainingWindow THEN "calibrating" ELSE "collecting"
  /\ r.train = Append(s.train, k) /\ r.calib = s.calib
  /\ r.model = s.model /\ r.certain = s.certain

\* It is calibrated with.
Calibrates(s, r, k) ==
  /\ Holds(r) /\ s.phase = "calibrating"
  /\ r.phase = IF Len(r.calib) >= CalibrationWindow THEN "training" ELSE "calibrating"
  /\ r.calib = Append(s.calib, k) /\ r.train = s.train
  /\ r.model = s.model /\ r.certain = s.certain

\* What an observation does to a baseline.
StaticStep(s, r, k) == Agrees(s, r) \/ Collects(s, r, k) \/ Calibrates(s, r, k)

\* What was fitted is published.
Publishes(s, r, m) ==
  /\ Holds(r) /\ s.phase = "training" /\ r.phase = "ready"
  /\ r.train = <<>> /\ r.calib = <<>> /\ r.model = m /\ r.certain = s.certain

\* The run fails.
Fails(s, r) ==
  /\ Holds(r) /\ r.phase = "failed" /\ r.train = s.train /\ r.calib = s.calib
  /\ r.model = s.model /\ r.updates = s.updates

\* What counts an observation touches a counter only.
LEMMA CountersApart ==
  ASSUME NEW s, Holds(s)
  PROVE  /\ Agrees(s, s) /\ Agrees(s, DR!Processed(s)) /\ Agrees(s, DR!HeldBack(s))
         /\ Agrees(s, DR!DiscardedWhileFitting(s))
<1>1. Agrees(s, s) BY DEF Agrees
<1>2. Agrees(s, DR!Processed(s)) BY DEF Agrees, DR!Processed, Holds
<1>3. Agrees(s, DR!HeldBack(s))
  <2> DEFINE p == DR!Processed(s)
  <2>1. Agrees(s, p) BY <1>2
  <2>2. DR!HeldBack(s) = [p EXCEPT !.withheld = @ + 1] BY DEF DR!HeldBack
  <2> HIDE DEF p
  <2> QED BY <2>1, <2>2 DEF Agrees, Holds
<1>4. Agrees(s, DR!DiscardedWhileFitting(s)) BY DEF Agrees, DR!DiscardedWhileFitting, Holds
<1> QED BY <1>1, <1>2, <1>3, <1>4

\* A value that is tested changes no window and no model.
LEMMA TestedApart ==
  ASSUME NEW s, Holds(s), NEW crosses
  PROVE  Agrees(s, DR!Tested(s, crosses))
BY DEF Agrees, Holds, DR!Tested

\* What agrees with what agrees, agrees.
LEMMA AgreesThrough ==
  ASSUME NEW s, NEW r, NEW q, Agrees(s, r)
  PROVE  /\ Agrees(r, q) => Agrees(s, q)
         /\ \A k : StaticStep(r, q, k) => StaticStep(s, q, k)
<1>1. Agrees(r, q) => Agrees(s, q) BY DEF Agrees
<1>2. \A k : Collects(r, q, k) => Collects(s, q, k) BY DEF Agrees, Collects
<1>3. \A k : Calibrates(r, q, k) => Calibrates(s, q, k) BY DEF Agrees, Calibrates
<1> QED BY <1>1, <1>2, <1>3 DEF StaticStep

\* What a row does to a baseline.
LEMMA LearntSteps ==
  ASSUME NEW s, Holds(s), s.phase \in {"collecting", "calibrating", "training", "ready"},
         NEW crosses
  PROVE  StaticStep(s, DR!Learnt(s, crosses), seen')
<1> DEFINE r == DR!Learnt(s, crosses)
<1>1. CASE s.phase = "collecting"
  <2> DEFINE w == Append(s.train, seen')
  <2>1. r = [s EXCEPT !.train = w,
                      !.phase = IF Len(w) >= TrainingWindow THEN "calibrating" ELSE @] BY <1>1 DEF DR!Learnt
  <2> HIDE DEF w, r
  <2>2. Holds(r) /\ r.train = w /\ r.calib = s.calib /\ r.model = s.model /\ r.certain = s.certain
    BY <2>1 DEF Holds
  <2>3. r.phase = IF Len(w) >= TrainingWindow THEN "calibrating" ELSE "collecting" BY <2>1, <1>1 DEF Holds
  <2>4. Collects(s, r, seen') BY <2>2, <2>3, <1>1 DEF Collects, w
  <2> QED BY <2>4 DEF StaticStep, r
<1>2. CASE s.phase = "calibrating"
  <2> DEFINE w == Append(s.calib, seen')
  <2>1. r = [s EXCEPT !.calib = w,
                      !.phase = IF Len(w) >= CalibrationWindow THEN "training" ELSE @] BY <1>2 DEF DR!Learnt
  <2> HIDE DEF w, r
  <2>2. Holds(r) /\ r.calib = w /\ r.train = s.train /\ r.model = s.model /\ r.certain = s.certain
    BY <2>1 DEF Holds
  <2>3. r.phase = IF Len(w) >= CalibrationWindow THEN "training" ELSE "calibrating" BY <2>1, <1>2 DEF Holds
  <2>4. Calibrates(s, r, seen') BY <2>2, <2>3, <1>2 DEF Calibrates, w
  <2> QED BY <2>4 DEF StaticStep, r
<1>3. CASE s.phase = "training"
  <2>1. r = DR!DiscardedWhileFitting(s) BY <1>3 DEF DR!Learnt
  <2> QED BY <2>1, CountersApart DEF StaticStep
<1>4. CASE s.phase = "ready"
  <2>1. r = DR!Tested(s, crosses) BY <1>4 DEF DR!Learnt
  <2> QED BY <2>1, TestedApart DEF StaticStep
<1> QED BY <1>1, <1>2, <1>3, <1>4

\* What does not differ but in counters is as whole.
LEMMA AgreeingWhole ==
  ASSUME NEW k \in Nat, NEW s, NEW r, NEW kind, Whole(kind, s, k), Agrees(s, r)
  PROVE  Whole(kind, r, k)
<1>1. Holds(r) BY DEF Agrees
<1>2. StaticWhole(s, k) => StaticWhole(r, k) BY DEF Agrees, StaticWhole
<1>3. AdaptiveWhole(s, k) => AdaptiveWhole(r, k) BY DEF Agrees, AdaptiveWhole
<1> QED BY <1>1, <1>2, <1>3 DEF Whole

\* What is whole stays so when more is observed.
LEMMA WholeLater ==
  ASSUME NEW k \in Nat, NEW s, NEW kind, Whole(kind, s, k)
  PROVE  Whole(kind, s, k + 1)
<1>1. \A m : StaticModel(m, k) => StaticModel(m, k + 1) BY RisesLater DEF StaticModel
<1>2. StaticWhole(s, k) => StaticWhole(s, k + 1) BY <1>1, RisesLater DEF StaticWhole
<1>3. \A m : AdaptiveModel(m, k) => AdaptiveModel(m, k + 1) BY RisesLater DEF AdaptiveModel
<1>4. AdaptiveWhole(s, k) => AdaptiveWhole(s, k + 1) BY <1>3, RisesLater DEF AdaptiveWhole
<1> QED BY <1>2, <1>4 DEF Whole

\* A baseline that takes the next observation stays whole.
LEMMA StaticStepWhole ==
  ASSUME NEW k \in Nat, NEW s, NEW r, Whole("static", s, k), StaticStep(s, r, k + 1)
  PROVE  Whole("static", r, k + 1)
<1>1. StaticWhole(s, k) /\ Holds(s) BY DEF Whole
<1>2. StaticWhole(s, k + 1) BY WholeLater DEF Whole
<1>s. s.train \in Seq(Nat) /\ s.calib \in Seq(Nat) /\ Rising(s.train \o s.calib, k) /\ k + 1 \in Nat
  BY <1>1 DEF StaticWhole
<1>w. /\ s.train \o Append(s.calib, k + 1) = Append(s.train \o s.calib, k + 1)
      /\ s.train \o <<>> = s.train
      /\ Append(s.train, k + 1) \in Seq(Nat) /\ Append(s.calib, k + 1) \in Seq(Nat)
      /\ Len(Append(s.train, k + 1)) = Len(s.train) + 1
      /\ Len(Append(s.calib, k + 1)) = Len(s.calib) + 1
      /\ Len(s.train) \in Nat /\ Len(s.calib) \in Nat
  <2> DEFINE t == s.train
             c == s.calib
             x == k + 1
  <2>1. t \in Seq(Nat) /\ c \in Seq(Nat) /\ x \in Nat BY <1>s
  <2> HIDE DEF t, c, x
  <2>2. /\ t \o Append(c, x) = Append(t \o c, x)
        /\ t \o <<>> = t
        /\ Append(t, x) \in Seq(Nat) /\ Append(c, x) \in Seq(Nat)
        /\ Len(Append(t, x)) = Len(t) + 1 /\ Len(Append(c, x)) = Len(c) + 1
        /\ Len(t) \in Nat /\ Len(c) \in Nat BY <2>1, Windows
  <2> QED BY <2>2 DEF t, c, x
<1>e. Append(s.train, k + 1) \o <<>> = Append(s.train, k + 1) BY <1>w, <1>s, Windows
<1>r. Rising(Append(s.train \o s.calib, k + 1), k + 1) BY <1>s, NextRises
<1>3. CASE Agrees(s, r) BY <1>3, AgreeingWhole, WholeLater
<1>4. CASE Collects(s, r, k + 1)
  <2>1. s.calib = <<>> /\ Len(s.train) < TrainingWindow /\ s.model = DR!NoModel
    BY <1>1, <1>4 DEF StaticWhole, Collects
  <2>2. r.calib = <<>> /\ r.train = Append(s.train, k + 1) /\ r.model = DR!NoModel BY <2>1, <1>4 DEF Collects
  <2>3. r.train \in Seq(Nat) /\ r.calib \in Seq(Nat) /\ Rising(r.train \o r.calib, k + 1)
    BY <2>1, <2>2, <1>s, <1>w, <1>e, <1>r
  <2>4. r.phase = IF Len(r.train) >= TrainingWindow THEN "calibrating" ELSE "collecting" BY <1>4 DEF Collects
  <2>5. r.phase = "collecting" => Len(r.train) < TrainingWindow BY <2>4, <2>2, <1>w, DetectorSizes
  <2>6. r.phase = "calibrating" => Len(r.train) = TrainingWindow /\ Len(r.calib) < CalibrationWindow
    BY <2>4, <2>1, <2>2, <1>w, DetectorSizes
  <2>7. r.phase \in {"collecting", "calibrating"} BY <2>4
  <2>8. StaticWhole(r, k + 1) BY <2>2, <2>3, <2>5, <2>6, <2>7 DEF StaticWhole
  <2> QED BY <2>8, <1>4 DEF Whole, Collects
<1>5. CASE Calibrates(s, r, k + 1)
  <2>1. Len(s.train) = TrainingWindow /\ Len(s.calib) < CalibrationWindow /\ s.model = DR!NoModel
    BY <1>1, <1>5 DEF StaticWhole, Calibrates
  <2>2. r.train = s.train /\ r.calib = Append(s.calib, k + 1) /\ r.model = DR!NoModel
    BY <2>1, <1>5 DEF Calibrates
  <2>3. r.train \in Seq(Nat) /\ r.calib \in Seq(Nat) /\ Rising(r.train \o r.calib, k + 1)
    BY <2>2, <1>s, <1>w, <1>r
  <2>4. r.phase = IF Len(r.calib) >= CalibrationWindow THEN "training" ELSE "calibrating"
    BY <1>5 DEF Calibrates
  <2>5. r.phase = "calibrating" => Len(r.train) = TrainingWindow /\ Len(r.calib) < CalibrationWindow
    BY <2>4, <2>1, <2>2, <1>w, DetectorSizes
  <2>6. r.phase = "training" => Len(r.train) = TrainingWindow /\ Len(r.calib) = CalibrationWindow
    BY <2>4, <2>1, <2>2, <1>w, DetectorSizes
  <2>7. r.phase \in {"calibrating", "training"} BY <2>4
  <2>8. StaticWhole(r, k + 1) BY <2>2, <2>3, <2>5, <2>6, <2>7 DEF StaticWhole
  <2> QED BY <2>8, <1>5 DEF Whole, Calibrates
<1> QED BY <1>3, <1>4, <1>5 DEF StaticStep

\* A stream warms up: the slowest detector decides whether it is over.
Warms(s, r) ==
  /\ Holds(r) /\ s.phase = "warmup" /\ r.calib = s.calib /\ r.model = s.model
  /\ r.certain = s.certain
  /\ \/ r.phase = "warmup"
     \/ r.phase = "calibrating" /\ \A i \in 1 .. Detectors : r.updates[i] >= TrainingWindow

\* It takes the k-th observation to calibrate with, and freezes its threshold with the last.
Freezes(s, r, k) ==
  /\ Holds(r) /\ s.phase = "calibrating" /\ r.calib = Append(s.calib, k)
  /\ r.certain = s.certain
  /\ \A i \in 1 .. Detectors : r.updates[i] >= s.updates[i]
  /\ IF Len(r.calib) >= CalibrationWindow
       THEN r.phase = "operational" /\ r.model = <<r.calib>>
       ELSE r.phase = "calibrating" /\ r.model = s.model

\* It learns on.
LearnsOn(s, r) ==
  /\ Holds(r) /\ s.phase = "operational" /\ r.phase = s.phase
  /\ r.calib = s.calib /\ r.model = s.model /\ r.certain = s.certain
  /\ \A i \in 1 .. Detectors : r.updates[i] >= s.updates[i]

\* What an observation does to a stream.
AdaptiveStep(s, r, k) == Agrees(s, r) \/ Warms(s, r) \/ Freezes(s, r, k) \/ LearnsOn(s, r)

\* Learning never takes an update back, and touches nothing else.
LEMMA TrainedForward ==
  ASSUME NEW s, Holds(s), NEW outcome
  PROVE  LET r == DR!Processed(DR!Trained(s, outcome)) IN
         /\ Holds(r) /\ r.phase = s.phase /\ r.train = s.train /\ r.calib = s.calib
         /\ r.model = s.model /\ r.certain = s.certain
         /\ \A i \in 1 .. Detectors : r.updates[i] >= s.updates[i]
<1> DEFINE v == [i \in 1 .. Detectors |->
                  IF outcome[i] = "learns" THEN s.updates[i] + 1 ELSE s.updates[i]]
           q == DR!Trained(s, outcome)
<1>1. DOMAIN s.updates = 1 .. Detectors /\ \A i \in 1 .. Detectors : s.updates[i] \in Nat BY DEF Holds
<1>2. v \in [1 .. Detectors -> Nat] /\ \A i \in 1 .. Detectors : v[i] >= s.updates[i] BY <1>1
<1>3. q = [s EXCEPT !.updates = v] BY <1>1 DEF DR!Trained
<1> HIDE DEF v, q
<1>4. Holds(q) /\ q.phase = s.phase /\ q.train = s.train /\ q.calib = s.calib /\ q.model = s.model
      /\ q.certain = s.certain /\ q.updates = v BY <1>3, <1>2 DEF Holds
<1>5. Agrees(q, DR!Processed(q)) BY <1>4, CountersApart
<1> QED BY <1>2, <1>4, <1>5 DEF Agrees, q

\* What a row does to a stream.
LEMMA StreamedSteps ==
  ASSUME NEW s, Holds(s), s.phase \in {"warmup", "calibrating", "operational"}, NEW outcome
  PROVE  AdaptiveStep(s, DR!Streamed(DR!Processed(DR!Trained(s, outcome))), seen')
<1> DEFINE q == DR!Processed(DR!Trained(s, outcome))
           r == DR!Streamed(q)
<1>q. /\ Holds(q) /\ q.phase = s.phase /\ q.train = s.train /\ q.calib = s.calib
      /\ q.model = s.model /\ q.certain = s.certain
      /\ \A i \in 1 .. Detectors : q.updates[i] >= s.updates[i] BY TrainedForward
<1> HIDE DEF q
<1>1. CASE s.phase = "warmup"
  <2>1. r = [q EXCEPT !.warm = @ + 1, !.phase =
               IF DR!WarmupCount(q.updates) >= TrainingWindow THEN "calibrating" ELSE @]
    BY <1>1, <1>q DEF DR!Streamed
  <2> HIDE DEF r
  <2>2. /\ Holds(r) /\ r.calib = q.calib /\ r.model = q.model /\ r.certain = q.certain
        /\ r.updates = q.updates BY <2>1, <1>q DEF Holds
  <2>3. r.phase = IF DR!WarmupCount(q.updates) >= TrainingWindow THEN "calibrating" ELSE "warmup"
    BY <2>1, <1>q, <1>1 DEF Holds
  <2>4. ASSUME DR!WarmupCount(q.updates) >= TrainingWindow, NEW i \in 1 .. Detectors
        PROVE  r.updates[i] >= TrainingWindow
    <3>1. q.updates \in [1 .. Detectors -> Nat] BY <1>q DEF Holds
    <3>2. DR!WarmupCount(q.updates) \in Nat /\ DR!WarmupCount(q.updates) <= q.updates[i]
      BY <3>1, DetectorSizes, SlowestCounts
    <3>3. q.updates[i] \in Nat BY <3>1
    <3> QED BY <2>2, <2>4, <3>2, <3>3, DetectorSizes
  <2>5. Warms(s, r) BY <2>2, <2>3, <2>4, <1>q, <1>1 DEF Warms
  <2> QED BY <2>5 DEF AdaptiveStep, r, q
<1>2. CASE s.phase = "calibrating"
  <2> DEFINE w == Append(q.calib, seen')
  <2>1. r = IF Len(w) >= CalibrationWindow
              THEN [q EXCEPT !.calib = w, !.phase = "operational", !.model = <<w>>]
              ELSE [q EXCEPT !.calib = w] BY <1>2, <1>q DEF DR!Streamed
  <2> HIDE DEF w, r
  <2>2. Holds(r) /\ r.calib = w /\ r.certain = q.certain /\ r.updates = q.updates BY <2>1, <1>q DEF Holds
  <2>3. IF Len(w) >= CalibrationWindow
          THEN r.phase = "operational" /\ r.model = <<w>>
          ELSE r.phase = q.phase /\ r.model = q.model BY <2>1, <1>q DEF Holds
  <2>4. w = Append(s.calib, seen') BY <1>q DEF w
  <2>5. Freezes(s, r, seen') BY <2>2, <2>3, <2>4, <1>q, <1>2 DEF Freezes
  <2> QED BY <2>5 DEF AdaptiveStep, r, q
<1>3. CASE s.phase = "operational"
  <2>1. r = [q EXCEPT !.crossed = Append(@, FALSE)] BY <1>3, <1>q DEF DR!Streamed
  <2> HIDE DEF r
  <2>2. LearnsOn(s, r) BY <2>1, <1>q, <1>3 DEF LearnsOn, Holds
  <2> QED BY <2>2 DEF AdaptiveStep, r, q
<1> QED BY <1>1, <1>2, <1>3

\* Who had learned enough still has.
LEMMA EnoughStays ==
  ASSUME NEW s, NEW r, Holds(s), Holds(r),
         \A i \in 1 .. Detectors : s.updates[i] >= TrainingWindow,
         \A i \in 1 .. Detectors : r.updates[i] >= s.updates[i]
  PROVE  \A i \in 1 .. Detectors : r.updates[i] >= TrainingWindow
<1> SUFFICES ASSUME NEW i \in 1 .. Detectors PROVE r.updates[i] >= TrainingWindow OBVIOUS
<1>1. s.updates[i] \in Nat /\ r.updates[i] \in Nat /\ TrainingWindow \in Nat BY DetectorSizes DEF Holds
<1> QED BY <1>1

\* A stream that takes the next observation stays whole.
LEMMA AdaptiveStepWhole ==
  ASSUME NEW k \in Nat, NEW s, NEW r, Whole("adaptive", s, k), AdaptiveStep(s, r, k + 1)
  PROVE  Whole("adaptive", r, k + 1)
<1>1. AdaptiveWhole(s, k) /\ Holds(s) BY DEF Whole
<1>2. AdaptiveWhole(s, k + 1) BY WholeLater DEF Whole
<1>3. CASE Agrees(s, r) BY <1>3, AgreeingWhole, WholeLater
<1>4. CASE Warms(s, r)
  <2>1. AdaptiveWhole(r, k + 1) BY <1>2, <1>4, NothingRises, DetectorSizes DEF AdaptiveWhole, Warms
  <2> QED BY <2>1, <1>4 DEF Whole, Warms
<1>5. CASE Freezes(s, r, k + 1)
  <2>1. Rising(s.calib, k) /\ Len(s.calib) < CalibrationWindow /\ s.model = DR!NoModel
    BY <1>1, <1>5 DEF AdaptiveWhole, Freezes
  <2>2. s.calib \in Seq(Nat) /\ k + 1 \in Nat BY <2>1 DEF Rising
  <2>3. Len(Append(s.calib, k + 1)) = Len(s.calib) + 1 /\ Len(s.calib) \in Nat BY <2>2, Windows
  <2>4. Rising(r.calib, k + 1) /\ Len(r.calib) = Len(s.calib) + 1 BY <2>1, <2>3, NextRises, <1>5 DEF Freezes
  <2>5. \A i \in 1 .. Detectors : r.updates[i] >= TrainingWindow
    BY <1>1, <1>5, EnoughStays DEF AdaptiveWhole, Freezes
  <2>6. CASE Len(r.calib) >= CalibrationWindow
    <3>1. r.phase = "operational" /\ r.model = <<r.calib>> BY <2>6, <1>5 DEF Freezes
    <3>2. Len(r.calib) = CalibrationWindow BY <2>6, <2>1, <2>3, <2>4, DetectorSizes
    <3>3. Len(r.model) = 1 /\ r.model[1] = r.calib /\ r.model # DR!NoModel BY <3>1 DEF DR!NoModel
    <3>4. AdaptiveModel(r.model, k + 1) BY <3>2, <3>3, <2>4 DEF AdaptiveModel
    <3>5. AdaptiveWhole(r, k + 1) BY <3>1, <3>3, <3>4, <2>4, <2>5 DEF AdaptiveWhole
    <3> QED BY <3>5, <1>5 DEF Whole, Freezes
  <2>7. CASE ~ (Len(r.calib) >= CalibrationWindow)
    <3>1. r.phase = "calibrating" /\ r.model = DR!NoModel BY <2>1, <2>7, <1>5 DEF Freezes
    <3>2. Len(r.calib) < CalibrationWindow BY <2>7, <2>3, <2>4, DetectorSizes
    <3>5. AdaptiveWhole(r, k + 1) BY <3>1, <3>2, <2>4, <2>5 DEF AdaptiveWhole
    <3> QED BY <3>5, <1>5 DEF Whole, Freezes
  <2> QED BY <2>6, <2>7
<1>6. CASE LearnsOn(s, r)
  <2>1. \A i \in 1 .. Detectors : r.updates[i] >= TrainingWindow
    BY <1>1, <1>6, EnoughStays DEF AdaptiveWhole, LearnsOn
  <2>2. AdaptiveWhole(r, k + 1) BY <2>1, <1>2, <1>6 DEF AdaptiveWhole, LearnsOn
  <2> QED BY <2>2, <1>6 DEF Whole, LearnsOn
<1> QED BY <1>3, <1>4, <1>5, <1>6 DEF AdaptiveStep

\* A fit that is published makes the model whole.
LEMMA PublishesWhole ==
  ASSUME NEW k \in Nat, NEW s, NEW r, Whole("static", s, k), Publishes(s, r, <<s.train, s.calib>>)
  PROVE  Whole("static", r, k)
<1>1. StaticWhole(s, k) /\ s.phase = "training" BY DEF Whole, Publishes
<1>2. Rising(s.train \o s.calib, k) /\ Len(s.train) = TrainingWindow /\ Len(s.calib) = CalibrationWindow
  BY <1>1 DEF StaticWhole
<1>3. /\ r.phase = "ready" /\ r.model = <<s.train, s.calib>> /\ r.train = <<>> /\ r.calib = <<>>
      /\ Holds(r) BY DEF Publishes
<1>4. Len(r.model) = 2 /\ r.model[1] = s.train /\ r.model[2] = s.calib /\ r.model # DR!NoModel
  BY <1>3 DEF DR!NoModel
<1>5. StaticModel(r.model, k) BY <1>2, <1>4 DEF StaticModel
<1>6. r.train \o r.calib = <<>> /\ r.train \in Seq(Nat) /\ r.calib \in Seq(Nat) BY <1>3
<1>7. StaticWhole(r, k) BY <1>3, <1>4, <1>5, <1>6, NothingRises DEF StaticWhole
<1> QED BY <1>3, <1>7 DEF Whole

\* It is the fit of the windows of the last snapshot, if the model was being fitted in it.
LEMMA PublishesFollows ==
  ASSUME NEW s, NEW r, NEW i, Follows(s, i), Publishes(s, r, <<s.train, s.calib>>)
  PROVE  Follows(r, i)
BY DEF Follows, Publishes

\* A baseline that takes an observation keeps its model, and the windows that are being fitted.
LEMMA StaticStepFollows ==
  ASSUME NEW s, NEW r, NEW i, NEW k, Follows(s, i), StaticStep(s, r, k)
  PROVE  Follows(r, i)
<1>1. CASE Agrees(s, r) BY <1>1 DEF Follows, Agrees
<1>2. CASE Collects(s, r, k) BY <1>2 DEF Follows, Collects
<1>3. CASE Calibrates(s, r, k) BY <1>3 DEF Follows, Calibrates
<1> QED BY <1>1, <1>2, <1>3 DEF StaticStep

\* What ends a fit publishes what the windows of the model make, or nothing.
LEMMA FittedSteps ==
  ASSUME NEW s, Holds(s), FitOf(fit, s)
  PROVE  Agrees(s, DR!Fitted(s)) \/ Publishes(s, DR!Fitted(s), <<s.train, s.calib>>)
<1> DEFINE r == DR!Fitted(s)
<1>1. CASE s.phase = "training" /\ fit.status = "done"
  <2>1. fit.of = <<s.train, s.calib>> BY <1>1 DEF FitOf
  <2>2. r = [s EXCEPT !.phase = "ready", !.model = fit.of, !.train = <<>>, !.calib = <<>>]
    BY <1>1 DEF DR!Fitted
  <2> HIDE DEF r
  <2>3. Publishes(s, r, fit.of) BY <1>1, <2>2 DEF Publishes, Holds
  <2> QED BY <2>1, <2>3 DEF r
<1>2. CASE ~ (s.phase = "training" /\ fit.status = "done")
  <2>1. r = s BY <1>2 DEF DR!Fitted
  <2> QED BY <2>1, CountersApart
<1> QED BY <1>1, <1>2

\* A run that fails keeps what it had, and what it had of the last snapshot.
LEMMA FailsWhole ==
  ASSUME NEW k \in Nat, NEW s, NEW r, NEW kind, Whole(kind, s, k), Fails(s, r)
  PROVE  Whole(kind, r, k)
<1>1. Holds(r) BY DEF Fails
<1>2. StaticWhole(s, k) => StaticWhole(r, k) BY DEF Fails, StaticWhole
<1>3. AdaptiveWhole(s, k) => AdaptiveWhole(r, k) BY DEF Fails, AdaptiveWhole
<1> QED BY <1>1, <1>2, <1>3 DEF Whole

\* A run that fails still follows its last snapshot.
LEMMA FailsFollows ==
  ASSUME NEW s, NEW r, NEW i, Follows(s, i), Fails(s, r)
  PROVE  Follows(r, i)
BY DEF Follows, Fails

\* A stream that takes an observation keeps its threshold.
LEMMA AdaptiveStepFollows ==
  ASSUME NEW s, NEW r, NEW i, NEW k, NEW l \in Nat, Whole("adaptive", s, l),
         Whole("adaptive", i, l), Follows(s, i), AdaptiveStep(s, r, k)
  PROVE  Follows(r, i)
<1>1. i.phase # "training" BY DEF Whole, AdaptiveWhole
<1>2. CASE Agrees(s, r) BY <1>1, <1>2 DEF Follows, Agrees
<1>3. CASE Warms(s, r) BY <1>1, <1>3 DEF Follows, Warms
<1>4. CASE Freezes(s, r, k) BY <1>1, <1>4 DEF Follows, Freezes
<1>5. CASE LearnsOn(s, r) BY <1>1, <1>5 DEF Follows, LearnsOn
<1> QED BY <1>2, <1>3, <1>4, <1>5 DEF AdaptiveStep

(* The invariant of the detector.                                          *)

\* A run begins with nothing learned.
LEMMA DetectorStarts ==
  ASSUME DR!Init
  PROVE  DetectorWhole
<1> DEFINE v == [i \in 1 .. Detectors |-> 0]
<1>1. strategy \in {"static", "adaptive"} /\ seen = 0 /\ frozen = d /\ dead = FALSE
      /\ fit = DR!NoFit BY DEF DR!Init
<1>2. v \in [1 .. Detectors -> Nat] OBVIOUS
<1>3. /\ Holds(d) /\ d.phase = (IF strategy = "static" THEN "collecting" ELSE "warmup")
      /\ d.train = <<>> /\ d.calib = <<>> /\ d.model = DR!NoModel /\ d.certain = TRUE
  <2>1. d = [phase |-> IF strategy = "static" THEN "collecting" ELSE "warmup",
             train |-> <<>>, calib |-> <<>>, model |-> DR!NoModel, prep |-> 0, processed |-> 0,
             withheld |-> 0, discarded |-> 0, warm |-> 0, updates |-> v, certain |-> TRUE,
             crossed |-> <<>>, active |-> FALSE, position |-> 0, alarms |-> 0]
    BY DEF DR!Init, DR!FreshDetector
  <2> HIDE DEF v
  <2> QED BY <2>1, <1>2 DEF Holds
<1>4. <<>> \o <<>> = <<>> /\ <<>> \in Seq(Nat) /\ Len(<<>>) = 0 OBVIOUS
<1>5. CASE strategy = "static"
  <2>1. StaticWhole(d, 0)
    <3>1. d.phase = "collecting" BY <1>3, <1>5
    <3>2. Rising(d.train \o d.calib, 0) BY <1>3, <1>4, NothingRises
    <3>3. Len(d.train) < TrainingWindow BY <1>3, <1>4, DetectorSizes
    <3> QED BY <3>1, <3>2, <3>3, <1>3, <1>4 DEF StaticWhole
  <2>2. Whole(strategy, d, 0) BY <2>1, <1>3, <1>5 DEF Whole
  <2>3. Follows(d, d) /\ FitOf(fit, d) BY <1>1, <1>3, <1>5 DEF Follows, FitOf, DR!NoFit
  <2> QED BY <2>2, <2>3, <1>1, <1>3, <1>5 DEF DetectorWhole
<1>6. CASE strategy = "adaptive"
  <2>1. AdaptiveWhole(d, 0) BY <1>3, <1>6, NothingRises DEF AdaptiveWhole
  <2>2. Whole(strategy, d, 0) BY <2>1, <1>3, <1>6 DEF Whole
  <2>3. Follows(d, d) BY <1>3, <1>6 DEF Follows
  <2> QED BY <2>2, <2>3, <1>1, <1>3, <1>6 DEF DetectorWhole
<1> QED BY <1>1, <1>5, <1>6

\* A fit that ends is of what it was of.
LEMMA FitEndsKeeps ==
  ASSUME DetectorWhole, DR!FitEnds
  PROVE  DetectorWhole'
<1>1. UNCHANGED <<strategy, d, dead, frozen, seen>> /\ fit.status = "running" BY DEF DR!FitEnds
<1>2. fit' = [fit EXCEPT !.status = "done"] \/ fit' = [fit EXCEPT !.status = "broken"] BY DEF DR!FitEnds
<1>3. ASSUME {"status", "of"} \subseteq DOMAIN fit
      PROVE  {"status", "of"} \subseteq DOMAIN fit' /\ fit'.of = fit.of BY <1>2, <1>3
<1>4. FitOf(fit, d) => FitOf(fit', d) BY <1>1, <1>3 DEF FitOf
<1> QED BY <1>1, <1>4 DEF DetectorWhole

\* The checkpoint loop publishes what was fitted, or fails the run.
LEMMA RefreshKeeps ==
  ASSUME DetectorWhole, DR!Refresh
  PROVE  DetectorWhole'
<1>1. /\ strategy = "static" /\ ~dead /\ fit.status \in {"done", "broken"} /\ fit' = DR!NoFit
      /\ UNCHANGED <<strategy, frozen, seen, mishaps>> BY DEF DR!Refresh
<1>2. Whole("static", d, seen) /\ Holds(d) /\ seen \in Nat /\ Follows(d, frozen) /\ FitOf(fit, d)
      /\ d.certain /\ d.phase # "failed" BY <1>1 DEF DetectorWhole, Whole
<1>3. CASE fit.status = "done"
  <2>1. d' = DR!Fitted(d) /\ UNCHANGED dead BY <1>3 DEF DR!Refresh
  <2>2. Agrees(d, d') \/ Publishes(d, d', <<d.train, d.calib>>) BY <2>1, <1>2, FittedSteps
  <2>3. Whole("static", d', seen) BY <2>2, <1>2, AgreeingWhole, PublishesWhole
  <2>4. Follows(d', frozen)
    <3>1. Agrees(d, d') => StaticStep(d, d', 0) BY DEF StaticStep
    <3> QED BY <2>2, <3>1, <1>2, StaticStepFollows, PublishesFollows
  <2>5. d'.certain /\ d'.phase # "failed" BY <2>2, <1>2 DEF Agrees, Publishes
  <2>6. FitOf(fit', d') BY <1>1 DEF FitOf, DR!NoFit
  <2> QED BY <2>1, <2>3, <2>4, <2>5, <2>6, <1>1, <1>2 DEF DetectorWhole
<1>4. CASE fit.status = "broken"
  <2>1. d' = [d EXCEPT !.phase = "failed"] /\ dead' = TRUE BY <1>4 DEF DR!Refresh
  <2>2. Fails(d, d') BY <2>1, <1>2 DEF Fails, Holds
  <2>3. Whole("static", d', seen) /\ Follows(d', frozen) BY <2>2, <1>2, FailsWhole, FailsFollows
  <2>4. FitOf(fit', d') BY <1>1 DEF FitOf, DR!NoFit
  <2> QED BY <2>1, <2>3, <2>4, <1>1, <1>2 DEF DetectorWhole
<1> QED BY <1>1, <1>3, <1>4

\* A baseline takes an observation: what was fitted is published first.
LEMMA StaticObserveKeeps ==
  ASSUME DetectorWhole, DR!StaticObserve
  PROVE  DetectorWhole'
<1> DEFINE s == DR!Fitted(d)
<1>1. /\ strategy = "static" /\ ~dead /\ fit.status # "broken" /\ seen' = seen + 1
      /\ UNCHANGED <<strategy, dead, frozen, mishaps>> BY DEF DR!StaticObserve, DR!Arrives
<1>2. Whole("static", d, seen) /\ Whole("static", frozen, seen) /\ Holds(d) /\ seen \in Nat
      /\ Follows(d, frozen) /\ FitOf(fit, d) /\ d.certain /\ d.phase # "failed"
  BY <1>1 DEF DetectorWhole, Whole
<1>3. \/ d' = DR!HeldBack(s) \/ d' = s
      \/ \E crosses \in BOOLEAN : d' = DR!Learnt(DR!Processed(s), crosses) BY DEF DR!StaticObserve
<1>f. fit' = IF d'.phase = "training" /\ s.phase # "training" THEN DR!Submitted(d') ELSE DR!StillFitting
  BY DEF DR!StaticObserve
<1>4. Agrees(d, s) \/ Publishes(d, s, <<d.train, d.calib>>) BY <1>2, FittedSteps
<1>p. fit.status = "done" => s.phase # "training"
  <2>1. CASE d.phase = "training" /\ fit.status = "done" BY <2>1, <1>2 DEF DR!Fitted, Holds
  <2>2. CASE ~ (d.phase = "training" /\ fit.status = "done") BY <2>2 DEF DR!Fitted
  <2> QED BY <2>1, <2>2
<1> HIDE DEF s
<1>5. Whole("static", s, seen) BY <1>4, <1>2, AgreeingWhole, PublishesWhole
<1>6. Follows(s, frozen)
  <2>1. Agrees(d, s) => StaticStep(d, s, 0) BY DEF StaticStep
  <2> QED BY <1>4, <2>1, <1>2, StaticStepFollows, PublishesFollows
<1>7. s.certain /\ s.phase # "failed" BY <1>4, <1>2 DEF Agrees, Publishes
<1>8. Holds(s) /\ s.phase \in {"collecting", "calibrating", "training", "ready"}
  BY <1>5, <1>7 DEF Whole, StaticWhole
<1>9. StaticStep(s, d', seen')
  <2>1. CASE d' = DR!HeldBack(s) \/ d' = s BY <2>1, <1>8, CountersApart DEF StaticStep
  <2>2. CASE \E crosses \in BOOLEAN : d' = DR!Learnt(DR!Processed(s), crosses)
    <3> DEFINE q == DR!Processed(s)
    <3>1. Agrees(s, q) BY <1>8, CountersApart
    <3> HIDE DEF q
    <3>2. PICK crosses \in BOOLEAN : d' = DR!Learnt(q, crosses) BY <2>2 DEF q
    <3>3. StaticStep(q, DR!Learnt(q, crosses), seen') BY <3>1, <1>8, LearntSteps DEF Agrees
    <3> QED BY <3>1, <3>2, <3>3, AgreesThrough
  <2> QED BY <1>3, <2>1, <2>2
<1>10. Whole("static", d', seen') BY <1>1, <1>2, <1>5, <1>9, StaticStepWhole
<1>11. Whole("static", frozen, seen') BY <1>1, <1>2, WholeLater
<1>12. Follows(d', frozen) BY <1>6, <1>9, StaticStepFollows
<1>13. d'.certain /\ d'.phase # "failed" BY <1>9, <1>7 DEF StaticStep, Agrees, Collects, Calibrates
<1>14. FitOf(fit', d')
  <2>1. CASE d'.phase = "training" /\ s.phase # "training"
    <3>1. fit' = DR!Submitted(d') BY <2>1, <1>f
    <3> QED BY <3>1 DEF FitOf, DR!Submitted
  <2>2. CASE d'.phase = "training" /\ s.phase = "training"
    <3>1. fit' = fit BY <2>2, <1>f, <1>p DEF DR!StillFitting
    <3>2. Agrees(s, d') BY <2>2, <1>9 DEF StaticStep, Collects, Calibrates
    <3>3. Agrees(d, s) BY <2>2, <1>4 DEF Publishes
    <3> QED BY <3>1, <3>2, <3>3, <1>2 DEF FitOf, Agrees
  <2>3. CASE d'.phase # "training"
    <3>1. fit' = fit \/ fit' = DR!NoFit BY <2>3, <1>f DEF DR!StillFitting
    <3> QED BY <3>1, <2>3, <1>2 DEF FitOf, DR!NoFit
  <2> QED BY <2>1, <2>2, <2>3
<1>15. seen' \in Nat BY <1>1, <1>2
<1> QED BY <1>1, <1>2, <1>10, <1>11, <1>12, <1>13, <1>14, <1>15 DEF DetectorWhole

\* A stream takes an observation.
LEMMA AdaptiveObserveKeeps ==
  ASSUME DetectorWhole, DR!AdaptiveObserve
  PROVE  DetectorWhole'
<1>1. /\ strategy = "adaptive" /\ ~dead /\ seen' = seen + 1
      /\ UNCHANGED <<strategy, fit, dead, frozen, mishaps>> BY DEF DR!AdaptiveObserve, DR!Arrives
<1>2. Whole("adaptive", d, seen) /\ Whole("adaptive", frozen, seen) /\ Holds(d) /\ seen \in Nat
      /\ Follows(d, frozen) /\ d.certain /\ d.phase # "failed" BY <1>1 DEF DetectorWhole, Whole
<1>3. \/ d' = DR!HeldBack(d) \/ d' = d
      \/ \E outcome \in DR!Outcomes : d' = DR!Streamed(DR!Processed(DR!Trained(d, outcome)))
  BY DEF DR!AdaptiveObserve
<1>4. d.phase \in {"warmup", "calibrating", "operational"} BY <1>2 DEF Whole, AdaptiveWhole
<1>5. AdaptiveStep(d, d', seen') BY <1>2, <1>3, <1>4, CountersApart, StreamedSteps DEF AdaptiveStep
<1>6. Whole("adaptive", d', seen') BY <1>1, <1>2, <1>5, AdaptiveStepWhole
<1>7. Whole("adaptive", frozen, seen') BY <1>1, <1>2, WholeLater
<1>8. Follows(d', frozen) BY <1>2, <1>5, AdaptiveStepFollows
<1>9. d'.certain /\ d'.phase # "failed" BY <1>5, <1>2 DEF AdaptiveStep, Agrees, Warms, Freezes, LearnsOn
<1>10. seen' \in Nat BY <1>1, <1>2
<1> QED BY <1>1, <1>2, <1>6, <1>7, <1>8, <1>9, <1>10 DEF DetectorWhole

\* A run that fails keeps its windows, and its snapshot.
LEMMA ExecutionFailsKeeps ==
  ASSUME DetectorWhole, DR!ExecutionFails
  PROVE  DetectorWhole'
<1>1. /\ dead' = TRUE /\ seen' = seen + 1 /\ UNCHANGED <<strategy, fit, frozen>>
      /\ d' = [d EXCEPT !.phase = "failed", !.certain = FALSE] BY DEF DR!ExecutionFails, DR!Arrives
<1>2. Whole(strategy, d, seen) /\ Whole(strategy, frozen, seen) /\ seen \in Nat /\ Follows(d, frozen)
  BY DEF DetectorWhole
<1>3. Holds(d) BY <1>2 DEF Whole
<1>4. Fails(d, d') BY <1>1, <1>3 DEF Fails, Holds
<1>5. Whole(strategy, d', seen') BY <1>1, <1>2, <1>4, FailsWhole, WholeLater
<1>6. Whole(strategy, frozen, seen') BY <1>1, <1>2, WholeLater
<1>7. Follows(d', frozen) BY <1>2, <1>4, FailsFollows
<1>8. FitOf(fit, d) => FitOf(fit, d') BY <1>4 DEF FitOf, Fails
<1>9. seen' \in Nat BY <1>1, <1>2
<1> QED BY <1>1, <1>5, <1>6, <1>7, <1>8, <1>9 DEF DetectorWhole

\* A snapshot is taken of a model that has not failed.
LEMMA ExportKeeps ==
  ASSUME DetectorWhole, DR!ExportCheckpoint
  PROVE  DetectorWhole'
<1>1. ~dead /\ frozen' = d /\ UNCHANGED <<strategy, d, fit, dead, seen, mishaps>>
  BY DEF DR!ExportCheckpoint, DR!Exportable
<1>2. Whole(strategy, d, seen) /\ strategy \in {"static", "adaptive"} /\ d.phase # "failed"
  BY <1>1 DEF DetectorWhole
<1>3. d.model # DR!NoModel => d.phase \in {"ready", "operational"}
  <2>1. StaticWhole(d, seen) /\ d.model # DR!NoModel => d.phase = "ready" BY <1>2 DEF StaticWhole
  <2>2. AdaptiveWhole(d, seen) /\ d.model # DR!NoModel => d.phase = "operational" BY <1>2 DEF AdaptiveWhole
  <2> QED BY <2>1, <2>2, <1>2 DEF Whole
<1>4. d.phase = "training" => d.model = DR!NoModel BY <1>2 DEF Whole, StaticWhole, AdaptiveWhole
<1>5. Follows(d, d) BY <1>3, <1>4 DEF Follows
<1> QED BY <1>1, <1>5 DEF DetectorWhole

\* A restart goes on from the last snapshot, and fits again what was being fitted in it.
LEMMA RestoreKeeps ==
  ASSUME DetectorWhole, DR!RestoreCheckpoint
  PROVE  DetectorWhole'
<1>1. /\ d' = frozen /\ dead' = FALSE /\ UNCHANGED <<strategy, frozen, seen>>
      /\ fit' = IF frozen.phase = "training" THEN DR!Submitted(frozen) ELSE DR!NoFit
  BY DEF DR!RestoreCheckpoint
<1>2. /\ Whole(strategy, frozen, seen) /\ strategy \in {"static", "adaptive"}
      /\ frozen.phase # "failed" /\ frozen.certain BY DEF DetectorWhole
<1>3. frozen.model # DR!NoModel => frozen.phase \in {"ready", "operational"}
  <2>1. StaticWhole(frozen, seen) /\ frozen.model # DR!NoModel => frozen.phase = "ready"
    BY <1>2 DEF StaticWhole
  <2>2. AdaptiveWhole(frozen, seen) /\ frozen.model # DR!NoModel => frozen.phase = "operational"
    BY <1>2 DEF AdaptiveWhole
  <2> QED BY <2>1, <2>2, <1>2 DEF Whole
<1>4. frozen.phase = "training" => frozen.model = DR!NoModel BY <1>2 DEF Whole, StaticWhole, AdaptiveWhole
<1>5. Follows(frozen, frozen) BY <1>3, <1>4 DEF Follows
<1>6. FitOf(fit', frozen) BY <1>1 DEF FitOf, DR!Submitted, DR!NoFit
<1> QED BY <1>1, <1>2, <1>5, <1>6 DEF DetectorWhole

\* No step of a detector breaks it.
LEMMA DetectorSteps ==
  ASSUME DetectorWhole, DR!Next \/ UNCHANGED DR!vars
  PROVE  DetectorWhole'
<1>1. CASE UNCHANGED DR!vars
  <2>1. UNCHANGED <<strategy, d, fit, dead, frozen, seen, mishaps>> BY <1>1 DEF DR!vars
  <2> QED BY <2>1 DEF DetectorWhole
<1>2. CASE DR!Next BY <1>2, FitEndsKeeps, RefreshKeeps, StaticObserveKeeps, AdaptiveObserveKeeps,
     ExecutionFailsKeeps, ExportKeeps, RestoreKeeps DEF DR!Next
<1> QED BY <1>1, <1>2

\* A detector that is whole keeps its baseline, learned enough before it scores, and has a
\* snapshot that is certain.
LEMMA WholeKeepsModel ==
  ASSUME DetectorWhole
  PROVE  DR!BaselineKept /\ DR!AllWarm /\ DR!CertainSnapshots
<1>1. strategy \in {"static", "adaptive"} /\ \A s \in {d, frozen} : Whole(strategy, s, seen)
  BY DEF DetectorWhole
<1>2. ASSUME NEW s \in {d, frozen}, s.model # DR!NoModel
      PROVE  /\ DR!Increasing(IF strategy = "static" THEN s.model[1] \o s.model[2] ELSE s.model[1])
             /\ Len(s.model[Len(s.model)]) = CalibrationWindow
             /\ strategy = "static" => Len(s.model[1]) = TrainingWindow
  <2>1. CASE strategy = "static"
    <3>1. StaticModel(s.model, seen) BY <1>1, <1>2, <2>1 DEF Whole, StaticWhole
    <3> QED BY <3>1, <2>1 DEF StaticModel, Rising
  <2>2. CASE strategy = "adaptive"
    <3>1. AdaptiveModel(s.model, seen) BY <1>1, <1>2, <2>2 DEF Whole, AdaptiveWhole
    <3> QED BY <3>1, <2>2 DEF AdaptiveModel, Rising
  <2> QED BY <2>1, <2>2, <1>1
<1>3. frozen.model # DR!NoModel => d.model = frozen.model BY DEF DetectorWhole, Follows
<1>4. frozen.phase = "training" /\ d.model # DR!NoModel => d.model = <<frozen.train, frozen.calib>>
  BY DEF DetectorWhole, Follows
<1>5. DR!BaselineKept BY <1>2, <1>3, <1>4 DEF DR!BaselineKept
<1>6. DR!AllWarm BY <1>1 DEF DR!AllWarm, Whole, AdaptiveWhole
<1>7. DR!CertainSnapshots BY DEF DR!CertainSnapshots, DetectorWhole
<1> QED BY <1>5, <1>6, <1>7

(* The invariant of the alignment.                                         *)

\* Times, and what a reading may be.
Cells == [Charger -> [Sensor -> SA!Reading \cup {SA!NoReading}]]
Marks == [Charger -> [Sensor -> SA!Time \cup {SA!Never}]]
Numbers == [Charger -> [Sensor -> 0 .. MaxUpdates]]

\* The bounds are numbers.
LEMMA AlignmentSizes ==
  /\ MaxTime \in Nat /\ Tolerance \in Nat /\ MaxUpdates \in Nat /\ MaxAge \in Nat /\ MaxSkew \in Nat
  /\ \A t \in SA!Time : t \in Nat
BY ModelAssumption DEF SA!AlignmentAssumption, SA!Time

\* A reading that a cleanup leaves is as it was, and so are the versions of its charger.
LEMMA CleanupLeaves ==
  ASSUME SA!AlignmentTypeOK
  PROVE  /\ SA!Kept \in Cells /\ SA!Versions \in Numbers
         /\ \A e \in Charger, u \in Sensor : SA!Kept[e][u] # SA!NoReading =>
              SA!Kept[e][u] = readings[e][u] /\ SA!Versions[e] = versions[e]
<1>1. readings \in Cells /\ versions \in Numbers BY DEF SA!AlignmentTypeOK, Cells, Numbers
<1>2. /\ SA!Cleaned \in Cells
      /\ \A e \in Charger, u \in Sensor :
           SA!Cleaned[e][u] = readings[e][u] \/ SA!Cleaned[e][u] = SA!NoReading BY <1>1 DEF SA!Cleaned, Cells
<1>3. CASE SA!Cleans
  <2>1. SA!Kept = SA!Cleaned BY <1>3 DEF SA!Kept
  <2>2. SA!Versions = [c \in Charger |-> IF \A s \in Sensor : SA!Cleaned[c][s] = SA!NoReading
                                           THEN SA!NoVersion[c] ELSE versions[c]] BY <1>3 DEF SA!Versions
  <2>3. \A e \in Charger : SA!NoVersion[e] \in [Sensor -> 0 .. MaxUpdates] BY AlignmentSizes DEF SA!NoVersion
  <2>4. SA!Versions \in Numbers BY <1>1, <2>2, <2>3 DEF Numbers
  <2>5. \A e \in Charger, u \in Sensor : SA!Cleaned[e][u] # SA!NoReading => SA!Versions[e] = versions[e]
    BY <2>2
  <2> QED BY <1>2, <2>1, <2>4, <2>5
<1>4. CASE ~ SA!Cleans BY <1>1, <1>4 DEF SA!Kept, SA!Versions
<1> QED BY <1>3, <1>4

\* At first nothing was read.
LEMMA AlignmentStarts ==
  ASSUME SA!Init
  PROVE  AlignmentWhole
<1>1. 0 \in 0 .. MaxTime /\ 0 \in 0 .. MaxUpdates BY AlignmentSizes
<1>2. SA!Unheard \in Marks /\ SA!Emptied \in Cells /\ SA!NoVersion \in Numbers
  BY <1>1 DEF SA!Unheard, SA!Emptied, SA!NoVersion, Marks, Cells, Numbers
<1>3. SA!AlignmentTypeOK BY <1>1, <1>2 DEF SA!Init, SA!AlignmentTypeOK, Marks, Cells, Numbers
<1>4. \A c \in Charger, s \in Sensor : SA!Unheard[c][s] = SA!Never /\ SA!Emptied[c][s] = SA!NoReading
  BY DEF SA!Unheard, SA!Emptied
<1>5. SA!WithinWatermarks BY <1>4 DEF SA!Init, SA!WithinWatermarks, SA!Never
<1>6. NewIsLater BY <1>4 DEF SA!Init, NewIsLater
<1> QED BY <1>3, <1>5, <1>6 DEF AlignmentWhole

\* A snapshot is of what is there.
LEMMA SaveKeeps ==
  ASSUME AlignmentWhole, SA!Save
  PROVE  AlignmentWhole'
<1>1. /\ image' = [watermarks |-> watermarks, vector |-> vector]
      /\ UNCHANGED <<now, readings, watermarks, versions, update, cleaned, vector>> BY DEF SA!Save
<1>2. image'.watermarks = watermarks /\ image'.vector = vector BY <1>1
<1>3. SA!AlignmentTypeOK' BY <1>1, <1>2 DEF AlignmentWhole, SA!AlignmentTypeOK
<1>4. SA!WithinWatermarks' BY <1>1, <1>2 DEF AlignmentWhole, SA!WithinWatermarks
<1>5. NewIsLater' BY <1>1 DEF AlignmentWhole, NewIsLater
<1> QED BY <1>3, <1>4, <1>5 DEF AlignmentWhole

\* A worker that starts again has its watermarks, and no reading.
LEMMA RestartKeeps ==
  ASSUME AlignmentWhole, SA!Restart
  PROVE  AlignmentWhole'
<1>1. /\ watermarks' = image.watermarks /\ vector' = image.vector /\ cleaned' = now
      /\ readings' = SA!Emptied /\ versions' = SA!NoVersion
      /\ UNCHANGED <<now, update, image>> BY DEF SA!Restart, SA!Restored
<1>2. SA!Emptied \in Cells /\ SA!NoVersion \in Numbers
  BY AlignmentSizes DEF SA!Emptied, SA!NoVersion, Cells, Numbers
<1>3. SA!AlignmentTypeOK' BY <1>1, <1>2 DEF AlignmentWhole, SA!AlignmentTypeOK, Cells, Numbers
<1>4. \A c \in Charger, s \in Sensor : readings'[c][s] = SA!NoReading BY <1>1 DEF SA!Emptied
<1>5. SA!WithinWatermarks' BY <1>1, <1>4 DEF AlignmentWhole, SA!WithinWatermarks
<1>6. NewIsLater' BY <1>4 DEF NewIsLater
<1> QED BY <1>3, <1>5, <1>6 DEF AlignmentWhole

\* Time passes.
LEMMA TickKeeps ==
  ASSUME AlignmentWhole, SA!Tick
  PROVE  AlignmentWhole'
<1>1. /\ now < MaxTime /\ now' = now + 1
      /\ UNCHANGED <<readings, watermarks, versions, update, cleaned, vector, image>> BY DEF SA!Tick
<1>2. now \in 0 .. MaxTime BY DEF AlignmentWhole, SA!AlignmentTypeOK
<1>3. now' \in 0 .. MaxTime BY <1>1, <1>2, AlignmentSizes
<1>4. SA!AlignmentTypeOK' BY <1>1, <1>3 DEF AlignmentWhole, SA!AlignmentTypeOK
<1>5. SA!WithinWatermarks' BY <1>1 DEF AlignmentWhole, SA!WithinWatermarks
<1>6. NewIsLater' BY <1>1 DEF AlignmentWhole, NewIsLater
<1> QED BY <1>4, <1>5, <1>6 DEF AlignmentWhole

\* What an accepted reading leaves: it is newer than the last of its sensor; a vector is emitted
\* of the readings of its charger, each of them newer than in the last one, or none is.
Takes(c, s) ==
  /\ readings' \in Cells /\ watermarks' \in Marks /\ versions' \in Numbers /\ vector' \in Marks
  /\ readings'[c][s].time > watermarks[c][s] /\ watermarks'[c][s] = readings'[c][s].time
  /\ readings'[c][s] # SA!NoReading
  /\ \A e \in Charger, u \in Sensor : ~ (e = c /\ u = s) =>
       /\ watermarks'[e][u] = watermarks[e][u]
       /\ readings'[e][u] # SA!NoReading => readings'[e][u] = readings[e][u]
  /\ \A e \in Charger \ {c} :
       /\ vector'[e] = vector[e]
       /\ \A u \in Sensor : readings'[e][u] # SA!NoReading => versions'[e] = versions[e]
  /\ \/ /\ vector' = vector
        /\ \A u \in Sensor \ {s} : readings'[c][u] # SA!NoReading => versions'[c] = versions[c]
     \/ /\ \A u \in Sensor :
             /\ versions'[c][u] = readings'[c][u].seq /\ vector'[c][u] = readings'[c][u].time
             /\ readings'[c][u] # SA!NoReading
             /\ now - readings'[c][u].time <= MaxAge
        /\ \A u, v \in Sensor : readings'[c][u].time - readings'[c][v].time <= MaxSkew
        /\ \A u \in Sensor \ {s} : readings'[c][u].seq > versions[c][u]

\* That is what it does.
LEMMA UpdateTakes ==
  ASSUME AlignmentWhole, NEW c \in Charger, NEW s \in Sensor, NEW t \in SA!Time,
         NEW heard \in 0 .. now, NEW number \in BOOLEAN, SA!Update(c, s, t, heard, number)
  PROVE  Takes(c, s) /\ SA!AlignmentTypeOK' /\ UNCHANGED <<now, image>>
<1> DEFINE r == [at |-> now, heard |-> heard, time |-> t, seq |-> update + 1, number |-> number]
<1>t. /\ now \in 0 .. MaxTime /\ cleaned \in 0 .. MaxTime /\ update \in 0 .. MaxUpdates
      /\ readings \in Cells /\ watermarks \in Marks /\ versions \in Numbers /\ vector \in Marks
      /\ image.watermarks \in Marks /\ image.vector \in Marks
      /\ SA!AlignmentTypeOK BY DEF AlignmentWhole, SA!AlignmentTypeOK, Cells, Marks, Numbers
<1>1. /\ update < MaxUpdates /\ update' = update + 1 /\ t > watermarks[c][s]
      /\ watermarks' = [watermarks EXCEPT ![c][s] = t]
      /\ cleaned' = IF SA!Cleans THEN now ELSE cleaned
      /\ readings' = [SA!Kept EXCEPT ![c][s] = r]
      /\ UNCHANGED <<now, image>> BY DEF SA!Update, SA!Accepted, SA!Newer
<1>2. /\ SA!Kept \in Cells /\ SA!Versions \in Numbers
      /\ \A e \in Charger, u \in Sensor : SA!Kept[e][u] # SA!NoReading =>
           SA!Kept[e][u] = readings[e][u] /\ SA!Versions[e] = versions[e] BY <1>t, CleanupLeaves
<1>3. update' \in 0 .. MaxUpdates /\ update + 1 \in 1 .. MaxUpdates /\ cleaned' \in 0 .. MaxTime
  BY <1>1, <1>t, AlignmentSizes
<1>4. now \in SA!Time /\ heard \in SA!Time BY <1>t, AlignmentSizes DEF SA!Time
<1>5. r \in SA!Reading BY <1>3, <1>4 DEF SA!Reading
<1>6. r # SA!NoReading
  <2>1. DOMAIN r # DOMAIN SA!NoReading
    <3>1. "time" \in DOMAIN r /\ ~ ("time" \in DOMAIN SA!NoReading) BY DEF SA!NoReading
    <3> QED BY <3>1
  <2> QED BY <2>1
<1>7. r.time = t /\ r.seq = update + 1 OBVIOUS
<1> HIDE DEF r
<1>8. /\ readings' \in Cells /\ readings'[c][s] = r
      /\ \A e \in Charger, u \in Sensor : ~ (e = c /\ u = s) => readings'[e][u] = SA!Kept[e][u]
  BY <1>1, <1>2, <1>5 DEF Cells
<1>9. /\ watermarks' \in Marks /\ watermarks'[c][s] = t
      /\ \A e \in Charger, u \in Sensor : ~ (e = c /\ u = s) => watermarks'[e][u] = watermarks[e][u]
  BY <1>1, <1>t DEF Marks
<1>10. CASE SA!Emits(readings'[c], SA!Versions[c])
  <2>1. /\ versions' = [SA!Versions EXCEPT ![c] = [u \in Sensor |-> readings'[c][u].seq]]
        /\ vector' = [vector EXCEPT ![c] = [u \in Sensor |-> readings'[c][u].time]] BY <1>10 DEF SA!Update
  <2>2. /\ \A u \in Sensor : readings'[c][u] # SA!NoReading
        /\ \A u \in Sensor : now - readings'[c][u].time <= MaxAge
        /\ \A u, v \in Sensor : readings'[c][u].time - readings'[c][v].time <= MaxSkew
        /\ \A u \in Sensor : readings'[c][u].seq > SA!Versions[c][u] BY <1>10 DEF SA!Emits, SA!AllNew
  <2>3. \A u \in Sensor : readings'[c][u] \in SA!Reading BY <2>2, <1>8 DEF Cells
  <2>4. \A u \in Sensor : readings'[c][u].seq \in 0 .. MaxUpdates /\ readings'[c][u].time \in SA!Time
    BY <2>3 DEF SA!Reading
  <2>5. versions' \in Numbers /\ vector' \in Marks
    <3>1. [u \in Sensor |-> readings'[c][u].seq] \in [Sensor -> 0 .. MaxUpdates] BY <2>4
    <3>2. [u \in Sensor |-> readings'[c][u].time] \in [Sensor -> SA!Time \cup {SA!Never}] BY <2>4
    <3> QED BY <3>1, <3>2, <2>1, <1>2, <1>t DEF Numbers, Marks
  <2>6. \A u \in Sensor : versions'[c][u] = readings'[c][u].seq /\ vector'[c][u] = readings'[c][u].time
    BY <2>1, <1>2, <1>t DEF Numbers, Marks
  <2>7. \A e \in Charger \ {c} : vector'[e] = vector[e] /\ versions'[e] = SA!Versions[e]
    BY <2>1, <1>2, <1>t DEF Numbers, Marks
  <2>8. \A u \in Sensor \ {s} : readings'[c][u].seq > versions[c][u]
    <3> SUFFICES ASSUME NEW u \in Sensor \ {s} PROVE readings'[c][u].seq > versions[c][u] OBVIOUS
    <3>1. readings'[c][u] = SA!Kept[c][u] /\ readings'[c][u] # SA!NoReading BY <1>8, <2>2
    <3>2. SA!Versions[c] = versions[c] BY <3>1, <1>2
    <3> QED BY <3>2, <2>2
  <2>9. Takes(c, s) BY <2>2, <2>5, <2>6, <2>7, <2>8, <1>1, <1>2, <1>6, <1>7, <1>8, <1>9 DEF Takes
  <2> QED BY <2>5, <2>9, <1>1, <1>3, <1>8, <1>9, <1>t DEF SA!AlignmentTypeOK, Cells, Marks, Numbers
<1>11. CASE ~ SA!Emits(readings'[c], SA!Versions[c])
  <2>1. versions' = SA!Versions /\ vector' = vector BY <1>11 DEF SA!Update
  <2>2. \A u \in Sensor \ {s} : readings'[c][u] # SA!NoReading => versions'[c] = versions[c]
    BY <2>1, <1>2, <1>8
  <2>3. Takes(c, s) BY <2>1, <2>2, <1>1, <1>2, <1>6, <1>7, <1>8, <1>9, <1>t DEF Takes
  <2> QED
    BY <2>1, <2>3, <1>1, <1>2, <1>3, <1>8, <1>9, <1>t DEF SA!AlignmentTypeOK, Cells, Marks, Numbers
<1> QED BY <1>10, <1>11, <1>1

\* A reading that is taken keeps the invariant, and what is emitted with it goes forward.
LEMMA TakesKeeps ==
  ASSUME AlignmentWhole, NEW c \in Charger, NEW s \in Sensor, Takes(c, s), SA!AlignmentTypeOK',
         UNCHANGED <<now, image>>
  PROVE  /\ AlignmentWhole'
         /\ vector' # vector =>
              /\ \A e \in Charger \ {c} : vector'[e] = vector[e]
              /\ \A u \in Sensor : vector'[c][u] > vector[c][u] /\ now - vector'[c][u] <= MaxAge
              /\ \A u, v \in Sensor : vector'[c][u] - vector'[c][v] <= MaxSkew
<1>t. /\ readings \in Cells /\ watermarks \in Marks /\ versions \in Numbers /\ vector \in Marks
      /\ readings' \in Cells /\ watermarks' \in Marks /\ versions' \in Numbers /\ vector' \in Marks
  BY DEF AlignmentWhole, SA!AlignmentTypeOK, Cells, Marks, Numbers, Takes
<1>w. SA!WithinWatermarks /\ NewIsLater BY DEF AlignmentWhole
<1>i. \A e \in Charger, u \in Sensor :
        /\ watermarks[e][u] \in Int /\ watermarks'[e][u] \in Int
        /\ vector[e][u] \in Int /\ vector'[e][u] \in Int
        /\ versions[e][u] \in Int /\ versions'[e][u] \in Int
        /\ readings'[e][u] # SA!NoReading => readings'[e][u].time \in Int /\ readings'[e][u].seq \in Int
  <2> SUFFICES ASSUME NEW e \in Charger, NEW u \in Sensor
               PROVE  /\ watermarks[e][u] \in Int /\ watermarks'[e][u] \in Int
                      /\ vector[e][u] \in Int /\ vector'[e][u] \in Int
                      /\ versions[e][u] \in Int /\ versions'[e][u] \in Int
                      /\ readings'[e][u] # SA!NoReading =>
                           readings'[e][u].time \in Int /\ readings'[e][u].seq \in Int OBVIOUS
  <2>1. \A t \in SA!Time \cup {SA!Never} : t \in Int BY AlignmentSizes DEF SA!Never
  <2>2. readings'[e][u] # SA!NoReading => readings'[e][u] \in SA!Reading BY <1>t DEF Cells
  <2>3. readings'[e][u] \in SA!Reading =>
          readings'[e][u].time \in SA!Time /\ readings'[e][u].seq \in 1 .. MaxUpdates BY DEF SA!Reading
  <2> QED BY <1>t, <2>1, <2>2, <2>3, AlignmentSizes DEF Marks, Numbers
<1>1. /\ readings'[c][s].time > watermarks[c][s] /\ watermarks'[c][s] = readings'[c][s].time
      /\ readings'[c][s] # SA!NoReading BY DEF Takes
<1>2. \A e \in Charger, u \in Sensor : ~ (e = c /\ u = s) =>
        /\ watermarks'[e][u] = watermarks[e][u]
        /\ readings'[e][u] # SA!NoReading => readings'[e][u] = readings[e][u] BY DEF Takes
<1>3. \A e \in Charger \ {c} :
        /\ vector'[e] = vector[e]
        /\ \A u \in Sensor : readings'[e][u] # SA!NoReading => versions'[e] = versions[e] BY DEF Takes
<1>4. \A u \in Sensor : vector[c][u] <= watermarks[c][u] BY <1>w DEF SA!WithinWatermarks
<1>5. \A e \in Charger, u \in Sensor : readings[e][u] # SA!NoReading => readings[e][u].time <= watermarks[e][u]
  BY <1>w DEF SA!WithinWatermarks
<1>6. \A e \in Charger, u \in Sensor : readings'[e][u] # SA!NoReading => readings'[e][u].time <= watermarks'[e][u]
  <2> SUFFICES ASSUME NEW e \in Charger, NEW u \in Sensor, readings'[e][u] # SA!NoReading
               PROVE  readings'[e][u].time <= watermarks'[e][u] OBVIOUS
  <2>1. CASE e = c /\ u = s BY <2>1, <1>1, <1>i
  <2>2. CASE ~ (e = c /\ u = s) BY <2>2, <1>2, <1>5
  <2> QED BY <2>1, <2>2
<1>im. \A e \in Charger, u \in Sensor : image'.vector[e][u] <= image'.watermarks[e][u]
  BY <1>w DEF SA!WithinWatermarks
<1>7. CASE /\ vector' = vector
           /\ \A u \in Sensor \ {s} : readings'[c][u] # SA!NoReading => versions'[c] = versions[c]
  <2>1. \A e \in Charger, u \in Sensor : vector'[e][u] <= watermarks'[e][u]
    <3> SUFFICES ASSUME NEW e \in Charger, NEW u \in Sensor
                 PROVE  vector'[e][u] <= watermarks'[e][u] OBVIOUS
    <3>1. vector[e][u] <= watermarks[e][u] BY <1>w DEF SA!WithinWatermarks
    <3>2. CASE e = c /\ u = s BY <3>1, <3>2, <1>1, <1>7, <1>i
    <3>3. CASE ~ (e = c /\ u = s) BY <3>1, <3>3, <1>2, <1>7
    <3> QED BY <3>2, <3>3
  <2>2. SA!WithinWatermarks' BY <2>1, <1>6, <1>im DEF SA!WithinWatermarks
  <2>3. NewIsLater'
    <3> SUFFICES ASSUME NEW e \in Charger, NEW u \in Sensor, readings'[e][u] # SA!NoReading,
                        readings'[e][u].seq > versions'[e][u]
                 PROVE  readings'[e][u].time > vector'[e][u] BY DEF NewIsLater
    <3>1. CASE e = c /\ u = s
      <4>1. vector[c][s] <= watermarks[c][s] BY <1>4
      <4> QED BY <3>1, <4>1, <1>1, <1>7, <1>i
    <3>2. CASE ~ (e = c /\ u = s)
      <4>1. readings'[e][u] = readings[e][u] /\ versions'[e] = versions[e] BY <3>2, <1>2, <1>3, <1>7
      <4> QED BY <4>1, <1>w, <1>7 DEF NewIsLater
    <3> QED BY <3>1, <3>2
  <2> QED BY <2>2, <2>3, <1>7 DEF AlignmentWhole
<1>8. CASE /\ \A u \in Sensor :
                /\ versions'[c][u] = readings'[c][u].seq /\ vector'[c][u] = readings'[c][u].time
                /\ readings'[c][u] # SA!NoReading
                /\ now - readings'[c][u].time <= MaxAge
           /\ \A u, v \in Sensor : readings'[c][u].time - readings'[c][v].time <= MaxSkew
           /\ \A u \in Sensor \ {s} : readings'[c][u].seq > versions[c][u]
  <2>1. \A e \in Charger, u \in Sensor : vector'[e][u] <= watermarks'[e][u]
    <3> SUFFICES ASSUME NEW e \in Charger, NEW u \in Sensor
                 PROVE  vector'[e][u] <= watermarks'[e][u] OBVIOUS
    <3>1. CASE e = c BY <3>1, <1>6, <1>8
    <3>2. CASE e # c
      <4>1. vector[e][u] <= watermarks[e][u] BY <1>w DEF SA!WithinWatermarks
      <4> QED BY <4>1, <3>2, <1>2, <1>3
    <3> QED BY <3>1, <3>2
  <2>2. SA!WithinWatermarks' BY <2>1, <1>6, <1>im DEF SA!WithinWatermarks
  <2>3. NewIsLater'
    <3> SUFFICES ASSUME NEW e \in Charger, NEW u \in Sensor, readings'[e][u] # SA!NoReading,
                        readings'[e][u].seq > versions'[e][u]
                 PROVE  readings'[e][u].time > vector'[e][u] BY DEF NewIsLater
    <3>1. CASE e = c BY <3>1, <1>8, <1>i
    <3>2. CASE e # c
      <4>1. readings'[e][u] = readings[e][u] /\ versions'[e] = versions[e] /\ vector'[e] = vector[e]
        BY <3>2, <1>2, <1>3
      <4> QED BY <4>1, <1>w DEF NewIsLater
    <3> QED BY <3>1, <3>2
  <2>4. \A u \in Sensor : vector'[c][u] > vector[c][u]
    <3> SUFFICES ASSUME NEW u \in Sensor PROVE vector'[c][u] > vector[c][u] OBVIOUS
    <3>1. CASE u = s
      <4>1. vector[c][s] <= watermarks[c][s] BY <1>4
      <4> QED BY <3>1, <4>1, <1>1, <1>8, <1>i
    <3>2. CASE u # s
      <4>1. readings'[c][u] = readings[c][u] /\ readings'[c][u].seq > versions[c][u] BY <3>2, <1>2, <1>8
      <4> QED BY <4>1, <1>w, <1>8 DEF NewIsLater
    <3> QED BY <3>1, <3>2
  <2> QED BY <2>2, <2>3, <2>4, <1>3, <1>8 DEF AlignmentWhole
<1> QED BY <1>7, <1>8 DEF Takes

\* No step of the alignment breaks the invariant, and none takes the detector back in time.
LEMMA AlignmentSteps ==
  ASSUME AlignmentWhole, SA!Next \/ UNCHANGED SA!vars
  PROVE  /\ AlignmentWhole'
         /\ SA!VectorsGoForward
<1>1. CASE UNCHANGED SA!vars
  <2>1. UNCHANGED <<now, readings, watermarks, versions, update, cleaned, vector, image>> BY <1>1 DEF SA!vars
  <2> QED BY <2>1 DEF AlignmentWhole, SA!AlignmentTypeOK, SA!WithinWatermarks, NewIsLater, SA!VectorsGoForward
<1>2. CASE SA!Tick
  <2>1. vector' = vector BY <1>2 DEF SA!Tick
  <2> QED BY <2>1, <1>2, TickKeeps DEF SA!VectorsGoForward
<1>3. CASE SA!Save
  <2>1. vector' = vector BY <1>3 DEF SA!Save
  <2> QED BY <2>1, <1>3, SaveKeeps DEF SA!VectorsGoForward
<1>4. CASE SA!Restart
  <2>1. vector' = image.vector BY <1>4 DEF SA!Restart
  <2> QED BY <2>1, <1>4, RestartKeeps DEF SA!VectorsGoForward
<1>5. CASE \E c \in Charger, s \in Sensor, t \in SA!Time, heard \in 0 .. now, number \in BOOLEAN :
             SA!Update(c, s, t, heard, number)
  <2>1. PICK c \in Charger, s \in Sensor, t \in SA!Time, heard \in 0 .. now, number \in BOOLEAN :
          SA!Update(c, s, t, heard, number) BY <1>5
  <2>2. Takes(c, s) /\ SA!AlignmentTypeOK' /\ UNCHANGED <<now, image>> BY <2>1, UpdateTakes
  <2>3. /\ AlignmentWhole'
        /\ vector' # vector =>
             /\ \A e \in Charger \ {c} : vector'[e] = vector[e]
             /\ \A u \in Sensor : vector'[c][u] > vector[c][u] /\ now - vector'[c][u] <= MaxAge
             /\ \A u, v \in Sensor : vector'[c][u] - vector'[c][v] <= MaxSkew BY <2>2, TakesKeeps
  <2> QED BY <2>3 DEF SA!VectorsGoForward
<1> QED BY <1>1, <1>2, <1>3, <1>4, <1>5 DEF SA!Next

(* The counters of a detector.                                             *)

\* What a snapshot counts.
Counters(s) ==
  /\ {"processed", "withheld", "discarded", "warm", "crossed", "active", "position", "alarms"} \subseteq DOMAIN s
  /\ s.processed \in Nat /\ s.withheld \in Nat /\ s.discarded \in Nat /\ s.warm \in Nat
  /\ s.crossed \in Seq(BOOLEAN) /\ s.active \in BOOLEAN /\ s.alarms \in Nat /\ s.position \in 0 .. Horizon

\* The observations that a model is made from.
Learned(kind, s) ==
  IF kind = "static" /\ s.model # DR!NoModel THEN Len(s.model[1]) + Len(s.model[2])
  ELSE Len(s.train) + Len(s.calib)

\* All but nr observations are accounted for.
AllBut(nr, kind, s) ==
  s.processed = nr + s.withheld + s.discarded + s.warm + Len(s.crossed) + Learned(kind, s)

\* Where a window of the horizon begins, or the value before did not cross, an alarm is raised.
Raised(s, i) == s[i] /\ ((i - 1) % Horizon = 0 \/ ~s[i - 1])

\* The alarms that were raised are those that were counted, and the next one is decided by where
\* the horizon and the last value are.
Alarmed(s) ==
  /\ s.alarms = Cardinality({i \in DOMAIN s.crossed : Raised(s.crossed, i)})
  /\ IF s.crossed = <<>> THEN s.position = 0 /\ s.active = FALSE
     ELSE /\ s.active = s.crossed[Len(s.crossed)] /\ s.position > 0
          /\ Len(s.crossed) % Horizon = IF s.position = Horizon THEN 0 ELSE s.position

\* What is counted is right, and a stream trains on no window.
CountedRight(kind, s) ==
  /\ Counters(s) /\ AllBut(0, kind, s)
  /\ kind = "static" => Alarmed(s)
  /\ kind = "adaptive" => s.train = <<>>

\* The inductive invariant of the counters, beside the one of the detector.
DetectorCounted ==
  /\ CountedRight(strategy, d) /\ CountedRight(strategy, frozen)
  /\ {"status", "of"} \subseteq DOMAIN fit /\ fit.status \in {"none", "running", "done", "broken"}
  /\ seen \in 0 .. MaxSeen /\ dead \in BOOLEAN

\* The horizon is a number of values, and a number of observations is bounded.
LEMMA HorizonSizes == Horizon \in Nat \ {0} /\ MaxSeen \in Nat
BY ModelAssumption DEF DR!DetectorAssumption

\* What is left of a whole number of windows.
LEMMA LeftOfWindows ==
  ASSUME NEW h \in Nat \ {0}, NEW q \in Int, NEW r \in 0 .. h - 1
  PROVE  (h * q + r) % h = r
OBVIOUS

\* The place in a window goes round.
LEMMA WindowGoesRound ==
  ASSUME NEW h \in Nat \ {0}, NEW nr \in Nat
  PROVE  /\ nr % h \in 0 .. h - 1 /\ 0 % h = 0
         /\ (nr + 1) % h = IF nr % h = h - 1 THEN 0 ELSE (nr % h) + 1
<1>1. nr % h \in 0 .. h - 1 OBVIOUS
<1>2. 0 % h = 0 OBVIOUS
<1>3. nr % h = nr - h * (nr \div h) /\ nr \div h \in Int OBVIOUS
<1>4. PICK q \in Int, r \in 0 .. h - 1 : nr = h * q + r /\ r = nr % h
  <2>1. PICK q \in Int : q = nr \div h BY <1>3
  <2>2. PICK r \in 0 .. h - 1 : r = nr % h BY <1>1
  <2>3. PICK p \in Int : p = h * q OBVIOUS
  <2>4. r = nr - p BY <1>3, <2>1, <2>2, <2>3
  <2>5. nr = p + r BY <2>4
  <2> QED BY <2>2, <2>3, <2>5
<1>5. CASE r = h - 1
  <2>1. nr + 1 = h * (q + 1) + 0 BY <1>4, <1>5
  <2>2. (h * (q + 1) + 0) % h = 0 BY LeftOfWindows
  <2> QED BY <1>1, <1>2, <1>4, <1>5, <2>1, <2>2
<1>6. CASE r # h - 1
  <2>1. nr + 1 = h * q + (r + 1) /\ r + 1 \in 0 .. h - 1 BY <1>4, <1>6
  <2>2. (h * q + (r + 1)) % h = r + 1 BY <2>1, LeftOfWindows
  <2> QED BY <1>1, <1>2, <1>4, <1>6, <2>1, <2>2
<1> QED BY <1>5, <1>6

\* A value that is tested counts as an alarm when it is raised.
LEMMA TestedCounts ==
  ASSUME NEW s, Holds(s), Counters(s), Alarmed(s), NEW crosses \in BOOLEAN
  PROVE  LET r == DR!Tested(s, crosses) IN
         /\ Counters(r) /\ Alarmed(r) /\ r.crossed = Append(s.crossed, crosses)
         /\ r.processed = s.processed /\ r.withheld = s.withheld /\ r.discarded = s.discarded
         /\ r.warm = s.warm /\ r.train = s.train /\ r.calib = s.calib /\ r.model = s.model
<1> DEFINE r == DR!Tested(s, crosses)
           renewed == s.position >= Horizon
           fires == crosses /\ (renewed \/ ~s.active)
           nr == Len(s.crossed)
           before == {i \in DOMAIN s.crossed : Raised(s.crossed, i)}
           after == {i \in DOMAIN r.crossed : Raised(r.crossed, i)}
<1>1. s.crossed \in Seq(BOOLEAN) /\ nr \in Nat /\ s.position \in 0 .. Horizon /\ s.active \in BOOLEAN /\ s.alarms \in Nat
  BY DEF Counters
<1>2. /\ r.crossed = Append(s.crossed, crosses) /\ r.active = crosses
      /\ r.position = IF renewed THEN 1 ELSE s.position + 1
      /\ r.alarms = IF fires THEN s.alarms + 1 ELSE s.alarms
      /\ r.processed = s.processed /\ r.withheld = s.withheld /\ r.discarded = s.discarded
      /\ r.warm = s.warm /\ r.train = s.train /\ r.calib = s.calib /\ r.model = s.model
      /\ DOMAIN r = DOMAIN s BY DEF DR!Tested, Counters, Holds
<1> HIDE DEF r
<1>3. /\ r.crossed \in Seq(BOOLEAN) /\ Len(r.crossed) = nr + 1 /\ DOMAIN r.crossed = 1 .. nr + 1
      /\ DOMAIN s.crossed = 1 .. nr /\ r.crossed[nr + 1] = crosses
      /\ \A i \in 1 .. nr : r.crossed[i] = s.crossed[i] BY <1>1, <1>2
<1>4. r.position \in 0 .. Horizon BY <1>1, <1>2, HorizonSizes
<1>5. Counters(r) BY <1>1, <1>2, <1>3, <1>4 DEF Counters
<1>6. \A i \in 1 .. nr : Raised(r.crossed, i) <=> Raised(s.crossed, i)
  <2> SUFFICES ASSUME NEW i \in 1 .. nr PROVE Raised(r.crossed, i) <=> Raised(s.crossed, i) OBVIOUS
  <2>1. CASE i = 1
    <3>1. (i - 1) % Horizon = 0 BY <2>1, HorizonSizes, WindowGoesRound
    <3> QED BY <1>3, <3>1 DEF Raised
  <2>2. CASE i # 1
    <3>1. i - 1 \in 1 .. nr BY <1>1, <2>2
    <3> QED BY <1>3, <3>1 DEF Raised
  <2> QED BY <2>1, <2>2
<1>7. Raised(r.crossed, nr + 1) <=> fires
  <2>1. (nr + 1) - 1 = nr BY <1>1
  <2>2. CASE s.crossed = <<>>
    <3>1. nr = 0 /\ s.position = 0 /\ s.active = FALSE BY <2>2 DEF Alarmed
    <3>2. nr % Horizon = 0 BY <3>1, HorizonSizes, WindowGoesRound
    <3> QED BY <1>3, <2>1, <3>1, <3>2 DEF Raised
  <2>3. CASE s.crossed # <<>>
    <3>1. nr \in 1 .. nr BY <1>1, <2>3
    <3>2. r.crossed[nr] = s.active BY <1>3, <2>3, <3>1 DEF Alarmed
    <3>3. nr % Horizon = (IF s.position = Horizon THEN 0 ELSE s.position) /\ s.position > 0
      BY <2>3 DEF Alarmed
    <3>4. nr % Horizon = 0 <=> renewed
      <4>1. PICK m : m = nr % Horizon OBVIOUS
      <4>2. m = (IF s.position = Horizon THEN 0 ELSE s.position) /\ s.position > 0 BY <3>3, <4>1
      <4>3. m = 0 <=> renewed BY <1>1, <4>2, HorizonSizes
      <4> QED BY <4>1, <4>3
    <3> QED BY <1>3, <2>1, <3>2, <3>4 DEF Raised
  <2> QED BY <2>2, <2>3
<1>8. after = IF fires THEN before \cup {nr + 1} ELSE before
  <2>1. \A i \in 1 .. nr + 1 : i \in 1 .. nr \/ i = nr + 1 BY <1>1
  <2>2. 1 .. nr \subseteq 1 .. nr + 1 /\ nr + 1 \in 1 .. nr + 1 /\ nr + 1 \notin 1 .. nr BY <1>1
  <2> QED BY <1>3, <1>6, <1>7, <2>1, <2>2
<1>9. Cardinality(after) = r.alarms
  <2>1. IsFiniteSet(1 .. nr)
    <3>1. 1 \in Int /\ nr \in Int BY <1>1
    <3> QED BY <3>1, FS_Interval
  <2>2. IsFiniteSet(before) /\ nr + 1 \notin before
    <3>1. before \subseteq 1 .. nr BY <1>3
    <3>2. nr + 1 \notin 1 .. nr BY <1>1
    <3> QED BY <2>1, <3>1, <3>2, FS_Subset
  <2>3. Cardinality(before \cup {nr + 1}) = Cardinality(before) + 1 BY <2>2, FS_AddElement
  <2>4. Cardinality(before) = s.alarms BY DEF Alarmed
  <2> QED BY <1>2, <1>8, <2>3, <2>4
<1>10. (nr + 1) % Horizon = IF r.position = Horizon THEN 0 ELSE r.position
  <2>1. (nr + 1) % Horizon = IF nr % Horizon = Horizon - 1 THEN 0 ELSE (nr % Horizon) + 1
    BY <1>1, HorizonSizes, WindowGoesRound
  <2>2. nr % Horizon = IF s.position = Horizon THEN 0 ELSE s.position
    <3>1. CASE s.crossed = <<>>
      <4>1. nr = 0 /\ s.position = 0 BY <3>1 DEF Alarmed
      <4>2. nr % Horizon = 0 BY <4>1, HorizonSizes, WindowGoesRound
      <4> QED BY <4>1, <4>2, HorizonSizes
    <3>2. CASE s.crossed # <<>> BY <3>2 DEF Alarmed
    <3> QED BY <3>1, <3>2
  <2>3. renewed <=> s.position = Horizon BY <1>1, HorizonSizes
  <2>4. CASE s.position = Horizon
    <3>1. nr % Horizon = 0 /\ r.position = 1 BY <1>2, <2>2, <2>3, <2>4
    <3>2. PICK m : m = (nr + 1) % Horizon OBVIOUS
    <3>3. m = IF 0 = Horizon - 1 THEN 0 ELSE 0 + 1 BY <2>1, <3>1, <3>2
    <3>4. m = IF r.position = Horizon THEN 0 ELSE r.position
      <4>1. r.position = 1 BY <3>1
      <4> QED BY <3>3, <4>1, HorizonSizes
    <3> QED BY <3>2, <3>4
  <2>5. CASE s.position # Horizon
    <3>1. nr % Horizon = s.position /\ r.position = s.position + 1 BY <1>2, <2>2, <2>3, <2>5
    <3>2. PICK m : m = (nr + 1) % Horizon OBVIOUS
    <3>3. m = IF s.position = Horizon - 1 THEN 0 ELSE s.position + 1 BY <2>1, <3>1, <3>2
    <3>4. m = IF r.position = Horizon THEN 0 ELSE r.position
      <4>1. r.position = s.position + 1 /\ s.position \in 0 .. Horizon BY <1>1, <3>1
      <4> QED BY <3>3, <4>1, HorizonSizes
    <3> QED BY <3>2, <3>4
  <2> QED BY <2>4, <2>5
<1>11. r.crossed # <<>> /\ r.active = r.crossed[Len(r.crossed)] /\ r.position > 0
  BY <1>1, <1>2, <1>3, HorizonSizes
<1>12. Alarmed(r) BY <1>3, <1>9, <1>10, <1>11 DEF Alarmed
<1>13. /\ Counters(r) /\ Alarmed(r) /\ r.crossed = Append(s.crossed, crosses)
       /\ r.processed = s.processed /\ r.withheld = s.withheld /\ r.discarded = s.discarded
       /\ r.warm = s.warm /\ r.train = s.train /\ r.calib = s.calib /\ r.model = s.model BY <1>2, <1>5, <1>12
<1> QED BY <1>13 DEF r

\* Nothing that is counted differs but how many were processed and withheld.
SameCounts(s, r) ==
  /\ r.discarded = s.discarded /\ r.warm = s.warm /\ r.crossed = s.crossed /\ r.active = s.active
  /\ r.position = s.position /\ r.alarms = s.alarms

\* What has the same tests has the same alarms.
LEMMA SameAlarms ==
  ASSUME NEW s, NEW r, SameCounts(s, r), Alarmed(s)
  PROVE  Alarmed(r)
BY DEF SameCounts, Alarmed

\* What is counted, kind by kind.
Tally(kind, s, w, x, m, c, l) ==
  s.withheld = w /\ s.discarded = x /\ s.warm = m /\ Len(s.crossed) = c /\ Learned(kind, s) = l

\* One that was left is counted as one of one kind.
LEMMA OneOfOneKind ==
  ASSUME NEW kind, NEW s, NEW r, AllBut(1, kind, s), r.processed = s.processed,
         NEW w \in Nat, NEW x \in Nat, NEW m \in Nat, NEW c \in Nat, NEW l \in Nat, Tally(kind, s, w, x, m, c, l),
         \/ Tally(kind, r, w, x + 1, m, c, l) \/ Tally(kind, r, w, x, m + 1, c, l)
         \/ Tally(kind, r, w, x, m, c + 1, l) \/ Tally(kind, r, w, x, m, c, l + 1)
  PROVE  AllBut(0, kind, r)
<1>1. r.processed = 1 + w + x + m + c + l BY DEF AllBut, Tally
<1>2. CASE Tally(kind, r, w, x + 1, m, c, l)
  <2>1. r.processed = 0 + w + (x + 1) + m + c + l BY <1>1
  <2> QED BY <1>2, <2>1 DEF AllBut, Tally
<1>3. CASE Tally(kind, r, w, x, m + 1, c, l)
  <2>1. r.processed = 0 + w + x + (m + 1) + c + l BY <1>1
  <2> QED BY <1>3, <2>1 DEF AllBut, Tally
<1>4. CASE Tally(kind, r, w, x, m, c + 1, l)
  <2>1. r.processed = 0 + w + x + m + (c + 1) + l BY <1>1
  <2> QED BY <1>4, <2>1 DEF AllBut, Tally
<1>5. CASE Tally(kind, r, w, x, m, c, l + 1)
  <2>1. r.processed = 0 + w + x + m + c + (l + 1) BY <1>1
  <2> QED BY <1>5, <2>1 DEF AllBut, Tally
<1> QED BY <1>2, <1>3, <1>4, <1>5

\* Lengths are numbers.
LEMMA LearnedNumbers ==
  ASSUME NEW k \in Nat, NEW kind \in {"static", "adaptive"}, NEW s, Whole(kind, s, k), s.train \in Seq(Nat)
  PROVE  Learned(kind, s) \in Nat
<1>1. CASE kind = "static" /\ s.model # DR!NoModel
  <2>1. Len(s.model[1]) = TrainingWindow /\ Len(s.model[2]) = CalibrationWindow
    BY <1>1 DEF Whole, StaticWhole, StaticModel
  <2> QED BY <1>1, <2>1, DetectorSizes DEF Learned
<1>2. CASE ~ (kind = "static" /\ s.model # DR!NoModel)
  <2>1. s.calib \in Seq(Nat) BY DEF Whole, StaticWhole, AdaptiveWhole, Rising
  <2>2. Len(s.train) \in Nat /\ Len(s.calib) \in Nat BY <2>1
  <2>3. Learned(kind, s) = Len(s.train) + Len(s.calib) BY <1>2 DEF Learned
  <2>4. PICK a \in Nat, b \in Nat : a = Len(s.train) /\ b = Len(s.calib) BY <2>2
  <2>5. Learned(kind, s) = a + b BY <2>3, <2>4
  <2> QED BY <2>5
<1> QED BY <1>1, <1>2

\* An observation that is counted first is one to be accounted for; one that is withheld is.
LEMMA CountedFirst ==
  ASSUME NEW s, Holds(s), Counters(s), NEW kind, AllBut(0, kind, s), Learned(kind, s) \in Nat
  PROVE  /\ LET r == DR!Processed(s) IN
            Counters(r) /\ AllBut(1, kind, r) /\ SameCounts(s, r) /\ Learned(kind, r) = Learned(kind, s)
         /\ LET r == DR!HeldBack(s) IN Counters(r) /\ AllBut(0, kind, r) /\ SameCounts(s, r)
<1> DEFINE p == DR!Processed(s)  h == DR!HeldBack(s)
<1>1. /\ DOMAIN p = DOMAIN s /\ p.processed = s.processed + 1 /\ p.withheld = s.withheld /\ p.train = s.train
      /\ p.calib = s.calib /\ p.model = s.model /\ SameCounts(s, p)
  BY DEF DR!Processed, Counters, Holds, SameCounts
<1>2. h = [p EXCEPT !.withheld = @ + 1] BY DEF DR!HeldBack
<1> HIDE DEF p
<1>3. /\ DOMAIN h = DOMAIN s /\ h.processed = s.processed + 1 /\ h.withheld = s.withheld + 1 /\ h.train = s.train
      /\ h.calib = s.calib /\ h.model = s.model /\ SameCounts(s, h)
  BY <1>1, <1>2 DEF Counters, Holds, SameCounts
<1> HIDE DEF h
<1>4. s.processed \in Nat /\ s.withheld \in Nat /\ s.discarded \in Nat /\ s.warm \in Nat /\ Len(s.crossed) \in Nat
  BY DEF Counters
<1>5. Counters(p) /\ Counters(h) BY <1>1, <1>3 DEF Counters, SameCounts
<1>6. Learned(kind, p) = Learned(kind, s) /\ Learned(kind, h) = Learned(kind, s) BY <1>1, <1>3 DEF Learned
<1>9. PICK w \in Nat, x \in Nat, m \in Nat, c \in Nat, l \in Nat : Tally(kind, s, w, x, m, c, l)
  BY <1>4 DEF Tally
<1>10. s.processed = 0 + w + x + m + c + l BY <1>9 DEF AllBut, Tally
<1>7. AllBut(1, kind, p)
  <2>1. p.processed = 1 + w + x + m + c + l BY <1>1, <1>10
  <2> QED BY <1>1, <1>6, <1>9, <2>1 DEF AllBut, SameCounts, Tally
<1>8. AllBut(0, kind, h)
  <2>1. h.processed = 0 + (w + 1) + x + m + c + l BY <1>3, <1>10
  <2> QED BY <1>3, <1>6, <1>9, <2>1 DEF AllBut, SameCounts, Tally
<1> QED BY <1>1, <1>3, <1>5, <1>6, <1>7, <1>8 DEF p, h

\* What a row does to the counters of a baseline.
LEMMA LearntCounts ==
  ASSUME NEW k \in Nat, NEW s, Whole("static", s, k), Counters(s), AllBut(1, "static", s), Alarmed(s),
         s.phase \in {"collecting", "calibrating", "training", "ready"}, NEW crosses \in BOOLEAN
  PROVE  CountedRight("static", DR!Learnt(s, crosses))
<1> DEFINE r == DR!Learnt(s, crosses)
<1>1. Holds(s) /\ s.train \in Seq(Nat) /\ s.calib \in Seq(Nat) BY DEF Whole, StaticWhole
<1>2. /\ s.processed \in Nat /\ s.withheld \in Nat /\ s.discarded \in Nat /\ s.warm \in Nat
      /\ Len(s.crossed) \in Nat /\ Len(s.train) \in Nat /\ Len(s.calib) \in Nat BY <1>1 DEF Counters
<1>8. Learned("static", s) \in Nat BY <1>1, LearnedNumbers
<1>9. PICK w \in Nat, x \in Nat, m \in Nat, c \in Nat, l \in Nat : Tally("static", s, w, x, m, c, l)
  BY <1>2, <1>8 DEF Tally
<1>4. CASE s.phase = "collecting"
  <2> DEFINE v == Append(s.train, seen')
  <2>1. r = [s EXCEPT !.train = v,
                      !.phase = IF Len(v) >= TrainingWindow THEN "calibrating" ELSE @] BY <1>4 DEF DR!Learnt
  <2> HIDE DEF v, r
  <2>2. /\ DOMAIN r = DOMAIN s /\ r.processed = s.processed /\ r.withheld = s.withheld /\ SameCounts(s, r)
        /\ r.train = v /\ r.calib = s.calib /\ r.model = s.model
    BY <2>1, <1>1 DEF Holds, Counters, SameCounts
  <2>3. s.model = DR!NoModel BY <1>4 DEF Whole, StaticWhole
  <2>4. Len(v) = Len(s.train) + 1
    <3>1. \A t \in Seq(Nat) : \A z : Len(Append(t, z)) = Len(t) + 1 BY AppendProperties, Windows
    <3> QED BY <1>1, <3>1 DEF v
  <2>5. Learned("static", s) = Len(s.train) + Len(s.calib) BY <2>3 DEF Learned
  <2>6. Learned("static", r) = Len(r.train) + Len(r.calib) BY <2>2, <2>3 DEF Learned
  <2>7. AllBut(0, "static", r)
    <3>1. PICK e \in Nat, f \in Nat : e = Len(s.train) /\ f = Len(s.calib) BY <1>2
    <3>2. l = e + f BY <1>9, <2>5, <3>1 DEF Tally
    <3>3. Learned("static", r) = l + 1
      <4>1. Learned("static", r) = (e + 1) + f BY <2>2, <2>4, <2>6, <3>1
      <4> QED BY <3>2, <4>1
    <3>4. Tally("static", r, w, x, m, c, l + 1) BY <1>9, <2>2, <3>3 DEF Tally, SameCounts
    <3> QED BY <1>9, <2>2, <3>4, OneOfOneKind
  <2>8. Counters(r) /\ Alarmed(r) BY <2>2, SameAlarms DEF Counters, SameCounts
  <2> QED BY <2>7, <2>8 DEF CountedRight, r
<1>5. CASE s.phase = "calibrating"
  <2> DEFINE v == Append(s.calib, seen')
  <2>1. r = [s EXCEPT !.calib = v,
                      !.phase = IF Len(v) >= CalibrationWindow THEN "training" ELSE @] BY <1>5 DEF DR!Learnt
  <2> HIDE DEF v, r
  <2>2. /\ DOMAIN r = DOMAIN s /\ r.processed = s.processed /\ r.withheld = s.withheld /\ SameCounts(s, r)
        /\ r.train = s.train /\ r.calib = v /\ r.model = s.model
    BY <2>1, <1>1 DEF Holds, Counters, SameCounts
  <2>3. s.model = DR!NoModel BY <1>5 DEF Whole, StaticWhole
  <2>4. Len(v) = Len(s.calib) + 1
    <3>1. \A t \in Seq(Nat) : \A z : Len(Append(t, z)) = Len(t) + 1 BY AppendProperties, Windows
    <3> QED BY <1>1, <3>1 DEF v
  <2>5. Learned("static", s) = Len(s.train) + Len(s.calib) BY <2>3 DEF Learned
  <2>6. Learned("static", r) = Len(r.train) + Len(r.calib) BY <2>2, <2>3 DEF Learned
  <2>7. AllBut(0, "static", r)
    <3>1. PICK e \in Nat, f \in Nat : e = Len(s.train) /\ f = Len(s.calib) BY <1>2
    <3>2. l = e + f BY <1>9, <2>5, <3>1 DEF Tally
    <3>3. Learned("static", r) = l + 1
      <4>1. Learned("static", r) = e + (f + 1) BY <2>2, <2>4, <2>6, <3>1
      <4> QED BY <3>2, <4>1
    <3>4. Tally("static", r, w, x, m, c, l + 1) BY <1>9, <2>2, <3>3 DEF Tally, SameCounts
    <3> QED BY <1>9, <2>2, <3>4, OneOfOneKind
  <2>8. Counters(r) /\ Alarmed(r) BY <2>2, SameAlarms DEF Counters, SameCounts
  <2> QED BY <2>7, <2>8 DEF CountedRight, r
<1>6. CASE s.phase = "training"
  <2>1. r = [s EXCEPT !.discarded = @ + 1] BY <1>6 DEF DR!Learnt, DR!DiscardedWhileFitting
  <2> HIDE DEF r
  <2>2. /\ DOMAIN r = DOMAIN s /\ r.processed = s.processed /\ r.withheld = s.withheld
        /\ r.discarded = s.discarded + 1 /\ r.warm = s.warm /\ r.crossed = s.crossed /\ r.active = s.active
        /\ r.position = s.position /\ r.alarms = s.alarms
        /\ r.train = s.train /\ r.calib = s.calib /\ r.model = s.model BY <2>1, <1>1 DEF Holds, Counters
  <2>3. s.model = DR!NoModel BY <1>6 DEF Whole, StaticWhole
  <2>4. Learned("static", r) = Learned("static", s) BY <2>2 DEF Learned
  <2>5. AllBut(0, "static", r)
    <3>1. Tally("static", r, w, x + 1, m, c, l) BY <1>9, <2>2, <2>4 DEF Tally
    <3> QED BY <1>9, <2>2, <3>1, OneOfOneKind
  <2>6. Counters(r) BY <1>2, <2>2 DEF Counters
  <2>7. Alarmed(r) BY <2>2 DEF Alarmed
  <2> QED BY <2>5, <2>6, <2>7 DEF CountedRight, r
<1>7. CASE s.phase = "ready"
  <2>1. r = DR!Tested(s, crosses) BY <1>7 DEF DR!Learnt
  <2> HIDE DEF r
  <2>2. /\ Counters(r) /\ Alarmed(r) /\ r.crossed = Append(s.crossed, crosses)
        /\ r.processed = s.processed /\ r.withheld = s.withheld /\ r.discarded = s.discarded
        /\ r.warm = s.warm /\ r.train = s.train /\ r.calib = s.calib /\ r.model = s.model
    BY <1>1, <2>1, TestedCounts
  <2>3. Len(r.crossed) = Len(s.crossed) + 1
    <3>1. s.crossed \in Seq(BOOLEAN) BY DEF Counters
    <3> QED BY <2>2, <3>1
  <2>4. Learned("static", r) = Learned("static", s) BY <2>2 DEF Learned
  <2>6. AllBut(0, "static", r)
    <3>1. Tally("static", r, w, x, m, c + 1, l) BY <1>9, <2>2, <2>3, <2>4 DEF Tally
    <3> QED BY <1>9, <2>2, <3>1, OneOfOneKind
  <2> QED BY <2>2, <2>6 DEF CountedRight, r
<1> QED BY <1>4, <1>5, <1>6, <1>7

\* What is published is what was collected.
LEMMA FittedCounts ==
  ASSUME NEW k \in Nat, NEW s, Whole("static", s, k), FitOf(fit, s), CountedRight("static", s)
  PROVE  CountedRight("static", DR!Fitted(s))
<1> DEFINE r == DR!Fitted(s)
<1>1. Holds(s) /\ Counters(s) /\ AllBut(0, "static", s) /\ Alarmed(s) BY DEF Whole, CountedRight
<1>2. CASE ~ (s.phase = "training" /\ fit.status = "done") BY <1>2 DEF DR!Fitted
<1>3. CASE s.phase = "training" /\ fit.status = "done"
  <2>1. fit.of = <<s.train, s.calib>> /\ s.model = DR!NoModel BY <1>3 DEF FitOf, Whole, StaticWhole
  <2>2. r = [s EXCEPT !.phase = "ready", !.model = fit.of, !.train = <<>>, !.calib = <<>>]
    BY <1>3 DEF DR!Fitted
  <2> HIDE DEF r
  <2>3. /\ DOMAIN r = DOMAIN s /\ r.processed = s.processed /\ r.withheld = s.withheld /\ SameCounts(s, r)
        /\ r.model = <<s.train, s.calib>> BY <1>1, <2>1, <2>2 DEF Holds, Counters, SameCounts
  <2>4. Learned("static", r) = Len(s.train) + Len(s.calib) BY <2>3 DEF Learned, DR!NoModel
  <2>5. Learned("static", s) = Len(s.train) + Len(s.calib) BY <2>1 DEF Learned
  <2>6. AllBut(0, "static", r) BY <1>1, <2>3, <2>4, <2>5 DEF AllBut, SameCounts
  <2>7. Counters(r) /\ Alarmed(r) BY <1>1, <2>3, SameAlarms DEF Counters, SameCounts
  <2> QED BY <2>6, <2>7 DEF CountedRight, r
<1> QED BY <1>2, <1>3

\* A run that fails has counted as before.
LEMMA FailedCounts ==
  ASSUME NEW kind, NEW s, Holds(s), CountedRight(kind, s), NEW r,
         r = [s EXCEPT !.phase = "failed"] \/ r = [s EXCEPT !.phase = "failed", !.certain = FALSE]
  PROVE  CountedRight(kind, r)
<1>1. /\ DOMAIN r = DOMAIN s /\ r.processed = s.processed /\ r.withheld = s.withheld /\ SameCounts(s, r)
      /\ r.model = s.model /\ r.train = s.train /\ r.calib = s.calib
  BY DEF Holds, CountedRight, Counters, SameCounts
<1>2. Learned(kind, r) = Learned(kind, s) BY <1>1 DEF Learned
<1>3. AllBut(0, kind, r) BY <1>1, <1>2 DEF CountedRight, AllBut, SameCounts
<1>4. Counters(r) BY <1>1 DEF CountedRight, Counters, SameCounts
<1> QED BY <1>1, <1>3, <1>4, SameAlarms DEF CountedRight

\* What a row does to the counters of a stream.
LEMMA StreamedCounts ==
  ASSUME NEW k \in Nat, NEW s, Whole("adaptive", s, k), CountedRight("adaptive", s),
         s.phase \in {"warmup", "calibrating", "operational"}, NEW outcome
  PROVE  CountedRight("adaptive", DR!Streamed(DR!Processed(DR!Trained(s, outcome))))
<1> DEFINE t == DR!Trained(s, outcome)
           q == DR!Processed(t)
           r == DR!Streamed(q)
<1>1. Holds(s) /\ s.train = <<>> /\ s.calib \in Seq(Nat) /\ Counters(s) /\ AllBut(0, "adaptive", s)
  BY DEF Whole, AdaptiveWhole, Rising, CountedRight
<1>2. PICK v : t = [s EXCEPT !.updates = v] BY DEF DR!Trained
<1> HIDE DEF t
<1>3. /\ DOMAIN t = DOMAIN s /\ t.processed = s.processed /\ t.withheld = s.withheld /\ SameCounts(s, t)
      /\ t.phase = s.phase /\ t.model = s.model /\ t.train = s.train /\ t.calib = s.calib
  BY <1>1, <1>2 DEF Holds, Counters, SameCounts
<1>4. q = [t EXCEPT !.processed = @ + 1, !.prep = @ + 1] BY DEF DR!Processed
<1> HIDE DEF q
<1>5. /\ DOMAIN q = DOMAIN s /\ q.processed = s.processed + 1 /\ q.withheld = s.withheld /\ SameCounts(s, q)
      /\ q.phase = s.phase /\ q.model = s.model /\ q.train = s.train /\ q.calib = s.calib
  BY <1>1, <1>3, <1>4 DEF Holds, Counters, SameCounts
<1>6. Learned("adaptive", s) = Len(s.train) + Len(s.calib) /\ Learned("adaptive", s) \in Nat
  <2>1. Learned("adaptive", s) = Len(s.train) + Len(s.calib) BY DEF Learned
  <2>2. Len(s.train) \in Nat /\ Len(s.calib) \in Nat BY <1>1
  <2>3. PICK a \in Nat, b \in Nat : a = Len(s.train) /\ b = Len(s.calib) BY <2>2
  <2>4. Learned("adaptive", s) = a + b BY <2>1, <2>3
  <2>5. Learned("adaptive", s) \in Nat BY <2>4
  <2> QED BY <2>1, <2>5
<1>7. Learned("adaptive", q) = Learned("adaptive", s)
  <2>1. Learned("adaptive", q) = Len(q.train) + Len(q.calib) BY DEF Learned
  <2> QED BY <1>5, <1>6, <2>1
<1>8. PICK w \in Nat, x \in Nat, m \in Nat, c \in Nat, l \in Nat : Tally("adaptive", s, w, x, m, c, l)
  BY <1>1, <1>6 DEF Tally, Counters
<1>9. Tally("adaptive", q, w, x, m, c, l) BY <1>5, <1>7, <1>8 DEF Tally, SameCounts
<1>10. AllBut(1, "adaptive", q)
  <2>1. s.processed = 0 + w + x + m + c + l BY <1>1, <1>8 DEF AllBut, Tally
  <2>2. q.processed = 1 + w + x + m + c + l BY <1>5, <2>1
  <2> QED BY <1>9, <2>2 DEF AllBut, Tally
<1>11. Counters(q) BY <1>1, <1>5 DEF Counters, SameCounts
<1>12. {"phase", "train", "calib", "model"} \subseteq DOMAIN q /\ q.train = <<>> BY <1>1, <1>5 DEF Holds
<1>13. CASE s.phase = "warmup"
  <2>1. \E p : r = [q EXCEPT !.warm = @ + 1, !.phase = p] BY <1>5, <1>13 DEF DR!Streamed
  <2> HIDE DEF r
  <2>2. /\ DOMAIN r = DOMAIN q /\ r.processed = q.processed /\ r.withheld = q.withheld
        /\ r.discarded = q.discarded /\ r.warm = q.warm + 1 /\ r.crossed = q.crossed /\ r.active = q.active
        /\ r.position = q.position /\ r.alarms = q.alarms
        /\ r.train = q.train /\ r.calib = q.calib /\ r.model = q.model BY <1>11, <1>12, <2>1 DEF Counters
  <2>3. Learned("adaptive", r) = Learned("adaptive", q) BY <2>2 DEF Learned
  <2>4. Tally("adaptive", r, w, x, m + 1, c, l) BY <1>9, <2>2, <2>3 DEF Tally
  <2>5. AllBut(0, "adaptive", r) BY <1>10, <1>9, <2>2, <2>4, OneOfOneKind
  <2>6. Counters(r) BY <1>11, <2>2 DEF Counters
  <2>7. CountedRight("adaptive", r) BY <1>12, <2>2, <2>5, <2>6 DEF CountedRight
  <2> QED BY <2>7 DEF r, q, t
<1>14. CASE s.phase = "calibrating"
  <2> DEFINE u == Append(q.calib, seen')
  <2>1. r = [q EXCEPT !.calib = u, !.phase = "operational", !.model = <<u>>] \/ r = [q EXCEPT !.calib = u]
    BY <1>5, <1>14 DEF DR!Streamed
  <2> HIDE DEF r, u
  <2>2. /\ DOMAIN r = DOMAIN q /\ r.processed = q.processed /\ r.withheld = q.withheld /\ SameCounts(q, r)
        /\ r.train = q.train /\ r.calib = u BY <1>11, <1>12, <2>1 DEF Counters, SameCounts
  <2>3. Len(u) = Len(s.calib) + 1 BY <1>1, <1>5 DEF u
  <2>4. Learned("adaptive", r) = l + 1
    <3>1. Learned("adaptive", r) = Len(r.train) + Len(r.calib) BY DEF Learned
    <3>2. PICK a \in Nat, b \in Nat : a = Len(s.train) /\ b = Len(s.calib) BY <1>1
    <3>3. l = a + b BY <1>6, <1>8, <3>2 DEF Tally
    <3>4. Learned("adaptive", r) = a + (b + 1) BY <1>5, <2>2, <2>3, <3>1, <3>2
    <3> QED BY <3>3, <3>4
  <2>5. Tally("adaptive", r, w, x, m, c, l + 1) BY <1>9, <2>2, <2>4 DEF Tally, SameCounts
  <2>6. AllBut(0, "adaptive", r) BY <1>10, <1>9, <2>2, <2>5, OneOfOneKind
  <2>7. Counters(r) BY <1>11, <2>2 DEF Counters, SameCounts
  <2>8. CountedRight("adaptive", r) BY <1>12, <2>2, <2>6, <2>7 DEF CountedRight, SameCounts
  <2> QED BY <2>8 DEF r, q, t
<1>15. CASE s.phase = "operational"
  <2>1. r = [q EXCEPT !.crossed = Append(@, FALSE)] BY <1>5, <1>15 DEF DR!Streamed
  <2> HIDE DEF r
  <2>2. /\ DOMAIN r = DOMAIN q /\ r.processed = q.processed /\ r.withheld = q.withheld
        /\ r.discarded = q.discarded /\ r.warm = q.warm /\ r.crossed = Append(q.crossed, FALSE) /\ r.active = q.active
        /\ r.position = q.position /\ r.alarms = q.alarms
        /\ r.train = q.train /\ r.calib = q.calib /\ r.model = q.model BY <1>11, <1>12, <2>1 DEF Counters
  <2>3. Learned("adaptive", r) = Learned("adaptive", q) BY <2>2 DEF Learned
  <2>4. r.crossed \in Seq(BOOLEAN) /\ Len(r.crossed) = Len(q.crossed) + 1
    <3>1. q.crossed \in Seq(BOOLEAN) BY <1>11 DEF Counters
    <3> QED BY <2>2, <3>1
  <2>5. Tally("adaptive", r, w, x, m, c + 1, l) BY <1>9, <2>2, <2>3, <2>4 DEF Tally
  <2>6. AllBut(0, "adaptive", r) BY <1>10, <1>9, <2>2, <2>5, OneOfOneKind
  <2>7. Counters(r) BY <1>11, <2>2, <2>4 DEF Counters
  <2>8. CountedRight("adaptive", r) BY <1>12, <2>2, <2>6, <2>7 DEF CountedRight, SameCounts
  <2> QED BY <2>8 DEF r, q, t
<1> QED BY <1>13, <1>14, <1>15

\* A run begins with nothing counted.
LEMMA CountersStart ==
  ASSUME DR!Init
  PROVE  DetectorCounted
<1> DEFINE v == [i \in 1 .. Detectors |-> 0]
<1>1. strategy \in {"static", "adaptive"} /\ seen = 0 /\ frozen = d /\ dead = FALSE /\ fit = DR!NoFit
  BY DEF DR!Init
<1>2. d = [phase |-> IF strategy = "static" THEN "collecting" ELSE "warmup",
           train |-> <<>>, calib |-> <<>>, model |-> DR!NoModel, prep |-> 0, processed |-> 0,
           withheld |-> 0, discarded |-> 0, warm |-> 0, updates |-> v, certain |-> TRUE,
           crossed |-> <<>>, active |-> FALSE, position |-> 0, alarms |-> 0] BY DEF DR!Init, DR!FreshDetector
<1> HIDE DEF v
<1>3. /\ {"processed", "withheld", "discarded", "warm", "crossed", "active", "position", "alarms"} \subseteq DOMAIN d
      /\ d.processed = 0 /\ d.withheld = 0 /\ d.discarded = 0 /\ d.warm = 0 /\ d.crossed = <<>> /\ d.active = FALSE
      /\ d.position = 0 /\ d.alarms = 0 /\ d.train = <<>> /\ d.calib = <<>> /\ d.model = DR!NoModel BY <1>2
<1>4. Counters(d)
  <2>1. <<>> \in Seq(BOOLEAN) /\ 0 \in 0 .. Horizon /\ FALSE \in BOOLEAN /\ 0 \in Nat BY HorizonSizes
  <2> QED BY <1>3, <2>1 DEF Counters
<1>5. Learned(strategy, d) = 0 /\ Len(d.crossed) = 0
  <2>1. Len(<<>>) = 0 OBVIOUS
  <2>2. Learned(strategy, d) = Len(d.train) + Len(d.calib) BY <1>3 DEF Learned
  <2> QED BY <1>3, <2>1, <2>2
<1>6. AllBut(0, strategy, d) BY <1>3, <1>5 DEF AllBut
<1>7. Alarmed(d)
  <2>1. {i \in DOMAIN d.crossed : Raised(d.crossed, i)} = {} BY <1>3
  <2>2. Cardinality({}) = 0 BY FS_EmptySet
  <2> QED BY <1>3, <2>1, <2>2 DEF Alarmed
<1>8. CountedRight(strategy, d) BY <1>3, <1>4, <1>6, <1>7 DEF CountedRight
<1>9. {"status", "of"} \subseteq DOMAIN fit /\ fit.status = "none" BY <1>1 DEF DR!NoFit
<1>10. seen \in 0 .. MaxSeen BY <1>1, HorizonSizes
<1> QED BY <1>1, <1>8, <1>9, <1>10 DEF DetectorCounted

\* A fit ends, or its end is seen: what was counted stays.
LEMMA FitCounts ==
  ASSUME DetectorWhole, DetectorCounted, DR!FitEnds \/ DR!Refresh
  PROVE  DetectorCounted'
<1>1. CountedRight(strategy, d) /\ CountedRight(strategy, frozen) /\ seen \in 0 .. MaxSeen /\ dead \in BOOLEAN
      /\ {"status", "of"} \subseteq DOMAIN fit BY DEF DetectorCounted
<1>2. CASE DR!FitEnds
  <2>1. UNCHANGED <<strategy, d, dead, frozen, seen>> BY <1>2 DEF DR!FitEnds
  <2>2. fit' = [fit EXCEPT !.status = "done"] \/ fit' = [fit EXCEPT !.status = "broken"] BY <1>2 DEF DR!FitEnds
  <2>3. {"status", "of"} \subseteq DOMAIN fit' /\ fit'.status \in {"done", "broken"} BY <1>1, <2>2
  <2> QED BY <1>1, <2>1, <2>3 DEF DetectorCounted
<1>3. CASE DR!Refresh
  <2>1. strategy = "static" /\ UNCHANGED <<strategy, frozen, seen>> /\ fit' = DR!NoFit /\ dead' \in BOOLEAN
    BY <1>1, <1>3 DEF DR!Refresh
  <2>2. Whole("static", d, seen) /\ Holds(d) /\ FitOf(fit, d) /\ seen \in Nat
    BY <2>1 DEF DetectorWhole, Whole
  <2>3. d' = DR!Fitted(d) \/ d' = [d EXCEPT !.phase = "failed"] BY <1>3 DEF DR!Refresh
  <2>4. CountedRight("static", d') BY <1>1, <2>1, <2>2, <2>3, FittedCounts, FailedCounts
  <2>5. {"status", "of"} \subseteq DOMAIN fit' /\ fit'.status = "none" BY <2>1 DEF DR!NoFit
  <2> QED BY <1>1, <2>1, <2>4, <2>5 DEF DetectorCounted
<1> QED BY <1>2, <1>3

\* A baseline counts an observation.
LEMMA StaticObserveCounts ==
  ASSUME DetectorWhole, DetectorCounted, DR!StaticObserve
  PROVE  DetectorCounted'
<1> DEFINE s == DR!Fitted(d)
<1>1. /\ strategy = "static" /\ ~dead /\ seen < MaxSeen /\ seen' = seen + 1
      /\ UNCHANGED <<strategy, dead, frozen, mishaps>> BY DEF DR!StaticObserve, DR!Arrives
<1>2. Whole("static", d, seen) /\ Holds(d) /\ seen \in Nat /\ FitOf(fit, d) /\ d.certain /\ d.phase # "failed"
  BY <1>1 DEF DetectorWhole, Whole
<1>3. \/ d' = DR!HeldBack(s) \/ d' = s
      \/ \E crosses \in BOOLEAN : d' = DR!Learnt(DR!Processed(s), crosses) BY DEF DR!StaticObserve
<1>4. fit' = DR!Submitted(d') \/ fit' = DR!NoFit \/ fit' = fit BY DEF DR!StaticObserve, DR!StillFitting
<1>5. Agrees(d, s) \/ Publishes(d, s, <<d.train, d.calib>>) BY <1>2, FittedSteps
<1>6. CountedRight("static", s) BY <1>1, <1>2, FittedCounts DEF DetectorCounted
<1> HIDE DEF s
<1>7. Whole("static", s, seen) BY <1>5, <1>2, AgreeingWhole, PublishesWhole
<1>8. s.certain /\ s.phase # "failed" BY <1>5, <1>2 DEF Agrees, Publishes
<1>9. Holds(s) /\ s.phase \in {"collecting", "calibrating", "training", "ready"} /\ s.train \in Seq(Nat)
  BY <1>7, <1>8 DEF Whole, StaticWhole
<1>10. Counters(s) /\ AllBut(0, "static", s) /\ Alarmed(s) /\ Learned("static", s) \in Nat
  BY <1>2, <1>6, <1>7, <1>9, LearnedNumbers DEF CountedRight
<1>11. CountedRight("static", d')
  <2>1. CASE d' = s BY <1>6, <2>1
  <2>2. CASE d' = DR!HeldBack(s)
    <3>1. Counters(d') /\ AllBut(0, "static", d') /\ SameCounts(s, d') BY <1>9, <1>10, <2>2, CountedFirst
    <3> QED BY <1>10, <3>1, SameAlarms DEF CountedRight
  <2>3. CASE \E crosses \in BOOLEAN : d' = DR!Learnt(DR!Processed(s), crosses)
    <3>1. PICK q : q = DR!Processed(s) OBVIOUS
    <3>2. PICK crosses \in BOOLEAN : d' = DR!Learnt(q, crosses) BY <2>3, <3>1
    <3>3. Counters(q) /\ AllBut(1, "static", q) /\ SameCounts(s, q) BY <1>9, <1>10, <3>1, CountedFirst
    <3>4. Agrees(s, q) BY <1>9, <3>1, CountersApart
    <3>5. Whole("static", q, seen) BY <1>2, <1>7, <3>4, AgreeingWhole
    <3>6. q.phase \in {"collecting", "calibrating", "training", "ready"} BY <1>9, <3>4 DEF Agrees
    <3>7. Alarmed(q) BY <1>10, <3>3, SameAlarms
    <3> QED BY <1>2, <3>2, <3>3, <3>5, <3>6, <3>7, LearntCounts
  <2> QED BY <1>3, <2>1, <2>2, <2>3
<1>12. {"status", "of"} \subseteq DOMAIN fit' /\ fit'.status \in {"none", "running", "done", "broken"}
  BY <1>4 DEF DetectorCounted, DR!Submitted, DR!NoFit
<1>13. seen' \in 0 .. MaxSeen BY <1>1, <1>2, HorizonSizes
<1> QED BY <1>1, <1>11, <1>12, <1>13 DEF DetectorCounted

\* A stream counts an observation.
LEMMA AdaptiveObserveCounts ==
  ASSUME DetectorWhole, DetectorCounted, DR!AdaptiveObserve
  PROVE  DetectorCounted'
<1>1. /\ strategy = "adaptive" /\ ~dead /\ seen < MaxSeen /\ seen' = seen + 1
      /\ UNCHANGED <<strategy, fit, dead, frozen, mishaps>> BY DEF DR!AdaptiveObserve, DR!Arrives
<1>2. Whole("adaptive", d, seen) /\ Holds(d) /\ seen \in Nat /\ d.phase # "failed" /\ CountedRight("adaptive", d)
  BY <1>1 DEF DetectorWhole, DetectorCounted, Whole
<1>3. \/ d' = DR!HeldBack(d) \/ d' = d
      \/ \E outcome \in DR!Outcomes : d' = DR!Streamed(DR!Processed(DR!Trained(d, outcome)))
  BY DEF DR!AdaptiveObserve
<1>4. d.phase \in {"warmup", "calibrating", "operational"} /\ d.train \in Seq(Nat)
  <2>1. d.train = <<>> /\ <<>> \in Seq(Nat) BY <1>2 DEF CountedRight
  <2> QED BY <1>2, <2>1 DEF Whole, AdaptiveWhole
<1>5. Learned("adaptive", d) \in Nat BY <1>2, <1>4, LearnedNumbers
<1>6. CountedRight("adaptive", d')
  <2>1. CASE d' = d BY <1>2, <2>1
  <2>2. CASE d' = DR!HeldBack(d)
    <3>1. Counters(d') /\ AllBut(0, "adaptive", d') BY <1>2, <1>5, <2>2, CountedFirst DEF CountedRight
    <3>2. d'.train = d.train BY <1>2, <2>2, CountersApart DEF Agrees
    <3> QED BY <1>2, <3>1, <3>2 DEF CountedRight
  <2>3. CASE \E outcome \in DR!Outcomes : d' = DR!Streamed(DR!Processed(DR!Trained(d, outcome)))
    BY <1>2, <1>4, <2>3, StreamedCounts
  <2> QED BY <1>3, <2>1, <2>2, <2>3
<1>7. seen' \in 0 .. MaxSeen BY <1>1, <1>2, HorizonSizes
<1> QED BY <1>1, <1>6, <1>7 DEF DetectorCounted

\* Every step of a detector counts right.
LEMMA DetectorCounts ==
  ASSUME DetectorWhole, DetectorCounted, DR!Next \/ UNCHANGED DR!vars
  PROVE  DetectorCounted'
<1>1. CASE DR!ExecutionFails
  <2>1. /\ dead' = TRUE /\ seen < MaxSeen /\ seen' = seen + 1 /\ UNCHANGED <<strategy, fit, frozen>>
        /\ d' = [d EXCEPT !.phase = "failed", !.certain = FALSE] BY <1>1 DEF DR!ExecutionFails, DR!Arrives
  <2>2. Holds(d) /\ seen \in Nat BY DEF DetectorWhole, Whole
  <2>3. CountedRight(strategy, d') BY <2>1, <2>2, FailedCounts DEF DetectorCounted
  <2>4. seen' \in 0 .. MaxSeen BY <2>1, <2>2, HorizonSizes
  <2> QED BY <2>1, <2>3, <2>4 DEF DetectorCounted
<1>2. CASE DR!ExportCheckpoint BY <1>2 DEF DR!ExportCheckpoint, DetectorCounted
<1>3. CASE DR!RestoreCheckpoint
  <2>1. /\ d' = frozen /\ dead' = FALSE /\ UNCHANGED <<strategy, frozen, seen>>
        /\ (fit' = DR!Submitted(frozen) \/ fit' = DR!NoFit) BY <1>3 DEF DR!RestoreCheckpoint
  <2>2. {"status", "of"} \subseteq DOMAIN fit' /\ fit'.status \in {"none", "running"}
    BY <2>1 DEF DR!Submitted, DR!NoFit
  <2> QED BY <2>1, <2>2 DEF DetectorCounted
<1>4. CASE UNCHANGED DR!vars
  <2>1. UNCHANGED <<strategy, d, fit, dead, frozen, seen, mishaps>> BY <1>4 DEF DR!vars
  <2> QED BY <2>1 DEF DetectorCounted
<1> QED
  BY <1>1, <1>2, <1>3, <1>4, FitCounts, StaticObserveCounts, AdaptiveObserveCounts DEF DR!Next

\* What is counted right accounts for every observation and for every alarm.
LEMMA CountsPromise ==
  ASSUME DetectorWhole, DetectorCounted
  PROVE  DR!DetectorTypeOK /\ DR!EveryObservation /\ DR!AlarmsCounted
<1>1. strategy \in {"static", "adaptive"} /\ Whole(strategy, d, seen) BY DEF DetectorWhole
<1>2. d.phase \in IF strategy = "static" THEN {"collecting", "calibrating", "training", "ready", "failed"}
                                        ELSE {"warmup", "calibrating", "operational", "failed"}
  BY <1>1 DEF Whole, StaticWhole, AdaptiveWhole
<1>3. d.position \in 0 .. Horizon BY DEF DetectorCounted, CountedRight, Counters
<1>4. DR!DetectorTypeOK BY <1>2, <1>3 DEF DetectorCounted, DR!DetectorTypeOK
<1>5. ASSUME NEW s \in {d, frozen}
      PROVE  s.processed = s.withheld + s.discarded + s.warm + Len(s.crossed)
               + IF strategy = "static" /\ s.model # DR!NoModel THEN Len(s.model[1]) + Len(s.model[2])
                                                            ELSE Len(s.train) + Len(s.calib)
  <2>1. CountedRight(strategy, s) /\ Whole(strategy, s, seen) /\ seen \in Nat
    BY <1>5 DEF DetectorCounted, DetectorWhole
  <2>2. s.train \in Seq(Nat)
    <3>1. CASE strategy = "static" BY <2>1, <3>1 DEF Whole, StaticWhole
    <3>2. CASE strategy = "adaptive"
      <4>1. s.train = <<>> /\ <<>> \in Seq(Nat) BY <2>1, <3>2 DEF CountedRight
      <4> QED BY <4>1
    <3> QED BY <1>1, <3>1, <3>2
  <2>3. Learned(strategy, s) \in Nat BY <1>1, <2>1, <2>2, LearnedNumbers
  <2>4. s.processed = 0 + s.withheld + s.discarded + s.warm + Len(s.crossed) + Learned(strategy, s)
    BY <2>1 DEF CountedRight, AllBut
  <2>5. s.withheld \in Nat /\ s.discarded \in Nat /\ s.warm \in Nat /\ Len(s.crossed) \in Nat
    BY <2>1 DEF CountedRight, Counters
  <2>6. s.processed = s.withheld + s.discarded + s.warm + Len(s.crossed) + Learned(strategy, s)
    BY <2>3, <2>4, <2>5
  <2> QED BY <2>6 DEF Learned
<1>6. DR!EveryObservation BY <1>5 DEF DR!EveryObservation
<1>7. DR!AlarmsCounted
  <2>1. \A s : DR!Cardinality(s) = Cardinality(s) BY DEF DR!Cardinality, Cardinality
  <2>2. strategy = "static" => d.alarms = Cardinality({i \in DOMAIN d.crossed : Raised(d.crossed, i)})
    BY DEF DetectorCounted, CountedRight, Alarmed
  <2> QED BY <2>1, <2>2 DEF DR!AlarmsCounted, Raised
<1> QED BY <1>4, <1>6, <1>7

(* The writer of the collector.                                            *)

\* Rows of which none is there twice.
RowsOf(s) ==
  /\ s \in Seq(Telemetry) /\ Len(s) <= BatchSize
  /\ \A i, j \in 1 .. Len(s) : s[i] = s[j] => i = j

\* The inductive invariant of the writer: a loop that waits has no batch, one that tries or retains
\* has one, and no row is held twice.
WriterWhole ==
  /\ bad \subseteq Telemetry /\ offered \subseteq Telemetry
  /\ stored \subseteq Telemetry /\ rejected \subseteq Telemetry
  /\ RowsOf(pending) /\ RowsOf(batch)
  /\ isolate \in BOOLEAN /\ shut \in BOOLEAN /\ owned \in BOOLEAN
  /\ attempt \in 0 .. MaxAttempts - 1
  /\ wloop \in {"wait", "try", "retained", "ended", "cancelled"}
  /\ draining \in {"no", "waiting", "failed"}
  /\ troubles \in 0 .. MaxTroubles
  /\ offered = TW!Range(pending) \cup TW!Range(batch) \cup stored \cup rejected
  /\ TW!Range(pending) \cap (TW!Range(batch) \cup stored \cup rejected) = {}
  /\ rejected \subseteq bad /\ stored \cap bad = {}
  /\ rejected \cap TW!Range(batch) = {}
  /\ wloop = "wait" => batch = <<>>
  /\ wloop \in {"try", "retained"} => batch # <<>>
  /\ wloop = "ended" => pending = <<>> /\ batch = <<>> /\ shut

\* The bounds of the writer.
LEMMA WriterSizes == BatchSize \in Nat \ {0} /\ MaxAttempts \in Nat \ {0} /\ MaxTroubles \in Nat
BY ModelAssumption DEF TW!WriterAssumption

\* What is in a sequence.
LEMMA AmongRows ==
  ASSUME NEW s, RowsOf(s)
  PROVE  \A x : x \in TW!Range(s) <=> \E i \in 1 .. Len(s) : s[i] = x
<1>1. DOMAIN s = 1 .. Len(s) BY DEF RowsOf
<1> QED BY <1>1 DEF TW!Range

\* No rows.
LEMMA NoRows == RowsOf(<<>>) /\ TW!Range(<<>>) = {}
BY WriterSizes DEF RowsOf, TW!Range

\* One more row.
LEMMA OneMoreRow ==
  ASSUME NEW s, RowsOf(s), NEW r \in Telemetry, r \notin TW!Range(s), Len(s) < BatchSize
  PROVE  RowsOf(Append(s, r)) /\ TW!Range(Append(s, r)) = TW!Range(s) \cup {r}
<1> DEFINE w == Append(s, r)
<1>1. s \in Seq(Telemetry) /\ Len(s) \in Nat /\ \A i \in 1 .. Len(s) : s[i] # r BY DEF RowsOf, TW!Range
<1>2. w \in Seq(Telemetry) /\ Len(w) = Len(s) + 1 /\ w[Len(s) + 1] = r
      /\ \A i \in 1 .. Len(s) : w[i] = s[i] BY <1>1
<1> HIDE DEF w
<1>3. Len(w) <= BatchSize BY <1>1, <1>2, WriterSizes
<1>4. \A i \in 1 .. Len(w) : i \in 1 .. Len(s) \/ i = Len(s) + 1 BY <1>1, <1>2
<1>5. \A i, j \in 1 .. Len(w) : w[i] = w[j] => i = j BY <1>1, <1>2, <1>4 DEF RowsOf
<1>6. TW!Range(w) = TW!Range(s) \cup {r} BY <1>1, <1>2, <1>4 DEF TW!Range
<1> QED BY <1>2, <1>3, <1>5, <1>6 DEF RowsOf, w

\* The rest of the rows, without the first.
LEMMA RestOfRows ==
  ASSUME NEW s, RowsOf(s), s # <<>>
  PROVE  /\ RowsOf(Tail(s)) /\ Head(s) \in Telemetry
         /\ TW!Range(s) = TW!Range(Tail(s)) \cup {Head(s)} /\ Head(s) \notin TW!Range(Tail(s))
<1> DEFINE w == Tail(s)
<1>1. s \in Seq(Telemetry) /\ Len(s) \in Nat \ {0} /\ Head(s) = s[1] BY DEF RowsOf
<1>2. w \in Seq(Telemetry) /\ Len(w) = Len(s) - 1 /\ \A i \in 1 .. Len(w) : w[i] = s[i + 1] BY <1>1
<1> HIDE DEF w
<1>3. \A i \in 1 .. Len(w) : i + 1 \in 1 .. Len(s) /\ i + 1 # 1 BY <1>1, <1>2
<1>4. \A i \in 1 .. Len(s) : i = 1 \/ (i - 1 \in 1 .. Len(w) /\ w[i - 1] = s[i])
  <2> SUFFICES ASSUME NEW i \in 1 .. Len(s), i # 1 PROVE i - 1 \in 1 .. Len(w) /\ w[i - 1] = s[i] OBVIOUS
  <2>1. i - 1 \in 1 .. Len(w) /\ (i - 1) + 1 = i BY <1>1, <1>2
  <2> QED BY <2>1, <1>2
<1>5. RowsOf(w)
  <2>1. \A i, j \in 1 .. Len(w) : w[i] = w[j] => i = j
    <3> SUFFICES ASSUME NEW i \in 1 .. Len(w), NEW j \in 1 .. Len(w), w[i] = w[j] PROVE i = j OBVIOUS
    <3>1. i + 1 = j + 1 BY <1>2, <1>3 DEF RowsOf
    <3> QED BY <3>1
  <2>2. Len(w) <= BatchSize BY <1>1, <1>2, WriterSizes DEF RowsOf
  <2> QED BY <1>2, <2>1, <2>2 DEF RowsOf
<1>6. 1 \in 1 .. Len(s) BY <1>1
<1>7. Head(s) \in Telemetry BY <1>1, <1>6
<1>8. ASSUME NEW x PROVE x \in TW!Range(s) <=> x \in TW!Range(w) \cup {Head(s)}
  <2>1. ASSUME x \in TW!Range(s) PROVE x \in TW!Range(w) \cup {Head(s)}
    <3>1. PICK i \in 1 .. Len(s) : s[i] = x BY <2>1, AmongRows
    <3> QED BY <3>1, <1>1, <1>4, <1>5, AmongRows
  <2>2. ASSUME x \in TW!Range(w) PROVE x \in TW!Range(s)
    <3>1. PICK i \in 1 .. Len(w) : w[i] = x BY <2>2, <1>5, AmongRows
    <3>2. s[i + 1] = x /\ i + 1 \in 1 .. Len(s) BY <3>1, <1>2, <1>3
    <3> QED BY <3>2, AmongRows
  <2>3. Head(s) \in TW!Range(s) BY <1>1, <1>6, AmongRows
  <2> QED BY <2>1, <2>2, <2>3
<1>9. Head(s) \notin TW!Range(w)
  <2> SUFFICES ASSUME NEW i \in 1 .. Len(w), w[i] = Head(s) PROVE FALSE BY <1>5, AmongRows
  <2>1. s[i + 1] = s[1] /\ i + 1 \in 1 .. Len(s) /\ i + 1 # 1 BY <1>1, <1>2, <1>3
  <2> QED BY <2>1, <1>6 DEF RowsOf
<1> QED BY <1>5, <1>7, <1>8, <1>9 DEF w

\* The writer begins with it.
LEMMA WriterStarts ==
  ASSUME TW!Init
  PROVE  WriterWhole
<1>1. 0 \in 0 .. MaxAttempts - 1 /\ 0 \in 0 .. MaxTroubles BY WriterSizes
<1>2. /\ TW!Range(pending) = {} /\ TW!Range(batch) = {} /\ RowsOf(pending) /\ RowsOf(batch)
      /\ attempt \in 0 .. MaxAttempts - 1 /\ troubles \in 0 .. MaxTroubles BY <1>1, NoRows DEF TW!Init
<1> QED BY <1>2 DEF TW!Init, WriterWhole

\* A row that is accepted is one more of the pending ones.
LEMMA WriteRecordKeeps ==
  ASSUME WriterWhole, NEW r \in Telemetry, TW!WriteRecord(r)
  PROVE  WriterWhole'
<1>1. RowsOf(pending') /\ TW!Range(pending') = TW!Range(pending) \cup {r}
  BY OneMoreRow DEF TW!WriteRecord, TW!Room, WriterWhole
<1> QED BY <1>1 DEF WriterWhole, TW!WriteRecord

\* The pending rows become the batch of a loop that had none.
LEMMA TriggerKeeps ==
  ASSUME WriterWhole, TW!Trigger
  PROVE  WriterWhole'
<1>0. attempt' \in 0 .. MaxAttempts - 1 BY WriterSizes DEF TW!Trigger
<1>1. CASE wloop = "retained" BY <1>0, <1>1 DEF WriterWhole, TW!Trigger
<1>2. CASE wloop = "wait"
  <2>1. /\ pending # <<>> /\ RowsOf(pending') /\ RowsOf(batch')
        /\ TW!Range(batch) = {} /\ TW!Range(pending') = {} /\ batch' = pending
        /\ pending' = <<>> /\ isolate' = FALSE BY <1>2, NoRows DEF WriterWhole, TW!Trigger
  <2> QED BY <1>0, <1>2, <2>1 DEF WriterWhole, TW!Trigger
<1> QED BY <1>1, <1>2 DEF TW!Trigger

\* What is answered for goes.
LEMMA ResolveKeeps ==
  ASSUME WriterWhole, wloop = "try", TW!Resolve
  PROVE  /\ RowsOf(batch') /\ TW!Range(batch) = TW!Range(batch') \cup TW!Rows
         /\ TW!Range(batch') \cap TW!Rows = {} /\ TW!Rows \subseteq Telemetry
         /\ wloop' \in {"wait", "try"}
         /\ wloop' = "wait" <=> batch' = <<>>
<1>1. CASE isolate BY <1>1, RestOfRows DEF WriterWhole, TW!Resolve, TW!Rows
<1>2. CASE ~isolate
  <2>1. TW!Range(batch) \subseteq Telemetry BY DEF WriterWhole, RowsOf, TW!Range
  <2> QED BY <1>2, <2>1, NoRows DEF WriterWhole, TW!Resolve, TW!Rows
<1> QED BY <1>1, <1>2

\* Rows that are inserted are stored.
LEMMA InsertKeeps ==
  ASSUME WriterWhole, TW!Insert
  PROVE  WriterWhole'
<1>1. wloop = "try" /\ TW!Resolve BY DEF TW!Insert
<1> QED BY <1>1, ResolveKeeps DEF WriterWhole, TW!Insert

\* A row that stands alone is rejected.
LEMMA RejectKeeps ==
  ASSUME WriterWhole, TW!Reject
  PROVE  WriterWhole'
<1>1. CASE isolate
  <2>1. wloop = "try" /\ TW!Resolve /\ rejected' = rejected \cup TW!Rows /\ isolate'
    BY <1>1 DEF TW!Reject, TW!RejectedRow
  <2>2. TW!Rows = {Head(batch)} BY <1>1 DEF TW!Rows
  <2>3. TW!Rows \subseteq bad BY <2>2 DEF TW!Reject
  <2> QED BY <2>1, <2>3, ResolveKeeps DEF WriterWhole, TW!Reject
<1>2. CASE ~isolate BY <1>2 DEF WriterWhole, TW!Reject, TW!RejectedRow
<1> QED BY <1>1, <1>2

\* What fails stays in the batch, stored or not.
LEMMA InsertFailsKeeps ==
  ASSUME WriterWhole, TW!InsertFails
  PROVE  WriterWhole'
<1>1. wloop = "try" /\ batch' = batch /\ batch # <<>> /\ wloop' \in {"try", "retained"}
      /\ attempt' \in 0 .. MaxAttempts - 1 BY WriterSizes DEF TW!InsertFails, TW!NextAttempt, WriterWhole
<1>2. TW!Rows \subseteq TW!Range(batch) /\ TW!Rows \subseteq Telemetry
  <2>1. TW!Range(batch) \subseteq Telemetry BY DEF WriterWhole, RowsOf, TW!Range
  <2>2. Head(batch) \in TW!Range(batch) BY <1>1, RestOfRows DEF WriterWhole
  <2> QED BY <2>1, <2>2 DEF TW!Rows
<1>3. stored' = stored \/ (TW!Rows \cap bad = {} /\ stored' = stored \cup TW!Rows) BY DEF TW!InsertFails
<1>4. troubles' \in 0 .. MaxTroubles BY WriterSizes DEF TW!InsertFails, TW!Trouble, WriterWhole
<1> QED BY <1>1, <1>2, <1>3, <1>4 DEF WriterWhole, TW!InsertFails

\* The rest moves no row.
LEMMA NoRowMoves ==
  ASSUME WriterWhole,
         TW!LoopEnds \/ TW!Drain \/ TW!DrainReturns \/ TW!Stop \/ TW!LeaseLost \/ TW!Cancel
           \/ UNCHANGED TW!vars
  PROVE  WriterWhole'
<1>1. CASE TW!LoopEnds BY <1>1 DEF WriterWhole, TW!LoopEnds
<1>2. CASE TW!Drain BY <1>2 DEF WriterWhole, TW!Drain
<1>3. CASE TW!DrainReturns BY <1>3 DEF WriterWhole, TW!DrainReturns
<1>4. CASE TW!Stop BY <1>4 DEF WriterWhole, TW!Stop, TW!Running
<1>0. TW!Trouble => troubles' \in 0 .. MaxTroubles BY WriterSizes DEF WriterWhole, TW!Trouble
<1>5. CASE TW!LeaseLost BY <1>0, <1>5 DEF WriterWhole, TW!LeaseLost
<1>6. CASE TW!Cancel BY <1>0, <1>6 DEF WriterWhole, TW!Cancel, TW!Running
<1>7. CASE UNCHANGED TW!vars BY <1>7 DEF WriterWhole, TW!vars
<1> QED BY <1>1, <1>2, <1>3, <1>4, <1>5, <1>6, <1>7

\* Every step of the writer keeps it.
LEMMA WriterSteps ==
  ASSUME WriterWhole, TW!Next \/ UNCHANGED TW!vars
  PROVE  WriterWhole'
BY WriteRecordKeeps, TriggerKeeps, InsertKeeps, RejectKeeps, InsertFailsKeeps, NoRowMoves
DEF TW!Next, TW!Work

\* There are as many rows as places.
LEMMA RowsCount ==
  ASSUME NEW s, RowsOf(s)
  PROVE  IsFiniteSet(TW!Range(s)) /\ Cardinality(TW!Range(s)) = Len(s)
<1>1. s \in Seq(Telemetry) /\ Len(s) \in Nat BY DEF RowsOf
<1> DEFINE f == [i \in 1 .. Len(s) |-> s[i]]
<1>2. f \in [1 .. Len(s) -> TW!Range(s)] BY <1>1, AmongRows
<1>3. f \in Bijection(1 .. Len(s), TW!Range(s))
  BY <1>2, AmongRows DEF Bijection, Injection, IsInjective, Surjection, RowsOf
<1>4. ExistsBijection(1 .. Len(s), TW!Range(s)) BY <1>3 DEF ExistsBijection
<1>5. IsFiniteSet(1 .. Len(s)) /\ Cardinality(1 .. Len(s)) = Len(s) BY <1>1, FS_Interval
<1> QED BY <1>4, <1>5, FS_Bijection

\* A writer that keeps it loses no row and holds no more than it may.
LEMMA WriterPromise ==
  ASSUME WriterWhole
  PROVE  TW!WriterTypeOK /\ TW!Accounted /\ TW!Bounded
<1>1. RowsOf(pending) /\ RowsOf(batch) BY DEF WriterWhole
<1>2. Len(pending) \in Nat /\ Len(batch) \in Nat /\ pending \in Seq(Telemetry) /\ batch \in Seq(Telemetry)
  BY <1>1 DEF RowsOf
<1>3. Len(pending \o batch) = Len(pending) + Len(batch) BY <1>2
<1>4. TW!Range(pending) \cap TW!Range(batch) = {} BY DEF WriterWhole
<1>5. Cardinality(TW!Range(pending) \cup TW!Range(batch)) = Len(pending) + Len(batch)
  <2>1. /\ IsFiniteSet(TW!Range(pending)) /\ Cardinality(TW!Range(pending)) = Len(pending)
        /\ IsFiniteSet(TW!Range(batch)) /\ Cardinality(TW!Range(batch)) = Len(batch) BY <1>1, RowsCount
  <2>2. Cardinality(TW!Range(pending) \cap TW!Range(batch)) = 0 BY <1>4, FS_EmptySet
  <2>3. Cardinality(TW!Range(pending) \cup TW!Range(batch)) =
          Len(pending) + Len(batch) - Cardinality(TW!Range(pending) \cap TW!Range(batch)) BY <2>1, FS_Union
  <2> QED BY <2>2, <2>3, <1>2
<1>6. TW!Cardinality(TW!Range(pending) \cup TW!Range(batch)) =
        Cardinality(TW!Range(pending) \cup TW!Range(batch)) BY DEF TW!Cardinality, Cardinality
<1>7. TW!Accounted BY <1>3, <1>5, <1>6 DEF WriterWhole, TW!Accounted
<1>8. Len(pending \o batch) <= 2 * BatchSize BY <1>1, <1>2, <1>3, WriterSizes DEF RowsOf
<1>9. TW!Bounded BY <1>8 DEF WriterWhole, TW!Bounded
<1> QED BY <1>1, <1>7, <1>9 DEF WriterWhole, RowsOf, TW!WriterTypeOK

(* A worker and its messages.                                              *)

\* What may be saved: every message is handled, lost or left, and the evidence of what the model
\* learned is queued.
Savable(k) == k \in RW!Counts /\ k.lost + k.seen <= k.got /\ k.model <= k.evid

\* The types of what is not a counter.
WorkerTyped ==
  /\ svc \in {"down", "first", "connecting", "running", "closing", "draining", "final"}
  /\ halt \in BOOLEAN /\ fenced \in BOOLEAN /\ linked \in BOOLEAN /\ ensure \in BOOLEAN
  /\ fatal \in {"none", "persistence", "execution"}
  /\ net \in {"none", "subscribing", "up"} /\ future \in {"none", "pending", "ok", "failed"}
  /\ retry \in {"none", "waiting", "connecting"} /\ queue \in 0 .. QueueLimit
  /\ handler \in {"idle", "waiting", "busy", "failing"}
  /\ saver \in {"off", "idle", "busy", "failing"}
  /\ lock \in {"none", "handler", "saver"}
  /\ step \in {"none", "model", "evidence", "save", "commit"}
  /\ starts \in 0 .. MaxStarts /\ faults \in 0 .. Budget

\* Who holds the lock, and where it is with it; the loop that saves runs while the service does.
Locked ==
  /\ lock = "none" => step = "none"
  /\ lock = "handler" <=> handler \in {"busy", "failing"}
  /\ lock = "saver" <=> saver = "busy"
  /\ handler = "failing" => step = "none"
  /\ handler = "busy" => step # "none"
  /\ saver = "busy" => step \in {"save", "commit"}
  /\ svc \notin {"running", "closing"} => saver = "off"
  /\ svc \in {"down", "first", "final"} => handler = "idle" /\ queue = 0

\* The message that was taken and not handled.
UnderWay == IF handler = "waiting" \/ step = "model" THEN 1 ELSE 0

\* What the counters say of a worker that is alive.
Counted ==
  /\ n \in RW!Counts
  /\ svc # "down" => n.got = n.lost + n.seen + n.gone + queue + UnderWay
  /\ svc # "down" /\ ~fenced => n.model <= n.evid + IF step = "evidence" THEN 1 ELSE 0
  /\ svc \in {"connecting", "running"} /\ n.gone > 0 => n.gaps > 0 \/ fatal # "none"
  /\ svc = "first" /\ n.gone > 0 => snap # RW!NoSnapshot

\* What is saved, and what is being saved.
Saved ==
  /\ snap # RW!NoSnapshot => Savable(snap)
  /\ IF step = "commit" THEN Savable(cap) ELSE cap = RW!NoSnapshot

\* The inductive invariant of a worker.
WorkerWhole == WorkerTyped /\ Locked /\ Counted /\ Saved

\* The bounds of a worker.
LEMMA WorkerSizes == QueueLimit \in Nat \ {0} /\ MaxStarts \in Nat \ {0} /\ Budget \in Nat
BY ModelAssumption DEF RW!WorkerAssumption

\* Counting two things.
LEMMA CountBoth ==
  ASSUME NEW k \in RW!Counts
  PROVE  /\ LET m == [k EXCEPT !["got"] = @ + 1, !["lost"] = @ + 1] IN
              /\ m \in RW!Counts /\ m.got = k.got + 1 /\ m.lost = k.lost + 1 /\ m.seen = k.seen
              /\ m.gone = k.gone /\ m.gaps = k.gaps /\ m.model = k.model /\ m.evid = k.evid
         /\ LET m == [k EXCEPT !["seen"] = @ + 1, !["model"] = @ + 1] IN
              /\ m \in RW!Counts /\ m.got = k.got /\ m.lost = k.lost /\ m.seen = k.seen + 1
              /\ m.gone = k.gone /\ m.gaps = k.gaps /\ m.model = k.model + 1 /\ m.evid = k.evid
BY DEF RW!Counts

\* The counters one by one.
LEMMA CountOnes ==
  ASSUME n \in RW!Counts
  PROVE  /\ RW!Count("got") => n' \in RW!Counts /\ n'.got = n.got + 1 /\ n'.lost = n.lost
              /\ n'.seen = n.seen /\ n'.gone = n.gone /\ n'.gaps = n.gaps /\ n'.model = n.model /\ n'.evid = n.evid
         /\ RW!Count("lost") => n' \in RW!Counts /\ n'.got = n.got /\ n'.lost = n.lost + 1
              /\ n'.seen = n.seen /\ n'.gone = n.gone /\ n'.gaps = n.gaps /\ n'.model = n.model /\ n'.evid = n.evid
         /\ RW!Count("seen") => n' \in RW!Counts /\ n'.got = n.got /\ n'.lost = n.lost
              /\ n'.seen = n.seen + 1 /\ n'.gone = n.gone /\ n'.gaps = n.gaps /\ n'.model = n.model /\ n'.evid = n.evid
         /\ RW!Count("gone") => n' \in RW!Counts /\ n'.got = n.got /\ n'.lost = n.lost
              /\ n'.seen = n.seen /\ n'.gone = n.gone + 1 /\ n'.gaps = n.gaps /\ n'.model = n.model /\ n'.evid = n.evid
         /\ RW!Count("gaps") => n' \in RW!Counts /\ n'.got = n.got /\ n'.lost = n.lost
              /\ n'.seen = n.seen /\ n'.gone = n.gone /\ n'.gaps = n.gaps + 1 /\ n'.model = n.model /\ n'.evid = n.evid
         /\ RW!Count("evid") => n' \in RW!Counts /\ n'.got = n.got /\ n'.lost = n.lost
              /\ n'.seen = n.seen /\ n'.gone = n.gone /\ n'.gaps = n.gaps /\ n'.model = n.model /\ n'.evid = n.evid + 1
BY DEF RW!Count, RW!Counts

\* It begins with nothing.
LEMMA WorkerStarts ==
  ASSUME RW!Init
  PROVE  WorkerWhole
<1>0. 0 \in 0 .. QueueLimit /\ 0 \in 0 .. MaxStarts /\ 0 \in 0 .. Budget BY WorkerSizes
<1>1. WorkerTyped BY <1>0 DEF RW!Init, WorkerTyped
<1>2. RW!Zero \in RW!Counts BY DEF RW!Zero, RW!Counts
<1> QED BY <1>1, <1>2 DEF RW!Init, WorkerWhole, Locked, Counted, Saved

\* A fault is one of those that are allowed.
LEMMA FaultTyped ==
  ASSUME WorkerTyped, RW!Fault, n \in RW!Counts
  PROVE  faults' \in 0 .. Budget
BY WorkerSizes DEF WorkerTyped, RW!Fault, RW!WithinBudget, RW!Counts

\* A process that ends leaves what is saved.
LEMMA EndKeeps ==
  ASSUME WorkerWhole, RW!Ends, snap' # RW!NoSnapshot => Savable(snap'),
         starts' = starts, faults' \in 0 .. Budget
  PROVE  WorkerWhole'
<1>0. 0 \in 0 .. QueueLimit BY WorkerSizes
<1>1. WorkerTyped' BY <1>0 DEF RW!Ends, WorkerWhole, WorkerTyped
<1>2. RW!Zero \in RW!Counts BY DEF RW!Zero, RW!Counts
<1> QED BY <1>1, <1>2 DEF RW!Ends, WorkerWhole, Locked, Counted, Saved

\* A start takes up what is saved; what was left is gone.
LEMMA StartKeeps ==
  ASSUME WorkerWhole, RW!Start
  PROVE  WorkerWhole'
<1>1. WorkerTyped'
  <2>1. starts' \in 0 .. MaxStarts BY WorkerSizes DEF RW!Start, WorkerWhole, WorkerTyped
  <2> QED BY <2>1 DEF RW!Start, RW!link, WorkerWhole, WorkerTyped
<1>2. Locked' /\ Saved' /\ snap' = snap /\ svc' = "first" /\ handler' = "idle" /\ queue' = 0
      /\ step' = "none"
  <2>1. lock = "none" /\ step = "none" /\ handler = "idle" /\ saver = "off" /\ queue = 0
    BY DEF RW!Start, WorkerWhole, WorkerTyped, Locked
  <2>2. UNCHANGED <<lock, step, handler, saver, queue, cap, snap>> /\ svc' = "first" BY DEF RW!Start
  <2> QED BY <2>1, <2>2 DEF WorkerWhole, Locked, Saved
<1>3. CASE snap = RW!NoSnapshot
  <2>1. n' = RW!Zero BY <1>3 DEF RW!Start
  <2> QED BY <1>1, <1>2, <2>1 DEF WorkerWhole, Counted, UnderWay, RW!Zero, RW!Counts
<1>4. CASE snap # RW!NoSnapshot
  <2>1. n' = [snap EXCEPT !.gone = snap.got - snap.lost - snap.seen, !.evid = snap.model]
    BY <1>4 DEF RW!Start
  <2>2. Savable(snap) BY <1>4 DEF WorkerWhole, Saved
  <2>3. /\ snap.got \in Nat /\ snap.lost \in Nat /\ snap.seen \in Nat /\ snap.model \in Nat
        /\ snap.got - snap.lost - snap.seen \in Nat BY <2>2 DEF Savable, RW!Counts
  <2>4. /\ n' \in RW!Counts /\ n'.got = snap.got /\ n'.lost = snap.lost /\ n'.seen = snap.seen
        /\ n'.gone = snap.got - snap.lost - snap.seen /\ n'.model = snap.model /\ n'.evid = snap.model
    BY <2>1, <2>2, <2>3 DEF Savable, RW!Counts
  <2> QED BY <1>1, <1>2, <1>4, <2>3, <2>4 DEF WorkerWhole, Counted, UnderWay
<1> QED BY <1>3, <1>4

\* The first snapshot of a worker is taken before its first message; what was missed before is a gap.
LEMMA FirstSaveKeeps ==
  ASSUME WorkerWhole, RW!FirstSave
  PROVE  WorkerWhole'
<1>1. WorkerTyped' /\ Locked' BY DEF RW!FirstSave, WorkerWhole, WorkerTyped, Locked
<1>2. n \in RW!Counts /\ step = "none" /\ handler = "idle" /\ queue = 0
      /\ n.got = n.lost + n.seen + n.gone /\ n.model <= n.evid
  BY DEF RW!FirstSave, WorkerWhole, Locked, Counted, UnderWay, WorkerTyped, RW!Counts
<1>3. Savable(n) BY <1>2 DEF Savable, RW!Counts
<1>4. Saved' BY <1>2, <1>3 DEF RW!FirstSave, WorkerWhole, Saved
<1>5. CASE snap = RW!NoSnapshot
  <2>1. n' = n BY <1>5 DEF RW!FirstSave, RW!RestartGap
  <2>2. n.gone = 0 BY <1>2, <1>5 DEF RW!FirstSave, WorkerWhole, Counted, RW!Counts
  <2> QED BY <1>1, <1>2, <1>4, <2>1, <2>2 DEF RW!FirstSave, WorkerWhole, Counted, UnderWay
<1>6. CASE snap # RW!NoSnapshot
  <2>1. n' = [n EXCEPT !.gaps = @ + 1] BY <1>6 DEF RW!FirstSave, RW!RestartGap
  <2>2. n' \in RW!Counts /\ n'.got = n.got /\ n'.lost = n.lost /\ n'.seen = n.seen
        /\ n'.gone = n.gone /\ n'.model = n.model /\ n'.evid = n.evid /\ n'.gaps > 0
    BY <1>2, <2>1 DEF RW!Counts
  <2> QED BY <1>1, <1>2, <1>4, <2>2 DEF RW!FirstSave, WorkerWhole, Counted, UnderWay
<1> QED BY <1>5, <1>6

\* What the network thread and the reconnect task do to the connection.
LEMMA NetworkKeeps ==
  ASSUME WorkerWhole, RW!Network
  PROVE  WorkerWhole'
<1>0. n \in RW!Counts BY DEF WorkerWhole, Counted
<1>1. CASE RW!Suback
  BY <1>1 DEF RW!Suback, RW!Rest, WorkerWhole, WorkerTyped, Locked, Counted, UnderWay, Saved
<1>2. CASE RW!ConnectFails
  <2>1. faults' \in 0 .. Budget BY <1>0, <1>2, FaultTyped DEF RW!ConnectFails, WorkerWhole
  <2> QED
    BY <1>2, <2>1 DEF RW!ConnectFails, RW!Rest, WorkerWhole, WorkerTyped, Locked, Counted, UnderWay, Saved
<1>3. CASE RW!Disconnect
  <2>1. faults' \in 0 .. Budget BY <1>0, <1>3, FaultTyped DEF RW!Disconnect, WorkerWhole
  <2>2. WorkerTyped' /\ Locked' /\ Saved' /\ UNCHANGED <<svc, fatal, fenced, queue, handler, step, snap>>
    <3>1. UNCHANGED <<svc, retry, halt, fatal, fenced, queue, handler, saver, lock, step, cap, snap, starts>>
          /\ net' = "none" /\ linked' \in BOOLEAN /\ ensure' \in BOOLEAN
          /\ future' \in {"none", "pending", "ok", "failed"}
      BY <1>3 DEF RW!Disconnect, RW!Rest, WorkerWhole, WorkerTyped
    <3>2. WorkerTyped' BY <2>1, <3>1 DEF WorkerWhole, WorkerTyped
    <3> QED BY <3>1, <3>2 DEF WorkerWhole, Locked, Saved
  <2>3. n' = n \/ RW!Count("gaps") BY <1>3 DEF RW!Disconnect
  <2>4. n' \in RW!Counts /\ n'.got = n.got /\ n'.lost = n.lost /\ n'.seen = n.seen
        /\ n'.gone = n.gone /\ n'.model = n.model /\ n'.evid = n.evid /\ n'.gaps >= n.gaps
    BY <1>0, <2>3, CountOnes DEF RW!Counts
  <2>5. n.gaps \in Nat /\ n'.gaps \in Nat BY <1>0, <2>4 DEF RW!Counts
  <2> QED BY <2>2, <2>4, <2>5 DEF WorkerWhole, Counted, UnderWay
<1>4. CASE RW!Ensure
  <2>1. UNCHANGED <<svc, n, halt, fatal, fenced, queue, handler, saver, lock, step, cap, snap, starts, faults>>
    BY <1>4 DEF RW!Ensure, RW!Rest
  <2>2. /\ net' \in {"none", "subscribing", "up"} /\ future' \in {"none", "pending", "ok", "failed"}
        /\ linked' \in BOOLEAN /\ ensure' \in BOOLEAN /\ retry' \in {"none", "waiting", "connecting"}
    BY <1>4 DEF RW!Ensure, RW!ReconnectDone, WorkerWhole, WorkerTyped
  <2>3. WorkerTyped' BY <2>1, <2>2 DEF WorkerWhole, WorkerTyped
  <2> QED BY <2>1, <2>3 DEF WorkerWhole, Locked, Counted, UnderWay, Saved
<1>5. CASE RW!Reconnect
  <2>1. UNCHANGED <<svc, n, halt, fatal, fenced, queue, handler, saver, lock, step, cap, snap, starts, faults>>
    BY <1>5 DEF RW!Reconnect, RW!Rest
  <2>2. /\ net' \in {"none", "subscribing", "up"} /\ future' \in {"none", "pending", "ok", "failed"}
        /\ linked' \in BOOLEAN /\ ensure' \in BOOLEAN /\ retry' \in {"none", "waiting", "connecting"}
    BY <1>5 DEF RW!Reconnect, RW!ReconnectDone, WorkerWhole, WorkerTyped
  <2>3. WorkerTyped' BY <2>1, <2>2 DEF WorkerWhole, WorkerTyped
  <2> QED BY <2>1, <2>3 DEF WorkerWhole, Locked, Counted, UnderWay, Saved
<1>6. CASE RW!ReconnectReturns
  <2>1. UNCHANGED <<svc, n, halt, fatal, fenced, queue, handler, saver, lock, step, cap, snap, starts, faults>>
    BY <1>6 DEF RW!ReconnectReturns, RW!Rest
  <2>2. /\ net' \in {"none", "subscribing", "up"} /\ future' \in {"none", "pending", "ok", "failed"}
        /\ linked' \in BOOLEAN /\ ensure' \in BOOLEAN /\ retry' \in {"none", "waiting", "connecting"}
    BY <1>6 DEF RW!ReconnectReturns, RW!ReconnectDone, WorkerWhole, WorkerTyped
  <2>3. WorkerTyped' BY <2>1, <2>2 DEF WorkerWhole, WorkerTyped
  <2> QED BY <2>1, <2>3 DEF WorkerWhole, Locked, Counted, UnderWay, Saved
<1>7. CASE RW!Receive
  <2>1. queue' \in 0 .. QueueLimit BY <1>7, WorkerSizes DEF RW!Receive, WorkerWhole, WorkerTyped
  <2>2. WorkerTyped' /\ Locked' /\ Saved' /\ UNCHANGED <<svc, fatal, fenced, handler, step, snap>>
    BY <1>7, <2>1 DEF RW!Receive, RW!Live, RW!link, WorkerWhole, WorkerTyped, Locked, Saved
  <2>3. CASE RW!Counted("got", "lost") /\ UNCHANGED queue
    <3>1. /\ n' \in RW!Counts /\ n'.got = n.got + 1 /\ n'.lost = n.lost + 1 /\ n'.seen = n.seen
          /\ n'.gone = n.gone /\ n'.gaps = n.gaps /\ n'.model = n.model /\ n'.evid = n.evid
      BY <1>0, <2>3, CountBoth DEF RW!Counted
    <3> QED BY <1>0, <2>2, <2>3, <3>1 DEF WorkerWhole, WorkerTyped, Counted, UnderWay, RW!Counts
  <2>4. CASE RW!Count("got") /\ queue' = queue + 1
    <3> QED BY <1>0, <2>2, <2>4, CountOnes DEF WorkerWhole, WorkerTyped, Counted, UnderWay, RW!Counts
  <2> QED BY <1>7, <2>3, <2>4 DEF RW!Receive
<1> QED BY <1>1, <1>2, <1>3, <1>4, <1>5, <1>6, <1>7 DEF RW!Network

\* A message is taken from the queue.
LEMMA TakeKeeps ==
  ASSUME WorkerWhole, RW!Take
  PROVE  WorkerWhole'
<1>1. queue \in Nat /\ queue' = queue - 1 /\ queue' \in 0 .. QueueLimit
  BY WorkerSizes DEF RW!Take, WorkerWhole, WorkerTyped
<1>2. /\ handler = "idle" /\ handler' = "waiting" /\ svc \in {"connecting", "running", "closing"}
      /\ UNCHANGED <<svc, fenced, net, linked, future, ensure, retry, starts, halt, fatal, saver, lock, step,
                     n, cap, snap, faults>> BY DEF RW!Take, RW!Away, RW!link, RW!Live
<1>3. WorkerTyped' /\ Locked' /\ Saved' BY <1>1, <1>2 DEF WorkerWhole, WorkerTyped, Locked, Saved
<1>4. UnderWay = 0 /\ UnderWay' = 1 BY <1>2 DEF UnderWay, WorkerWhole, WorkerTyped, Locked
<1>5. n.got \in Nat /\ n.lost \in Nat /\ n.seen \in Nat /\ n.gone \in Nat
  BY DEF WorkerWhole, Counted, RW!Counts
<1> QED BY <1>1, <1>2, <1>3, <1>4, <1>5 DEF WorkerWhole, Counted

\* It is handled, or let go after an error.
LEMMA BeginKeeps ==
  ASSUME WorkerWhole, RW!Begin
  PROVE  WorkerWhole'
<1>0. n \in RW!Counts BY DEF WorkerWhole, Counted
<1>1. /\ handler = "waiting" /\ lock = "none" /\ step = "none" /\ saver # "busy"
      /\ svc \notin {"down", "first", "final"}
      /\ UNCHANGED <<svc, fenced, net, linked, future, ensure, retry, starts, queue, saver, cap, snap, faults>>
  BY DEF RW!Begin, RW!Away, RW!link, WorkerWhole, Locked
<1>2. UnderWay = 1 BY <1>1 DEF UnderWay
<1>3. CASE fatal = "none" /\ ~fenced
  <2>1. handler' = "busy" /\ lock' = "handler" /\ step' = "model" /\ UNCHANGED <<fatal, halt, n>>
    BY <1>3 DEF RW!Begin
  <2>2. WorkerTyped' /\ Locked' /\ Saved' /\ UnderWay' = 1
    BY <1>1, <2>1 DEF WorkerWhole, WorkerTyped, Locked, Saved, UnderWay
  <2> QED BY <1>1, <1>2, <2>1, <2>2 DEF WorkerWhole, Counted
<1>4. CASE ~(fatal = "none" /\ ~fenced)
  <2>1. handler' = "idle" /\ RW!Count("gone") /\ fatal' # "none" /\ fatal' \in {fatal, "persistence"}
        /\ halt' \in BOOLEAN /\ UNCHANGED <<lock, step>>
    BY <1>4 DEF RW!Begin, RW!Stops, WorkerWhole, WorkerTyped
  <2>2. WorkerTyped' /\ Locked' /\ Saved' /\ UnderWay' = 0
    BY <1>1, <2>1 DEF WorkerWhole, WorkerTyped, Locked, Saved, UnderWay
  <2>3. /\ n' \in RW!Counts /\ n'.got = n.got /\ n'.lost = n.lost /\ n'.seen = n.seen
        /\ n'.gone = n.gone + 1 /\ n'.gaps = n.gaps /\ n'.model = n.model /\ n'.evid = n.evid
    BY <1>0, <2>1, CountOnes
  <2> QED BY <1>0, <1>1, <1>2, <2>1, <2>2, <2>3 DEF WorkerWhole, WorkerTyped, Counted, RW!Counts
<1> QED BY <1>3, <1>4

\* The pipeline drops it, holds it, or advances the model by it.
LEMMA InferKeeps ==
  ASSUME WorkerWhole, RW!Infer, svc # "down"
  PROVE  WorkerWhole'
<1>0. n \in RW!Counts BY DEF WorkerWhole, Counted
<1>1. /\ lock = "handler" /\ step = "model" /\ handler = "busy" /\ saver # "busy"
      /\ svc \notin {"down", "first", "final"} /\ step' \in {"save", "evidence"}
      /\ UNCHANGED <<svc, fenced, net, linked, future, ensure, retry, starts, halt, fatal, queue, handler,
                     saver, lock, cap, snap, faults>>
  BY DEF RW!Infer, RW!Away, RW!link, WorkerWhole, WorkerTyped, Locked
<1>2. WorkerTyped' /\ Locked' /\ Saved' /\ UnderWay = 1 /\ UnderWay' = 0
  BY <1>1 DEF WorkerWhole, WorkerTyped, Locked, Saved, UnderWay
<1>3. CASE RW!Count("lost") /\ step' = "save"
  <2>1. /\ n' \in RW!Counts /\ n'.got = n.got /\ n'.lost = n.lost + 1 /\ n'.seen = n.seen
        /\ n'.gone = n.gone /\ n'.gaps = n.gaps /\ n'.model = n.model /\ n'.evid = n.evid
    BY <1>0, <1>3, CountOnes
  <2> QED BY <1>0, <1>1, <1>2, <1>3, <2>1 DEF WorkerWhole, WorkerTyped, Counted, RW!Counts
<1>4. CASE RW!Count("seen") /\ step' = "save"
  <2>1. /\ n' \in RW!Counts /\ n'.got = n.got /\ n'.lost = n.lost /\ n'.seen = n.seen + 1
        /\ n'.gone = n.gone /\ n'.gaps = n.gaps /\ n'.model = n.model /\ n'.evid = n.evid
    BY <1>0, <1>4, CountOnes
  <2> QED BY <1>0, <1>1, <1>2, <1>4, <2>1 DEF WorkerWhole, WorkerTyped, Counted, RW!Counts
<1>5. CASE RW!Counted("seen", "model") /\ step' = "evidence"
  <2>1. /\ n' \in RW!Counts /\ n'.got = n.got /\ n'.lost = n.lost /\ n'.seen = n.seen + 1
        /\ n'.gone = n.gone /\ n'.gaps = n.gaps /\ n'.model = n.model + 1 /\ n'.evid = n.evid
    BY <1>0, <1>5, CountBoth DEF RW!Counted
  <2> QED BY <1>0, <1>1, <1>2, <1>5, <2>1 DEF WorkerWhole, WorkerTyped, Counted, RW!Counts
<1> QED BY <1>3, <1>4, <1>5 DEF RW!Infer

\* A model that fails is quarantined, and what it was given is lost.
LEMMA WorkerFailsKeeps ==
  ASSUME WorkerWhole, RW!ExecutionFails
  PROVE  WorkerWhole'
<1>0. n \in RW!Counts BY DEF WorkerWhole, Counted
<1>1. faults' \in 0 .. Budget BY <1>0, FaultTyped DEF RW!ExecutionFails, WorkerWhole
<1>2. /\ step \in {"model", "save"} /\ fatal' = "execution" /\ lock # "none" /\ step' = "none"
      /\ (lock = "handler" => handler' = "failing" /\ UNCHANGED <<saver, lock>>)
      /\ (lock = "saver" => saver' = "failing" /\ lock' = "none" /\ UNCHANGED handler)
      /\ (step = "model" => lock = "handler") /\ svc \notin {"down", "first", "final"}
      /\ cap' = RW!NoSnapshot
      /\ UNCHANGED <<svc, fenced, net, linked, future, ensure, retry, starts, halt, queue, snap>>
  BY DEF RW!ExecutionFails, RW!Release, RW!Away, RW!link, WorkerWhole, WorkerTyped, Locked, Saved
<1>3. WorkerTyped' /\ Locked' /\ Saved' BY <1>1, <1>2 DEF WorkerWhole, WorkerTyped, Locked, Saved
<1>4. CASE step = "model"
  <2>1. /\ n' \in RW!Counts /\ n'.got = n.got /\ n'.lost = n.lost + 1 /\ n'.seen = n.seen
        /\ n'.gone = n.gone /\ n'.gaps = n.gaps /\ n'.model = n.model /\ n'.evid = n.evid
    BY <1>0, <1>4, CountOnes DEF RW!ExecutionFails
  <2>2. UnderWay = 1 /\ UnderWay' = 0 BY <1>2, <1>4 DEF UnderWay
  <2> QED BY <1>0, <1>2, <1>3, <1>4, <2>1, <2>2 DEF WorkerWhole, WorkerTyped, Counted, RW!Counts
<1>5. CASE step = "save"
  <2>1. n' = n BY <1>5 DEF RW!ExecutionFails
  <2>2. UnderWay' = UnderWay
    <3>1. CASE lock = "handler" BY <1>2, <1>5, <3>1 DEF UnderWay, WorkerWhole, Locked
    <3>2. CASE lock = "saver" BY <1>2, <1>5, <3>2 DEF UnderWay
    <3> QED BY <1>2, <3>1, <3>2 DEF WorkerWhole, WorkerTyped
  <2> QED BY <1>0, <1>2, <1>3, <1>5, <2>1, <2>2 DEF WorkerWhole, WorkerTyped, Counted
<1> QED BY <1>2, <1>4, <1>5

\* What the lock's holder leaves: its place is free, and nothing is being saved.
LEMMA WorkerReleases ==
  ASSUME WorkerWhole, lock \in {"handler", "saver"}, RW!Release, RW!Idle \/ RW!Fails, step # "model"
  PROVE  /\ lock' = "none" /\ step' = "none" /\ cap' = RW!NoSnapshot
         /\ lock = "handler" => handler' = "idle" /\ saver' = saver /\ saver # "busy"
         /\ lock = "saver" => saver' \in {"idle", "off"} /\ handler' = handler /\ svc \in {"running", "closing"}
         /\ handler' \in {"idle", "waiting"} /\ UnderWay' = UnderWay
<1>1. CASE lock = "handler"
  BY <1>1 DEF RW!Release, RW!Idle, RW!Fails, WorkerWhole, WorkerTyped, Locked, UnderWay
<1>2. CASE lock = "saver"
  BY <1>2 DEF RW!Release, RW!Idle, RW!Fails, WorkerWhole, WorkerTyped, Locked, UnderWay
<1> QED BY <1>1, <1>2

\* Evidence is queued, or the worker meets its successor.
LEMMA EnqueueKeeps ==
  ASSUME WorkerWhole, RW!Enqueue
  PROVE  WorkerWhole'
<1>0. n \in RW!Counts BY DEF WorkerWhole, Counted
<1>1. /\ lock = "handler" /\ step = "evidence" /\ handler = "busy" /\ saver # "busy" /\ UnderWay = 0
      /\ svc \notin {"down", "first", "final"} /\ cap = RW!NoSnapshot
      /\ UNCHANGED <<svc, fenced, net, linked, future, ensure, retry, starts, queue, saver, snap, faults>>
  BY DEF RW!Enqueue, RW!Away, RW!link, WorkerWhole, WorkerTyped, Locked, Saved, UnderWay
<1>2. CASE fenced
  <2>1. /\ fatal' = "persistence" /\ halt' \in BOOLEAN /\ lock' = "none" /\ step' = "none"
        /\ cap' = RW!NoSnapshot /\ handler' = "idle" /\ n' = n /\ UnderWay' = 0
    BY <1>2 DEF RW!Enqueue, RW!Stops, RW!Release, UnderWay
  <2>2. WorkerTyped' /\ Locked' /\ Saved' BY <1>1, <2>1 DEF WorkerWhole, WorkerTyped, Locked, Saved
  <2> QED BY <1>1, <1>2, <2>1, <2>2 DEF WorkerWhole, Counted
<1>3. CASE ~fenced
  <2>1. /\ UNCHANGED <<fatal, halt, lock, handler, cap>> /\ step' = "save" /\ RW!Count("evid") /\ UnderWay' = 0
    BY <1>1, <1>3 DEF RW!Enqueue, UnderWay
  <2>2. WorkerTyped' /\ Locked' /\ Saved' BY <1>1, <2>1 DEF WorkerWhole, WorkerTyped, Locked, Saved
  <2>3. /\ n' \in RW!Counts /\ n'.got = n.got /\ n'.lost = n.lost /\ n'.seen = n.seen
        /\ n'.gone = n.gone /\ n'.gaps = n.gaps /\ n'.model = n.model /\ n'.evid = n.evid + 1
    BY <1>0, <2>1, CountOnes
  <2> QED BY <1>0, <1>1, <1>3, <2>1, <2>2, <2>3 DEF WorkerWhole, Counted, RW!Counts
<1> QED BY <1>2, <1>3

\* A failure that is reported frees the lock of a handler.
LEMMA FailureReportedKeeps ==
  ASSUME WorkerWhole, RW!FailureReported
  PROVE  WorkerWhole'
<1>1. /\ halt' \in BOOLEAN
      /\ UNCHANGED <<svc, fenced, net, linked, future, ensure, retry, starts, fatal, queue, n, snap, faults>>
  BY DEF RW!FailureReported, RW!Away, RW!link
<1>2. CASE handler = "failing" /\ handler' = "idle" /\ RW!Release /\ UNCHANGED saver
  <2>1. /\ lock = "handler" /\ step = "none" /\ lock' = "none" /\ step' = "none" /\ cap' = RW!NoSnapshot
        /\ UnderWay = 0 /\ UnderWay' = 0 BY <1>2 DEF RW!Release, WorkerWhole, Locked, UnderWay
  <2>2. WorkerTyped' /\ Locked' /\ Saved' BY <1>1, <1>2, <2>1 DEF WorkerWhole, WorkerTyped, Locked, Saved
  <2> QED BY <1>1, <2>1, <2>2 DEF WorkerWhole, Counted
<1>3. CASE saver = "failing" /\ saver' = "off" /\ UNCHANGED <<handler, lock, step, cap>>
  <2>1. WorkerTyped' /\ Locked' /\ Saved' /\ UnderWay' = UnderWay
    BY <1>1, <1>3 DEF WorkerWhole, WorkerTyped, Locked, Saved, UnderWay
  <2> QED BY <1>1, <1>3, <2>1 DEF WorkerWhole, Counted
<1> QED BY <1>2, <1>3 DEF RW!FailureReported

\* The loop that saves takes the lock.
LEMMA SaverWakesKeeps ==
  ASSUME WorkerWhole, RW!SaverWakes
  PROVE  WorkerWhole'
<1>1. /\ saver = "idle" /\ lock = "none" /\ saver' = "busy" /\ lock' = "saver" /\ step' = "save" /\ step = "none"
      /\ svc \in {"running", "closing"}
      /\ UNCHANGED <<svc, fenced, net, linked, future, ensure, retry, starts, halt, fatal, queue, handler, n, cap,
                     snap, faults>> BY DEF RW!SaverWakes, RW!Away, RW!link, WorkerWhole, WorkerTyped, Locked
<1>2. WorkerTyped' /\ Locked' /\ Saved' /\ UnderWay' = UnderWay
  BY <1>1 DEF WorkerWhole, WorkerTyped, Locked, Saved, UnderWay
<1> QED BY <1>1, <1>2 DEF WorkerWhole, Counted

\* A snapshot is frozen between two messages, when the evidence of the last is queued.
LEMMA SaveOrNotKeeps ==
  ASSUME WorkerWhole, RW!SaveOrNot
  PROVE  WorkerWhole'
<1>0. /\ lock \in {"handler", "saver"} /\ step = "save" /\ cap = RW!NoSnapshot
      /\ svc \notin {"down", "first", "final"}
      /\ UNCHANGED <<svc, fenced, net, linked, future, ensure, retry, starts, queue, n, snap, faults>>
  BY DEF RW!SaveOrNot, RW!Away, RW!link, WorkerWhole, WorkerTyped, Locked, Saved
<1>1. CASE ~fenced /\ cap' = n /\ step' = "commit" /\ UNCHANGED <<fatal, halt, lock, handler, saver>>
  <2>1. WorkerTyped' /\ Locked' /\ UnderWay' = UnderWay
    BY <1>0, <1>1 DEF WorkerWhole, WorkerTyped, Locked, UnderWay
  <2>2. Savable(n) BY <1>0, <1>1 DEF WorkerWhole, WorkerTyped, Counted, UnderWay, Savable, RW!Counts
  <2>3. Saved' BY <1>0, <1>1, <2>2 DEF WorkerWhole, Saved
  <2>4. Counted' BY <1>0, <1>1, <2>1 DEF WorkerWhole, Counted
  <2> QED BY <2>1, <2>3, <2>4 DEF WorkerWhole
<1>2. CASE /\ RW!Release /\ (RW!Idle \/ RW!Fails)
           /\ (UNCHANGED <<fatal, halt>> \/ (fatal' = "persistence" /\ halt' \in BOOLEAN))
  <2>1. /\ lock' = "none" /\ step' = "none" /\ cap' = RW!NoSnapshot
        /\ lock = "handler" => handler' = "idle" /\ saver' = saver /\ saver # "busy"
        /\ lock = "saver" => saver' \in {"idle", "off"} /\ handler' = handler /\ svc \in {"running", "closing"}
        /\ handler' \in {"idle", "waiting"} /\ UnderWay' = UnderWay BY <1>0, <1>2, WorkerReleases
  <2>2. WorkerTyped' /\ Locked' /\ Saved' BY <1>0, <1>2, <2>1 DEF WorkerWhole, WorkerTyped, Locked, Saved
  <2>3. Counted' BY <1>0, <1>2, <2>1 DEF WorkerWhole, Counted
  <2> QED BY <2>2, <2>3 DEF WorkerWhole
<1> QED BY <1>1, <1>2 DEF RW!SaveOrNot, RW!Stops

\* A commit stores what was frozen, or fails, and may have stored it.
LEMMA CommitsKeep ==
  ASSUME WorkerWhole, RW!Commit \/ RW!CommitFails
  PROVE  WorkerWhole'
<1>0. n \in RW!Counts BY DEF WorkerWhole, Counted
<1>1. /\ lock \in {"handler", "saver"} /\ step = "commit" /\ Savable(cap)
      /\ svc \notin {"down", "first", "final"} /\ RW!Release /\ (RW!Idle \/ RW!Fails)
      /\ (UNCHANGED <<fatal, halt>> \/ (fatal' = "persistence" /\ halt' \in BOOLEAN))
      /\ snap' \in {snap, cap}
      /\ UNCHANGED <<svc, fenced, net, linked, future, ensure, retry, starts, queue, n>>
  BY DEF RW!Commit, RW!CommitFails, RW!Stops, RW!Away, RW!link, WorkerWhole, WorkerTyped, Locked, Saved
<1>2. faults' \in 0 .. Budget
  <2>1. RW!Fault \/ faults' = faults BY DEF RW!Commit, RW!CommitFails
  <2> QED BY <1>0, <2>1, FaultTyped DEF WorkerWhole, WorkerTyped
<1>3. /\ lock' = "none" /\ step' = "none" /\ cap' = RW!NoSnapshot
      /\ lock = "handler" => handler' = "idle" /\ saver' = saver /\ saver # "busy"
      /\ lock = "saver" => saver' \in {"idle", "off"} /\ handler' = handler /\ svc \in {"running", "closing"}
      /\ handler' \in {"idle", "waiting"} /\ UnderWay' = UnderWay BY <1>1, WorkerReleases
<1>4. WorkerTyped' /\ Locked' /\ Saved' BY <1>1, <1>2, <1>3 DEF WorkerWhole, WorkerTyped, Locked, Saved
<1>5. Counted' BY <1>1, <1>3 DEF WorkerWhole, Counted
<1> QED BY <1>4, <1>5 DEF WorkerWhole

\* What only moves the service, or tells it that it has a successor.
LEMMA ServiceKeeps ==
  ASSUME WorkerWhole, svc # "down",
         RW!StartFails \/ RW!Started \/ RW!Terminate \/ RW!Closes \/ RW!Fenced
  PROVE  WorkerWhole'
<1>0. n \in RW!Counts BY DEF WorkerWhole, Counted
<1>1. /\ faults' \in 0 .. Budget
      /\ UNCHANGED <<fatal, net, linked, ensure, retry, queue, handler, lock, step, n, cap, snap, starts>>
      /\ halt' \in BOOLEAN /\ fenced' \in BOOLEAN /\ (fenced => fenced')
      /\ future' \in {"none", "pending", "ok", "failed"}
  <2>1. RW!Fault \/ faults' = faults BY DEF RW!StartFails, RW!Started, RW!Terminate, RW!Closes, RW!Fenced
  <2>2. faults' \in 0 .. Budget BY <1>0, <2>1, FaultTyped DEF WorkerWhole, WorkerTyped
  <2> QED
    BY <2>2 DEF RW!StartFails, RW!Started, RW!Terminate, RW!Closes, RW!Fenced, RW!Away, RW!link,
                WorkerWhole, WorkerTyped
<1>2. \/ svc \in {"first", "connecting"} /\ svc' = "closing" /\ saver' = saver
      \/ svc = "connecting" /\ svc' = "running" /\ saver' = "idle"
      \/ svc = "running" /\ svc' = "closing" /\ saver' = saver
      \/ svc' = svc /\ saver' = saver
  BY DEF RW!StartFails, RW!Started, RW!Terminate, RW!Closes, RW!Fenced, RW!Away
<1>3. WorkerTyped' BY <1>1, <1>2 DEF WorkerWhole, WorkerTyped
<1>4. Locked' BY <1>1, <1>2 DEF WorkerWhole, WorkerTyped, Locked
<1>5. UnderWay' = UnderWay /\ Saved' BY <1>1 DEF UnderWay, WorkerWhole, Saved
<1>6. Counted' BY <1>1, <1>2, <1>5 DEF WorkerWhole, Counted
<1> QED BY <1>3, <1>4, <1>5, <1>6 DEF WorkerWhole

\* The loop is cancelled, and what it is committing is stored or not.
LEMMA StopKeeps ==
  ASSUME WorkerWhole, RW!StopIngestion
  PROVE  WorkerWhole'
<1>1. /\ svc = "closing" /\ svc' = "draining" /\ saver' = "off"
      /\ net' = "none" /\ linked' = FALSE /\ future' = "none" /\ ensure' = FALSE /\ retry' = "none"
      /\ UNCHANGED <<halt, fatal, fenced, queue, handler, n, starts, faults>> BY DEF RW!StopIngestion
<1>2. CASE lock = "saver"
  <2>1. /\ step = "commit" /\ Savable(cap) /\ handler \in {"idle", "waiting"}
        /\ lock' = "none" /\ step' = "none" /\ cap' = RW!NoSnapshot /\ snap' \in {snap, cap}
    BY <1>2 DEF RW!StopIngestion, RW!Release, WorkerWhole, WorkerTyped, Locked, Saved
  <2>2. WorkerTyped' /\ Locked' /\ Saved' BY <1>1, <2>1 DEF WorkerWhole, WorkerTyped, Locked, Saved
  <2>3. UnderWay' = UnderWay BY <1>1, <2>1 DEF UnderWay
  <2> QED BY <1>1, <2>2, <2>3, <2>1 DEF WorkerWhole, Counted
<1>3. CASE lock # "saver"
  <2>1. UNCHANGED <<lock, step, cap, snap>> BY <1>3 DEF RW!StopIngestion
  <2>2. WorkerTyped' /\ Locked' /\ Saved' /\ UnderWay' = UnderWay
    BY <1>1, <1>3, <2>1 DEF WorkerWhole, WorkerTyped, Locked, Saved, UnderWay
  <2> QED BY <1>1, <2>1, <2>2 DEF WorkerWhole, Counted
<1> QED BY <1>2, <1>3

\* The handler has ended, and the rest of the queue is counted as lost.
LEMMA DrainKeeps ==
  ASSUME WorkerWhole, RW!Drained
  PROVE  WorkerWhole'
<1>a. /\ svc = "draining" /\ handler = "idle" /\ lock = "none" /\ step = "none" /\ saver = "off"
  BY DEF RW!Drained, RW!HandlerDone, WorkerWhole, WorkerTyped, Locked
<1>b. UnderWay = 0 BY <1>a DEF UnderWay
<1>c. queue \in Nat /\ n \in RW!Counts BY WorkerSizes DEF WorkerWhole, WorkerTyped, Counted
<1>d. n.got = n.lost + n.seen + n.gone + queue
  <2>1. n.got = n.lost + n.seen + n.gone + queue + UnderWay BY <1>a DEF WorkerWhole, Counted
  <2> QED BY <1>b, <1>c, <2>1 DEF RW!Counts
<1>1. /\ svc = "draining" /\ handler = "idle" /\ lock = "none" /\ step = "none" /\ saver = "off"
      /\ UnderWay = 0 /\ n \in RW!Counts /\ queue \in Nat
      /\ n.got = n.lost + n.seen + n.gone + queue BY <1>a, <1>b, <1>c, <1>d
<1>2. /\ svc' = "final" /\ queue' = 0 /\ handler' = "idle" /\ lock' = "none" /\ step' = "none"
      /\ cap' = RW!NoSnapshot /\ n' = [n EXCEPT !.lost = @ + queue]
      /\ UNCHANGED <<halt, fatal, fenced, net, linked, future, ensure, retry, saver, snap, starts, faults>>
  BY DEF RW!Drained, RW!Release, RW!link
<1>3. /\ n' \in RW!Counts /\ n'.got = n.got /\ n'.lost = n.lost + queue /\ n'.seen = n.seen
      /\ n'.gone = n.gone /\ n'.gaps = n.gaps /\ n'.model = n.model /\ n'.evid = n.evid
  BY <1>1, <1>2 DEF RW!Counts
<1>0. 0 \in 0 .. QueueLimit BY WorkerSizes
<1>4. WorkerTyped' /\ Locked' /\ Saved' /\ UnderWay' = 0
  BY <1>0, <1>1, <1>2 DEF WorkerWhole, WorkerTyped, Locked, Saved, UnderWay
<1> QED BY <1>1, <1>2, <1>3, <1>4 DEF WorkerWhole, Counted, RW!Counts

\* A worker that ends, or is killed, leaves a snapshot that could be saved.
LEMMA LastKeeps ==
  ASSUME WorkerWhole, svc # "down", RW!FinalSave \/ RW!Crash
  PROVE  WorkerWhole'
<1>0. n \in RW!Counts BY DEF WorkerWhole, Counted
<1>1. RW!Ends /\ starts' = starts /\ (RW!Fault \/ faults' = faults) BY DEF RW!FinalSave, RW!Crash
<1>2. faults' \in 0 .. Budget BY <1>0, <1>1, FaultTyped DEF WorkerWhole, WorkerTyped
<1>3. snap' # RW!NoSnapshot => Savable(snap')
  <2>1. CASE RW!Crash BY <2>1 DEF RW!Crash, WorkerWhole, Saved
  <2>2. CASE RW!FinalSave
    <3>1. CASE snap' = snap BY <3>1 DEF WorkerWhole, Saved
    <3>2. CASE svc = "final" /\ ~fenced /\ snap' = n
      <4>1. handler = "idle" /\ queue = 0 /\ step = "none" BY <3>2 DEF WorkerWhole, WorkerTyped, Locked
      <4> QED BY <1>0, <3>2, <4>1 DEF WorkerWhole, Counted, UnderWay, Savable, RW!Counts
    <3> QED BY <2>2, <3>1, <3>2 DEF RW!FinalSave
  <2> QED BY <2>1, <2>2
<1> QED BY <1>1, <1>2, <1>3, EndKeeps

\* Every step of a worker keeps it.
LEMMA WorkerSteps ==
  ASSUME WorkerWhole, RW!Next \/ UNCHANGED RW!vars
  PROVE  WorkerWhole'
<1>1. CASE RW!Worker
  BY <1>1, FirstSaveKeeps, ServiceKeeps, TakeKeeps, BeginKeeps, InferKeeps, WorkerFailsKeeps, EnqueueKeeps,
     FailureReportedKeeps, SaverWakesKeeps, SaveOrNotKeeps, CommitsKeep, StopKeeps, DrainKeeps, LastKeeps
  DEF RW!Worker, RW!Alive
<1>2. CASE RW!Crash \/ RW!Fenced BY <1>2, LastKeeps, ServiceKeeps DEF RW!Crash, RW!Fenced
<1>3. CASE UNCHANGED RW!vars
  BY <1>3 DEF RW!vars, RW!link, WorkerWhole, WorkerTyped, Locked, Counted, UnderWay, Saved
<1> QED BY <1>1, <1>2, <1>3, StartKeeps, NetworkKeeps DEF RW!Next

\* A worker that keeps it accounts for every message, shows what it missed, and saves no observation
\* before its evidence.
LEMMA WorkerPromise ==
  ASSUME WorkerWhole
  PROVE  RW!WorkerTypeOK /\ RW!EveryMessage /\ RW!EvidenceFirst /\ RW!MissedIsShown
<1>1. RW!WorkerTypeOK BY DEF WorkerWhole, WorkerTyped, Counted, Saved, Savable, RW!WorkerTypeOK
<1>2. RW!EveryMessage BY DEF WorkerWhole, WorkerTyped, Locked, Counted, UnderWay, RW!EveryMessage, RW!Alive
<1>3. RW!EvidenceFirst BY DEF WorkerWhole, Saved, Savable, RW!EvidenceFirst
<1>4. RW!MissedIsShown BY DEF WorkerWhole, Counted, RW!MissedIsShown
<1> QED BY <1>1, <1>2, <1>3, <1>4

(* The story of a run.                                                     *)

\* A list of events, by number, or none.
Told(s) == s = RE!NoBeat \/ s \in Seq(1 .. recorded)

\* Those that are stored, waiting, carried by a report, or taken by the end.
Known == table \cup unsaved \cup RE!Range(waiting) \cup (RE!Range(report) \ {0})

\* The types of what is not a list.
EventsTyped ==
  /\ checks \in 0 .. MaxChecks /\ losses \in 0 .. MaxLosses /\ known \in 0 .. MaxLosses
  /\ recent \in BOOLEAN /\ started \in BOOLEAN /\ suspended \in BOOLEAN
  /\ stage \in RE!Stages /\ reason \in RE!Reasons

\* The events that wait are the newest, in order.
InLine(w, last) ==
  /\ w \in Seq(1 .. last) /\ Len(w) <= last
  /\ \A i \in 1 .. Len(w) : w[i] = last - Len(w) + i

\* The inductive invariant of the story: a heartbeat carries what waits, or what waited before a
\* failure took it over; before the end no report is written.
EventsWhole ==
  /\ EventsTyped
  /\ recorded \in Nat /\ overflow \in Nat /\ table \subseteq 1 .. recorded /\ unsaved \subseteq 1 .. recorded
  /\ InLine(waiting, recorded) /\ Told(beat) /\ Told(report)
  /\ beat # RE!NoBeat => beat = waiting \/ waiting = <<>>
  /\ ~suspended => report = RE!NoBeat
  /\ Cardinality((1 .. recorded) \ Known) <= overflow

\* The bounds of the story.
LEMMA EventSizes == MaxPending \in Nat \ {0} /\ MaxChecks \in Nat /\ MaxLosses \in Nat
BY ModelAssumption DEF RE!EventsAssumption

\* What is in a list.
LEMMA Listed == \A s : RE!Range(s) = {s[i] : i \in DOMAIN s}
BY DEF RE!Range

\* What is in a list of events is an event.
LEMMA EventsIn ==
  ASSUME NEW s, NEW k \in Nat, s \in Seq(1 .. k)
  PROVE  RE!Range(s) \subseteq 1 .. k /\ RE!Range(s) \ {0} = RE!Range(s) /\ s # RE!NoBeat
<1>1. RE!Range(s) \subseteq 1 .. k BY Listed
<1>2. s # RE!NoBeat
  <2>1. SUFFICES ASSUME s = RE!NoBeat PROVE FALSE OBVIOUS
  <2>2. s[1] \in 1 .. k BY <2>1 DEF RE!NoBeat
  <2> QED BY <2>1, <2>2 DEF RE!NoBeat
<1> QED BY <1>1, <1>2

\* No list, no event.
LEMMA NoEvents0 == RE!Range(RE!NoBeat) \ {0} = {} /\ RE!Range(<<>>) = {}
BY Listed DEF RE!NoBeat

\* It begins with nothing told.
LEMMA EventsStart ==
  ASSUME RE!Init
  PROVE  EventsWhole
<1>0. 0 \in 0 .. MaxChecks /\ 0 \in 0 .. MaxLosses BY EventSizes
<1>1. EventsTyped BY <1>0 DEF RE!Init, EventsTyped, RE!Stages, RE!Reasons
<1>2. 1 .. 0 = {} OBVIOUS
<1>3. (1 .. recorded) \ Known = {} BY <1>2 DEF RE!Init
<1>4. Cardinality((1 .. recorded) \ Known) = 0 BY <1>3, FS_EmptySet
<1>5. InLine(waiting, recorded) BY DEF RE!Init, InLine
<1> QED BY <1>1, <1>4, <1>5 DEF RE!Init, EventsWhole, Told

\* What is known of more events, of the same story, is no less.
LEMMA KnownStays ==
  ASSUME EventsWhole, recorded' = recorded, overflow' = overflow, Known \subseteq Known'
  PROVE  Cardinality((1 .. recorded') \ Known') <= overflow'
<1>1. recorded \in Nat BY DEF EventsWhole
<1> DEFINE m == (1 .. recorded) \ Known  m2 == (1 .. recorded) \ Known'
<1>2. IsFiniteSet(1 .. recorded) BY <1>1, FS_Interval
<1>3. IsFiniteSet(m) BY <1>2, FS_Subset
<1>4. m2 \subseteq m OBVIOUS
<1>5. Cardinality(m2) <= Cardinality(m) /\ IsFiniteSet(m2) BY <1>3, <1>4, FS_Subset
<1>6. Cardinality(m2) \in Nat /\ Cardinality(m) \in Nat BY <1>3, <1>5, FS_CardinalityType
<1>7. Cardinality(m) <= overflow /\ overflow \in Nat BY DEF EventsWhole
<1>8. Cardinality(m2) <= overflow BY <1>5, <1>6, <1>7
<1> QED BY <1>8

\* The stage and the reason of a view are among those there are.
LEMMA StagesTyped ==
  ASSUME NEW v \in RE!View
  PROVE  RE!StageOf(v) \in RE!Stages /\ RE!ReasonOf(v) \in RE!Reasons
<1>1. v.model \in {"preparing", "learning", "ready", "failed"} /\ v.stalled \in {"none", "inputs", "inference", "evidence"}
  BY DEF RE!View
<1>2. RE!RunningStage(v) \in {"operational", "learning"} BY DEF RE!RunningStage
<1>3. RE!StageOf(v) \in RE!Stages BY <1>1, <1>2 DEF RE!StageOf, RE!Stages
<1> QED BY <1>1, <1>3 DEF RE!ReasonOf, RE!Reasons, RE!StageOf

\* The larger of nothing and a number.
LEMMA NoLessThanNone ==
  ASSUME NEW x \in Int
  PROVE  RE!Max({0, x}) = IF x > 0 THEN x ELSE 0
<1> DEFINE g == IF x > 0 THEN x ELSE 0
<1>1. g \in {0, x} /\ \A y \in {0, x} : g >= y OBVIOUS
<1>2. \A z \in {0, x} : (\A y \in {0, x} : z >= y) => z = g OBVIOUS
<1> QED BY <1>1, <1>2 DEF RE!Max

\* What waits, with the next ones behind it.
LEMMA NextInLine ==
  ASSUME NEW k \in Nat, InLine(waiting, recorded), recorded \in Nat
  PROVE  LET all == waiting \o RE!Numbered(k) IN
         /\ all \in Seq(1 .. (recorded + k)) /\ Len(all) = Len(waiting) + k
         /\ \A i \in 1 .. Len(all) : all[i] = recorded - Len(waiting) + i
<1> DEFINE new == RE!Numbered(k)  all == waiting \o new
<1>1. new \in Seq(1 .. (recorded + k)) /\ Len(new) = k /\ \A i \in 1 .. k : new[i] = recorded + i
  <2>1. new = [i \in 1 .. k |-> recorded + i] BY DEF RE!Numbered
  <2>2. \A i \in 1 .. k : recorded + i \in 1 .. (recorded + k) OBVIOUS
  <2> QED BY <2>1, <2>2
<1>2. waiting \in Seq(1 .. recorded) /\ Len(waiting) \in Nat BY DEF InLine
<1>3. waiting \in Seq(1 .. (recorded + k))
  <2>1. 1 .. recorded \subseteq 1 .. (recorded + k) OBVIOUS
  <2> QED BY <1>2, <2>1, SeqMonotonic
<1> HIDE DEF new
<1>4. all \in Seq(1 .. (recorded + k)) /\ Len(all) = Len(waiting) + k
  <2> DEFINE S == 1 .. (recorded + k)
  <2>1. waiting \in Seq(S) /\ new \in Seq(S) BY <1>1, <1>3
  <2> HIDE DEF S
  <2>2. all \in Seq(S) /\ Len(all) = Len(waiting) + Len(new) BY <2>1, ConcatProperties
  <2> QED BY <1>1, <2>2 DEF S
<1>5. ASSUME NEW i \in 1 .. Len(all)
      PROVE  all[i] = recorded - Len(waiting) + i
  <2>1. CASE i <= Len(waiting)
    <3>1. all[i] = waiting[i] /\ i \in 1 .. Len(waiting) BY <2>1, <1>1, <1>2, <1>3, <1>4
    <3> QED BY <3>1 DEF InLine
  <2>2. CASE i > Len(waiting)
    <3>1. all[i] = new[i - Len(waiting)] /\ i - Len(waiting) \in 1 .. k BY <2>2, <1>1, <1>2, <1>3, <1>4
    <3> QED BY <3>1, <1>1, <1>2
  <2> QED BY <2>1, <2>2, <1>2, <1>4
<1> QED BY <1>4, <1>5 DEF new

\* The newest of a line are in line.
LEMMA NewestInLine ==
  ASSUME NEW s, NEW k \in Nat, NEW b \in Nat, InLine(s, k), b <= Len(s)
  PROVE  /\ InLine(SubSeq(s, Len(s) - b + 1, Len(s)), k)
         /\ Len(SubSeq(s, Len(s) - b + 1, Len(s))) = b
         /\ \A i \in 1 .. b : SubSeq(s, Len(s) - b + 1, Len(s))[i] = k - b + i
<1>1. s \in Seq(1 .. k) /\ Len(s) \in Nat /\ Len(s) <= k BY DEF InLine
<1> DEFINE u == SubSeq(s, Len(s) - b + 1, Len(s))
<1>2. u \in Seq(1 .. k) /\ Len(u) = b BY <1>1, SubSeqProperties
<1>3. \A i \in 1 .. b : u[i] = s[Len(s) - b + i] BY <1>1, <1>2, SubSeqProperties
<1>4. \A i \in 1 .. b : u[i] = k - b + i
  <2> TAKE i \in 1 .. b
  <2>1. Len(s) - b + i \in 1 .. Len(s) BY <1>1
  <2>2. s[Len(s) - b + i] = k - Len(s) + (Len(s) - b + i) BY <2>1 DEF InLine
  <2> QED BY <2>2, <1>3, <1>1
<1> HIDE DEF u
<1>5. InLine(u, k)
  <2>1. b <= k BY <1>1
  <2>2. \A i \in 1 .. Len(u) : u[i] = k - Len(u) + i BY <1>2, <1>4
  <2> QED BY <1>2, <2>1, <2>2 DEF InLine
<1> QED BY <1>2, <1>4, <1>5 DEF u

\* A check tells what changed: what waits are the newest, and what they push out is counted.
LEMMA RecordKeeps ==
  ASSUME EventsWhole, NEW k \in Nat, RE!Record(k), UNCHANGED <<table, unsaved, report>>
  PROVE  /\ recorded' \in Nat /\ overflow' \in Nat /\ recorded <= recorded' /\ InLine(waiting', recorded')
         /\ Cardinality((1 .. recorded') \ Known') <= overflow'
<1> DEFINE all == waiting \o RE!Numbered(k)  r == recorded + k
<1>1. recorded \in Nat /\ overflow \in Nat /\ InLine(waiting, recorded) /\ Len(waiting) \in Nat
      /\ Len(waiting) <= recorded BY DEF EventsWhole, InLine
<1>2. all \in Seq(1 .. r) /\ Len(all) = Len(waiting) + k
      /\ \A i \in 1 .. Len(all) : all[i] = recorded - Len(waiting) + i BY <1>1, NextInLine
<1>3. /\ waiting' = IF Len(all) > MaxPending THEN SubSeq(all, Len(all) - MaxPending + 1, Len(all)) ELSE all
      /\ recorded' = r /\ overflow' = overflow + RE!Max({0, Len(waiting) + k - MaxPending})
  BY DEF RE!Record, RE!Overflow
<1> HIDE DEF all
<1>4. InLine(all, r)
  <2>1. \A i \in 1 .. Len(all) : all[i] = r - Len(all) + i BY <1>1, <1>2
  <2> QED BY <1>1, <1>2, <2>1 DEF InLine
<1>5. r \in Nat /\ recorded <= r BY <1>1
<1>6. RE!Max({0, Len(waiting) + k - MaxPending}) =
        IF Len(waiting) + k > MaxPending THEN Len(waiting) + k - MaxPending ELSE 0
  BY <1>1, EventSizes, NoLessThanNone
<1>7. overflow' \in Nat BY <1>1, <1>3, <1>6, EventSizes
<1>8. InLine(waiting', r)
  <2>1. CASE Len(all) > MaxPending
    <3>1. MaxPending \in Nat /\ MaxPending <= Len(all) BY <2>1, <1>1, <1>2, EventSizes
    <3>2. InLine(SubSeq(all, Len(all) - MaxPending + 1, Len(all)), r) BY <3>1, <1>4, <1>5, NewestInLine
    <3> QED BY <1>3, <2>1, <3>2
  <2>2. CASE ~(Len(all) > MaxPending) BY <1>3, <1>4, <2>2
  <2> QED BY <2>1, <2>2
<1> DEFINE m == (1 .. recorded) \ Known  m2 == (1 .. r) \ Known'
           out == (recorded - Len(waiting) + 1) .. (r - Len(waiting'))
<1>9. Len(waiting') \in Nat /\ Len(waiting') <= r /\ waiting' \in Seq(1 .. r) BY <1>8 DEF InLine
<1>10. m2 \subseteq m \cup out
  <2> SUFFICES ASSUME NEW x \in 1 .. r, x \notin Known', x \notin out
               PROVE  x \in 1 .. recorded /\ x \notin Known OBVIOUS
  <2>1. x \notin RE!Range(waiting') /\ x \notin table /\ x \notin unsaved /\ x \notin RE!Range(report) \ {0}
    BY DEF Known
  <2>2. x <= r - Len(waiting')
    <3>1. SUFFICES ASSUME x > r - Len(waiting') PROVE FALSE BY <1>9, <1>5
    <3> DEFINE i == x - (r - Len(waiting'))
    <3>2. i \in 1 .. Len(waiting') /\ i \in DOMAIN waiting' BY <3>1, <1>9, <1>5
    <3>3. waiting'[i] = r - Len(waiting') + i BY <3>2, <1>8 DEF InLine
    <3>4. waiting'[i] = x BY <3>3, <1>9, <1>5
    <3> QED BY <3>2, <3>4, <2>1, Listed
  <2>3. x <= recorded - Len(waiting) BY <2>2, <1>1, <1>5, <1>9
  <2>4. x \in 1 .. recorded BY <2>3, <1>1
  <2>5. x \notin RE!Range(waiting)
    <3>1. SUFFICES ASSUME NEW i \in DOMAIN waiting, waiting[i] = x PROVE FALSE BY Listed
    <3>2. i \in 1 .. Len(waiting) /\ waiting[i] = recorded - Len(waiting) + i BY <1>1 DEF InLine
    <3> QED BY <3>1, <3>2, <2>3, <1>1
  <2> QED BY <2>1, <2>4, <2>5 DEF Known
<1>11. Cardinality(out) = overflow' - overflow /\ IsFiniteSet(out)
  <2>1. r - Len(waiting') - (recorded - Len(waiting)) = overflow' - overflow
        /\ overflow' - overflow \in Nat
    <3>1. CASE Len(all) > MaxPending
      <4>1. Len(waiting') = MaxPending BY <1>2, <1>3, <1>4, <1>5, <3>1, NewestInLine, EventSizes
      <4> QED BY <4>1, <3>1, <1>1, <1>2, <1>3, <1>6, EventSizes
    <3>2. CASE ~(Len(all) > MaxPending)
      <4>1. Len(waiting') = Len(waiting) + k BY <1>2, <1>3, <3>2
      <4> QED BY <4>1, <3>2, <1>1, <1>2, <1>3, <1>6, EventSizes
    <3> QED BY <3>1, <3>2
  <2> DEFINE lo == recorded - Len(waiting) + 1  hi == r - Len(waiting')
  <2>2. lo \in Int /\ hi \in Int /\ hi - lo + 1 = overflow' - overflow BY <2>1, <1>1, <1>5, <1>9
  <2>3. IsFiniteSet(lo .. hi) /\ Cardinality(lo .. hi) = IF lo > hi THEN 0 ELSE hi - lo + 1
    BY <2>2, FS_Interval
  <2> HIDE DEF lo, hi
  <2>4. Cardinality(lo .. hi) = overflow' - overflow BY <2>1, <2>2, <2>3
  <2> QED BY <2>3, <2>4 DEF lo, hi
<1>12. IsFiniteSet(m) /\ Cardinality(m) \in Nat /\ Cardinality(m) <= overflow
  <2>1. IsFiniteSet(1 .. recorded) BY <1>1, FS_Interval
  <2>2. IsFiniteSet(m) BY <2>1, FS_Subset
  <2> QED BY <2>2, FS_CardinalityType DEF EventsWhole
<1>13. Cardinality(m2) <= overflow'
  <2> HIDE DEF m, m2, out
  <2>1. IsFiniteSet(m \cup out) /\ Cardinality(m \cup out) = Cardinality(m) + Cardinality(out) - Cardinality(m \cap out)
    BY <1>11, <1>12, FS_Union
  <2>2. Cardinality(m \cap out) \in Nat
    <3>1. IsFiniteSet(m \cap out) BY <1>12, FS_Subset
    <3> QED BY <3>1, FS_CardinalityType
  <2>3. Cardinality(m2) <= Cardinality(m \cup out) /\ IsFiniteSet(m2) BY <1>10, <2>1, FS_Subset
  <2>4. Cardinality(m2) \in Nat /\ Cardinality(m \cup out) \in Nat BY <2>1, <2>3, FS_CardinalityType
  <2> QED BY <2>1, <2>2, <2>3, <2>4, <1>1, <1>7, <1>11, <1>12
<1> QED BY <1>3, <1>5, <1>7, <1>8, <1>13

\* What each step of the story keeps.
LEMMA CheckKeeps ==
  ASSUME EventsWhole, NEW v \in RE!View, RE!Check(v)
  PROVE  EventsWhole'
<1>1. /\ ~suspended /\ beat = RE!NoBeat /\ checks < MaxChecks
      /\ checks' = checks + 1 /\ losses' = v.lost
      /\ RE!Record(RE!One(~started) + RE!One(RE!Changed(v)) + RE!One(RE!NewLosses(v)))
      /\ started' = TRUE /\ stage' = RE!StageOf(v) /\ reason' = RE!ReasonOf(v)
      /\ known' = (IF RE!NewLosses(v) THEN v.lost ELSE RE!Told(v))
      /\ recent' \in BOOLEAN /\ beat' = waiting'
      /\ UNCHANGED <<suspended, report, table, unsaved>> BY DEF RE!Check
<1>2. v.lost \in 0 .. MaxLosses BY DEF RE!View
<1>3. \A c : RE!One(c) \in {0, 1} BY DEF RE!One
<1>4. PICK k \in Nat : RE!Record(k) BY <1>1, <1>3
<1>5. /\ recorded' \in Nat /\ overflow' \in Nat /\ recorded <= recorded' /\ InLine(waiting', recorded')
      /\ Cardinality((1 .. recorded') \ Known') <= overflow' BY <1>1, <1>4, RecordKeeps
<1>6. EventsTyped'
  <2>1. checks' \in 0 .. MaxChecks BY <1>1, EventSizes DEF EventsWhole, EventsTyped
  <2>2. known' \in 0 .. MaxLosses BY <1>1, <1>2 DEF RE!Told, EventsWhole, EventsTyped
  <2> QED BY <1>1, <1>2, <2>1, <2>2, StagesTyped DEF EventsWhole, EventsTyped
<1>7. table' \subseteq 1 .. recorded' /\ unsaved' \subseteq 1 .. recorded'
  <2>1. 1 .. recorded \subseteq 1 .. recorded' BY <1>5 DEF EventsWhole
  <2> QED BY <1>1, <2>1 DEF EventsWhole
<1>8. Told(beat)' /\ Told(report)'
  <2>1. report = RE!NoBeat BY <1>1 DEF EventsWhole
  <2> QED BY <1>1, <1>5, <2>1 DEF Told, InLine
<1> QED BY <1>1, <1>5, <1>6, <1>7, <1>8 DEF EventsWhole

\* Nothing waits when everything that was sent is forgotten.
LEMMA AllSent ==
  ASSUME EventsWhole, beat # RE!NoBeat, NEW b \in BOOLEAN
  PROVE  RE!Acknowledge(b) = waiting \/ (RE!Acknowledge(b) = <<>> /\ (waiting = beat \/ waiting = <<>>))
<1>1. waiting \in Seq(1 .. recorded) /\ Len(waiting) \in Nat BY DEF EventsWhole, InLine
<1>2. CASE b /\ beat = waiting
  <2>1. RE!Min({Len(beat), Len(waiting)}) = Len(waiting) BY <1>1, <1>2 DEF RE!Min
  <2>2. RE!Acknowledge(b) = SubSeq(waiting, Len(waiting) + 1, Len(waiting)) BY <1>2, <2>1 DEF RE!Acknowledge
  <2>3. SubSeq(waiting, Len(waiting) + 1, Len(waiting)) = <<>> BY <1>1, SubSeqEmpty
  <2> QED BY <1>2, <2>2, <2>3
<1>3. CASE b /\ waiting = <<>>
  <2>1. RE!Min({Len(beat), Len(waiting)}) = 0
    <3>1. beat \in Seq(1 .. recorded) BY DEF EventsWhole, Told
    <3>2. Len(beat) \in Nat /\ Len(waiting) = 0 BY <3>1, <1>3
    <3> QED BY <3>2 DEF RE!Min
  <2>2. RE!Acknowledge(b) = SubSeq(waiting, 1, 0) BY <1>3, <2>1 DEF RE!Acknowledge
  <2>3. SubSeq(waiting, 1, 0) = <<>> BY SubSeqEmpty
  <2> QED BY <1>3, <2>2, <2>3
<1>4. CASE ~b BY <1>4 DEF RE!Acknowledge
<1> QED BY <1>2, <1>3, <1>4 DEF EventsWhole

\* Nothing is in line.
LEMMA EmptyInLine == \A k \in Nat : InLine(<<>>, k)
BY DEF InLine

\* A heartbeat ends: what it stored waits no more, unless the answer was lost.
LEMMA HeartbeatKeeps ==
  ASSUME EventsWhole, RE!HeartbeatStored \/ RE!HeartbeatFails
  PROVE  EventsWhole'
<1>1. PICK b \in BOOLEAN : /\ beat # RE!NoBeat /\ waiting' = RE!Acknowledge(b) /\ beat' = RE!NoBeat
                           /\ IF b THEN table' = table \cup RE!Range(beat)
                                   ELSE table' \in {table, table \cup RE!Range(beat)}
                           /\ UNCHANGED <<checks, losses, known, recent, started, stage, reason, recorded,
                                          overflow, suspended, report, unsaved>>
  <2>1. CASE RE!HeartbeatStored
    <3>1. PICK b \in BOOLEAN : waiting' = RE!Acknowledge(b) BY <2>1 DEF RE!HeartbeatStored
    <3> QED BY <2>1, <3>1 DEF RE!HeartbeatStored, RE!Story
  <2>2. CASE RE!HeartbeatFails BY <2>2 DEF RE!HeartbeatFails, RE!Story
  <2> QED BY <2>1, <2>2
<1>2. recorded \in Nat /\ beat \in Seq(1 .. recorded) /\ waiting \in Seq(1 .. recorded)
  BY <1>1 DEF EventsWhole, Told, InLine
<1>3. table' \subseteq 1 .. recorded BY <1>1, <1>2, EventsIn DEF EventsWhole
<1>4. InLine(waiting', recorded) /\ Known \subseteq Known'
  <2>1. CASE waiting' = waiting BY <1>1, <2>1 DEF EventsWhole, Known
  <2>2. CASE b /\ waiting' = <<>> /\ (waiting = beat \/ waiting = <<>>)
    <3>1. RE!Range(waiting) \subseteq table' BY <1>1, <2>2, NoEvents0
    <3> QED BY <1>1, <1>2, <2>2, <3>1, EmptyInLine DEF Known
  <2>3. ~b => waiting' = waiting BY <1>1 DEF RE!Acknowledge
  <2> QED BY <1>1, <2>1, <2>2, <2>3, AllSent
<1>5. Cardinality((1 .. recorded') \ Known') <= overflow' BY <1>1, <1>4, KnownStays
<1>6. EventsTyped' BY <1>1 DEF EventsWhole, EventsTyped
<1> QED BY <1>1, <1>2, <1>3, <1>4, <1>5, <1>6 DEF EventsWhole, Told

\* A failure takes over what waits.
LEMMA FailExecutionKeeps ==
  ASSUME EventsWhole, RE!FailExecution
  PROVE  EventsWhole'
<1>1. /\ ~suspended /\ suspended' = TRUE /\ report' = waiting /\ waiting' = <<>>
      /\ UNCHANGED <<checks, losses, known, recent, started, stage, reason, recorded, overflow, beat, table, unsaved>>
  BY DEF RE!FailExecution, RE!Story
<1>2. recorded \in Nat /\ waiting \in Seq(1 .. recorded) /\ report = RE!NoBeat
  BY <1>1 DEF EventsWhole, InLine
<1>3. RE!Range(waiting) \ {0} = RE!Range(waiting) BY <1>2, EventsIn
<1>4. Known \subseteq Known' BY <1>1, <1>2, <1>3, NoEvents0 DEF Known
<1>5. Cardinality((1 .. recorded') \ Known') <= overflow' BY <1>1, <1>4, KnownStays
<1>6. EventsTyped' BY <1>1 DEF EventsWhole, EventsTyped
<1> QED BY <1>1, <1>2, <1>5, <1>6, EmptyInLine DEF EventsWhole, Told

\* Its report is stored with its events, or without them.
LEMMA FailureStoredKeeps ==
  ASSUME EventsWhole, RE!FailureStored
  PROVE  EventsWhole'
<1>1. /\ report # RE!NoBeat /\ report' = RE!NoBeat
      /\ \/ table' = table \cup RE!Range(report) /\ unsaved' = unsaved
         \/ unsaved' = unsaved \cup RE!Range(report) /\ table' = table
      /\ UNCHANGED <<checks, losses, known, recent, started, stage, reason, recorded, overflow, waiting, beat, suspended>>
  BY DEF RE!FailureStored, RE!Story
<1>2. recorded \in Nat /\ report \in Seq(1 .. recorded) BY <1>1 DEF EventsWhole, Told
<1>3. table' \subseteq 1 .. recorded /\ unsaved' \subseteq 1 .. recorded BY <1>1, <1>2, EventsIn DEF EventsWhole
<1>4. Known \subseteq Known' BY <1>1 DEF Known
<1>5. Cardinality((1 .. recorded') \ Known') <= overflow' BY <1>1, <1>4, KnownStays
<1>6. EventsTyped' BY <1>1 DEF EventsWhole, EventsTyped
<1> QED BY <1>1, <1>2, <1>3, <1>5, <1>6 DEF EventsWhole, Told

\* The end takes what waits; a heartbeat that is being written is stored or not.
LEMMA StopKeepsEvents ==
  ASSUME EventsWhole, RE!Stop
  PROVE  EventsWhole'
<1>1. /\ ~suspended /\ suspended' = TRUE /\ beat' = RE!NoBeat /\ waiting' = <<>>
      /\ unsaved' = unsaved \cup RE!Range(waiting)
      /\ table' = table \/ (beat # RE!NoBeat /\ table' = table \cup RE!Range(beat))
      /\ UNCHANGED <<checks, losses, known, recent, started, stage, reason, recorded, overflow, report>>
  BY DEF RE!Stop, RE!Story
<1>2. recorded \in Nat /\ waiting \in Seq(1 .. recorded) /\ (beat # RE!NoBeat => beat \in Seq(1 .. recorded))
  BY <1>1 DEF EventsWhole, InLine, Told
<1>3. table' \subseteq 1 .. recorded /\ unsaved' \subseteq 1 .. recorded BY <1>1, <1>2, EventsIn DEF EventsWhole
<1>4. Known \subseteq Known' BY <1>1 DEF Known
<1>5. Cardinality((1 .. recorded') \ Known') <= overflow' BY <1>1, <1>4, KnownStays
<1>6. EventsTyped' BY <1>1 DEF EventsWhole, EventsTyped
<1> QED BY <1>1, <1>2, <1>3, <1>5, <1>6, EmptyInLine DEF EventsWhole, Told

\* Every step of the story keeps it.
LEMMA EventsStep ==
  ASSUME EventsWhole, RE!Next \/ UNCHANGED RE!vars
  PROVE  EventsWhole'
<1>1. CASE RE!AnHourLater
  <2>1. recent' = FALSE /\ UNCHANGED <<checks, losses, known, started, stage, reason, waiting, recorded, overflow,
                     beat, suspended, report, table, unsaved>> BY <1>1 DEF RE!AnHourLater
  <2> QED BY <2>1 DEF EventsWhole, EventsTyped, Told, Known
<1>2. CASE UNCHANGED RE!vars BY <1>2 DEF RE!vars, EventsWhole, EventsTyped, Told, Known
<1> QED
  BY <1>1, <1>2, CheckKeeps, HeartbeatKeeps, FailExecutionKeeps, FailureStoredKeeps, StopKeepsEvents DEF RE!Next

\* A story that keeps it forgets no event without counting it, and tells them in order.
LEMMA EventsPromise ==
  ASSUME EventsWhole
  PROVE  RE!EventsTypeOK /\ RE!NoEventForgotten /\ RE!WaitingInOrder
<1>0. recorded \in Nat BY DEF EventsWhole
<1>1. RE!EventsTypeOK
  <2>1. 1 .. recorded \subseteq 0 .. recorded /\ 0 \in 0 .. recorded BY <1>0
  <2>2. \A s : s \in Seq(1 .. recorded) => s \in Seq(0 .. recorded) BY <2>1, SeqMonotonic
  <2>3. <<0>> \in Seq(0 .. recorded) BY <2>1
  <2>4. {waiting, beat, report} \subseteq Seq(0 .. recorded)
    BY <2>2, <2>3 DEF EventsWhole, InLine, Told, RE!NoBeat
  <2> QED BY <1>0, <2>4 DEF EventsWhole, EventsTyped, RE!EventsTypeOK
<1>2. RE!NoEventForgotten
  <2>1. \A s : RE!Cardinality(s) = Cardinality(s) BY DEF RE!Cardinality, Cardinality
  <2> QED BY <2>1 DEF EventsWhole, Known, RE!NoEventForgotten
<1>3. RE!WaitingInOrder BY DEF EventsWhole, InLine, RE!WaitingInOrder
<1> QED BY <1>1, <1>2, <1>3

\* A stage that is neither failed nor degraded has no alert behind it.
LEMMA HealthyIsShown == RE!ShownHealthy
<1> SUFFICES ASSUME NEW v \in RE!View
             PROVE  /\ RE!StageOf(v) \notin {"failed", "degraded"} =>
                         v.alert = "none" /\ v.stalled = "none" /\ v.lost = 0
                    /\ (RE!ReasonOf(v) = "none") = (RE!StageOf(v) \notin {"failed", "degraded"})
  BY DEF RE!ShownHealthy
<1>1. /\ v.model \in {"preparing", "learning", "ready", "failed"} /\ v.lost \in Nat
      /\ v.stalled \in {"none", "inputs", "inference", "evidence"} BY EventSizes DEF RE!View
<1>2. RE!RunningStage(v) \in {"operational", "learning"} BY DEF RE!RunningStage
<1>3. /\ RE!StageOf(v) = "failed" <=> v.model = "failed"
      /\ RE!StageOf(v) = "degraded" <=> v.model # "failed" /\ RE!Alerted(v)
  BY <1>1, <1>2 DEF RE!StageOf, RE!Degraded
<1>4. RE!StageOf(v) \notin {"failed", "degraded"} => v.alert = "none" /\ v.stalled = "none" /\ v.lost = 0
  BY <1>1, <1>3 DEF RE!Alerted
<1>5. RE!ReasonOf(v) = "none" <=> RE!StageOf(v) \notin {"failed", "degraded"} BY <1>1 DEF RE!ReasonOf
<1>6. (RE!ReasonOf(v) = "none") \in BOOLEAN /\ (RE!StageOf(v) \notin {"failed", "degraded"}) \in BOOLEAN
  OBVIOUS
<1> QED BY <1>4, <1>5, <1>6

(* The clients of the brokers.                                             *)

\* The types of what is kept of each broker, and of the clients.
BrokersTyped ==
  /\ sources \subseteq Broker /\ retries \subseteq Broker /\ quiet \subseteq Broker /\ reach \subseteq Broker
  /\ attempts \in [Broker -> Attempt \cup {NoAttempt}] /\ clients \in [Attempt -> BS!Client]
  /\ deadlines \in [Broker -> {"none", "set", "refused"}] /\ states \in [Broker -> BS!Shown]

\* The client in charge of a broker is one of that broker; a broker that waits for its backoff has none
\* and is shown as failed, one whose retry is silent is not shown as connected, one that is shown as
\* connected has its topics, and none is left to itself.
InHand(b) ==
  /\ attempts[b] # NoAttempt => clients[attempts[b]].of = b /\ clients[attempts[b]].phase # "free" /\ b \in sources
  /\ b \in retries => attempts[b] = NoAttempt /\ states[b] = "error"
  /\ b \in quiet => states[b] # "connected"
  /\ states[b] = "connected" => attempts[b] # NoAttempt /\ clients[attempts[b]].phase = "up"
  /\ b \in sources => \/ states[b] \in {"connected", "blocked", "failed"}
                      \/ deadlines[b] # "none" \/ b \in retries

\* The messages on their way.
Forwarded ==
  /\ inbox \in Seq(Attempt) /\ Len(inbox) <= MaxInbox /\ bytes = Len(inbox)
  /\ output \in {"none", "down", "up"} /\ sending \subseteq Attempt
  /\ sending # {} => output # "none"
  /\ sources = {} => inbox = <<>>

\* The inductive invariant of the supervision.
BrokersWhole ==
  /\ BrokersTyped /\ (\A b \in Broker : InHand(b))
  /\ Forwarded /\ events \in 0 .. MaxEvents

\* The bounds of the supervision.
LEMMA BrokerSizes == NoAttempt \notin Attempt /\ MaxInbox \in Nat \ {0} /\ MaxEvents \in Nat
BY ModelAssumption DEF BS!SupervisionAssumption

\* It begins with no broker.
LEMMA BrokersStart ==
  ASSUME BS!Init
  PROVE  BrokersWhole
<1>0. 0 \in 0 .. MaxEvents BY BrokerSizes
<1>1. BrokersTyped BY DEF BS!Init, BrokersTyped, BS!Client, BS!Shown
<1>2. \A b \in Broker : InHand(b) BY DEF BS!Init, InHand
<1>3. Forwarded BY BrokerSizes DEF BS!Init, Forwarded
<1> QED BY <1>0, <1>1, <1>2, <1>3 DEF BS!Init, BrokersWhole

\* An event is one of those that are allowed.
LEMMA EventTyped ==
  ASSUME events \in 0 .. MaxEvents, BS!Event \/ events' = events
  PROVE  events' \in 0 .. MaxEvents
BY BrokerSizes DEF BS!Event

\* A client moves on, and tells of it when it is in charge.
LEMMA TurnKeeps ==
  ASSUME BrokersWhole, NEW a \in Attempt, NEW from, NEW to, NEW phase,
         BS!Turn(a, from, to, phase), "free" \notin from,
         <<to, phase>> \in {<<"subscribing", "connecting">>, <<"up", "connected">>, <<"denied", "error">>,
                            <<"down", "reconnecting">>}
  PROVE  BrokersTyped' /\ (\A b \in Broker : InHand(b)') /\ Forwarded'
<1>0. clients[a].of \in Broker BY DEF BrokersWhole, BrokersTyped, BS!Client
<1>5. PICK c \in Broker : c = clients[a].of BY <1>0
<1>1. /\ clients[a].phase \in from /\ clients' = [clients EXCEPT ![a].phase = to] /\ BS!Report(a, phase)
      /\ UNCHANGED <<sources, attempts, retries, reach, inbox, bytes, output, sending>>
  BY DEF BS!Turn, BS!Forwarding
<1>2. clients \in [Attempt -> BS!Client] /\ BrokersTyped BY DEF BrokersWhole, BrokersTyped
<1>3. to \in {"subscribing", "up", "down", "denied"} /\ phase \in {"connecting", "connected", "error", "reconnecting"}
      /\ (phase = "connected" <=> to = "up") OBVIOUS
<1>4. /\ clients' \in [Attempt -> BS!Client] /\ clients'[a].phase = to
      /\ (\A x \in Attempt : clients'[x].of = clients[x].of)
      /\ (\A x \in Attempt : x # a => clients'[x] = clients[x]) BY <1>1, <1>2, <1>3 DEF BS!Client
<1>6. Forwarded' BY <1>1 DEF BrokersWhole, Forwarded
<1>7. CASE ~BS!InCharge(a)
  <2>1. UNCHANGED <<deadlines, quiet, states>> BY <1>1, <1>7 DEF BS!Report
  <2>2. BrokersTyped' BY <1>1, <1>2, <1>4, <2>1 DEF BrokersTyped
  <2>3. ASSUME NEW b \in Broker PROVE InHand(b)'
    <3>1. attempts[b] # a BY <1>7, BrokerSizes DEF BS!InCharge, BrokersWhole, InHand
    <3>2. attempts[b] # NoAttempt => attempts[b] \in Attempt /\ clients'[attempts[b]] = clients[attempts[b]]
      BY <1>2, <1>4, <3>1 DEF BrokersTyped
    <3>3. InHand(b) /\ UNCHANGED <<attempts, retries, sources, quiet, states, deadlines>>
      BY <1>1, <2>1 DEF BrokersWhole
    <3> QED BY <3>2, <3>3 DEF InHand
  <2> QED BY <1>6, <2>2, <2>3
<1>8. CASE BS!InCharge(a)
  <2>1. attempts[c] = a BY <1>5, <1>8 DEF BS!InCharge
  <2>2. /\ deadlines' = [deadlines EXCEPT ![c] =
              CASE phase = "connected" -> "none" [] phase = "error" -> "refused"
                [] OTHER -> IF @ = "none" THEN "set" ELSE @]
        /\ quiet' = IF phase \in {"connected", "error"} THEN quiet \ {c} ELSE quiet
        /\ states' = IF c \in quiet /\ phase \in {"connecting", "reconnecting"}
                       THEN states ELSE [states EXCEPT ![c] = phase] BY <1>1, <1>5, <1>8 DEF BS!Report
  <2>3. /\ deadlines' \in [Broker -> {"none", "set", "refused"}]
        /\ (phase # "connected" => deadlines'[c] # "none")
        /\ (\A b \in Broker : b # c => deadlines'[b] = deadlines[b]) BY <1>2, <1>5, <2>2 DEF BrokersTyped
  <2>4. /\ states' \in [Broker -> BS!Shown] /\ (\A b \in Broker : b # c => states'[b] = states[b])
        /\ (states'[c] = phase \/ (states'[c] = states[c] /\ c \in quiet /\ phase \in {"connecting", "reconnecting"}))
    BY <1>2, <1>3, <1>5, <2>2 DEF BrokersTyped, BS!Shown
  <2>5. quiet' \subseteq quiet /\ (phase \in {"connected", "error"} => c \notin quiet') BY <2>2
  <2>6. BrokersTyped' BY <1>1, <1>2, <1>4, <2>3, <2>4, <2>5 DEF BrokersTyped
  <2>7. ASSUME NEW b \in Broker, b # c PROVE InHand(b)'
    <3>1. attempts[b] # a BY <1>5, <2>7, BrokerSizes DEF BrokersWhole, InHand
    <3>2. attempts[b] # NoAttempt => attempts[b] \in Attempt /\ clients'[attempts[b]] = clients[attempts[b]]
      BY <1>2, <1>4, <3>1 DEF BrokersTyped
    <3>3. InHand(b) /\ states'[b] = states[b] /\ deadlines'[b] = deadlines[b] BY <2>3, <2>4, <2>7 DEF BrokersWhole
    <3> QED BY <1>1, <2>5, <3>2, <3>3 DEF InHand
  <2>8. InHand(c)'
    <3>0. c \in sources' BY <1>1, <2>1, BrokerSizes DEF BrokersWhole, InHand
    <3>1. attempts'[c] = a /\ a # NoAttempt /\ clients'[a].of = c /\ clients'[a].phase = to
      BY <1>1, <1>4, <1>5, <2>1, BrokerSizes
    <3>2. c \notin retries' /\ InHand(c) BY <1>1, <1>5, <2>1, BrokerSizes DEF BrokersWhole, InHand
    <3>3. to # "free" BY <1>3
    <3>4. c \in quiet' => states'[c] # "connected" BY <1>3, <2>4, <2>5, <3>2 DEF InHand
    <3>5. states'[c] = "connected" => to = "up" BY <1>3, <2>4, <3>2 DEF InHand
    <3>6. states'[c] = "connected" \/ deadlines'[c] # "none" BY <1>3, <2>3, <2>4
    <3> QED BY <3>0, <3>1, <3>2, <3>3, <3>4, <3>5, <3>6 DEF InHand
  <2> QED BY <1>6, <2>6, <2>7, <2>8
<1> QED BY <1>7, <1>8

\* The steps of a client.
LEMMA ClientKeeps ==
  ASSUME BrokersWhole, NEW a \in Attempt,
         BS!Connected(a) \/ BS!Subscribed(a) \/ BS!Refused(a) \/ BS!Disconnected(a)
  PROVE  BrokersWhole'
<1>1. events' \in 0 .. MaxEvents
  BY EventTyped DEF BrokersWhole, BS!Connected, BS!Subscribed, BS!Refused, BS!Disconnected
<1>2. BrokersTyped' /\ (\A b \in Broker : InHand(b)') /\ Forwarded'
  <2>1. CASE BS!Connected(a)
    <3>1. BS!Turn(a, {"starting", "down"}, "subscribing", "connecting") BY <2>1 DEF BS!Connected
    <3> QED BY <3>1, TurnKeeps
  <2>2. CASE BS!Subscribed(a)
    <3>1. BS!Turn(a, {"subscribing"}, "up", "connected") BY <2>2 DEF BS!Subscribed
    <3> QED BY <3>1, TurnKeeps
  <2>3. CASE BS!Refused(a)
    <3>1. BS!Turn(a, {"starting", "subscribing", "down"}, "denied", "error") BY <2>3 DEF BS!Refused
    <3> QED BY <3>1, TurnKeeps
  <2>4. CASE BS!Disconnected(a)
    <3>1. BS!Turn(a, {"starting", "subscribing", "up"}, "down", "reconnecting") BY <2>4 DEF BS!Disconnected
    <3> QED BY <3>1, TurnKeeps
  <2> QED BY <2>1, <2>2, <2>3, <2>4
<1> QED BY <1>1, <1>2 DEF BrokersWhole

\* A client that nothing refers to is in charge of nothing.
LEMMA FreeIsNobodys ==
  ASSUME BrokersWhole, NEW a \in Attempt, BS!Free(a)
  PROVE  \A b \in Broker : attempts[b] # a
BY BrokerSizes DEF BrokersWhole, InHand, BS!Free

\* A broker is given a client, or told why not.
LEMMA ConnectKeeps ==
  ASSUME BrokersWhole, NEW b \in Broker, NEW silent \in BOOLEAN, NEW outcome \in BS!Outcome,
         BS!Connect(b, silent, outcome), retries' = retries \ {b},
         silent => b \in retries, b \in sources,
         UNCHANGED <<sources, reach, inbox, bytes, output, sending>>
  PROVE  BrokersTyped' /\ (\A x \in Broker : InHand(x)') /\ Forwarded'
<1>1. Forwarded' BY DEF BrokersWhole, Forwarded
<1>2. BrokersTyped /\ InHand(b) BY DEF BrokersWhole
<1>3. /\ quiet' \subseteq quiet \cup {b} /\ (b \in quiet' => silent /\ outcome # "failed")
      /\ (\A x \in Broker : x # b => (x \in quiet' <=> x \in quiet)) BY DEF BS!Connect
<1>4. CASE outcome = "started"
  <2>1. PICK a \in Attempt : /\ BS!Free(a)
                             /\ clients' = [clients EXCEPT ![a] = [of |-> b, phase |-> "starting"]]
                             /\ attempts' = [attempts EXCEPT ![b] = a] BY <1>4 DEF BS!Connect
  <2>2. /\ deadlines' = [deadlines EXCEPT ![b] = "set"]
        /\ states' = IF silent THEN states ELSE [states EXCEPT ![b] = "connecting"] BY <1>4 DEF BS!Connect
  <2>3. [of |-> b, phase |-> "starting"] \in BS!Client BY DEF BS!Client
  <2>4. /\ clients' \in [Attempt -> BS!Client] /\ clients'[a] = [of |-> b, phase |-> "starting"]
        /\ \A x \in Attempt : x # a => clients'[x] = clients[x] BY <1>2, <2>1, <2>3 DEF BrokersTyped
  <2>5. /\ attempts' \in [Broker -> Attempt \cup {NoAttempt}] /\ attempts'[b] = a
        /\ \A x \in Broker : x # b => attempts'[x] = attempts[x] BY <1>2, <2>1 DEF BrokersTyped
  <2>6. /\ deadlines' \in [Broker -> {"none", "set", "refused"}] /\ deadlines'[b] = "set"
        /\ \A x \in Broker : x # b => deadlines'[x] = deadlines[x] BY <1>2, <2>2 DEF BrokersTyped
  <2>7. /\ states' \in [Broker -> BS!Shown] /\ states'[b] \in {"error", "connecting"}
        /\ \A x \in Broker : x # b => states'[x] = states[x] BY <1>2, <2>2 DEF BrokersTyped, InHand, BS!Shown
  <2>8. BrokersTyped' BY <1>2, <1>3, <2>4, <2>5, <2>6, <2>7 DEF BrokersTyped
  <2>9. ASSUME NEW x \in Broker PROVE InHand(x)'
    <3>1. CASE x = b
      <4>1. attempts'[x] = a /\ clients'[a].of = x /\ clients'[a].phase = "starting" /\ x \notin retries'
            /\ x \in sources'
            /\ states'[x] # "connected" /\ deadlines'[x] = "set" BY <2>4, <2>5, <2>6, <2>7, <3>1
      <4> QED BY <4>1 DEF InHand
    <3>2. CASE x # b
      <4>1. attempts[x] # a BY <2>1, FreeIsNobodys
      <4>2. attempts[x] # NoAttempt => attempts[x] \in Attempt /\ clients'[attempts[x]] = clients[attempts[x]]
        BY <1>2, <2>4, <4>1 DEF BrokersTyped
      <4>3. InHand(x) /\ attempts'[x] = attempts[x] /\ deadlines'[x] = deadlines[x] /\ states'[x] = states[x]
            /\ (x \in retries' <=> x \in retries) /\ (x \in quiet' <=> x \in quiet)
        BY <1>3, <2>5, <2>6, <2>7, <3>2 DEF BrokersWhole
      <4> QED BY <4>2, <4>3 DEF InHand
    <3> QED BY <3>1, <3>2
  <2> QED BY <1>1, <2>8, <2>9
<1>5. CASE outcome # "started"
  <2>1. /\ outcome \in {"blocked", "failed"}
        /\ attempts' = [attempts EXCEPT ![b] = NoAttempt] /\ deadlines' = [deadlines EXCEPT ![b] = "none"]
        /\ states' = [states EXCEPT ![b] = outcome] /\ clients' = clients BY <1>5 DEF BS!Connect, BS!Outcome
  <2>2. /\ attempts' \in [Broker -> Attempt \cup {NoAttempt}] /\ attempts'[b] = NoAttempt
        /\ \A x \in Broker : x # b => attempts'[x] = attempts[x] BY <1>2, <2>1 DEF BrokersTyped
  <2>3. /\ deadlines' \in [Broker -> {"none", "set", "refused"}]
        /\ \A x \in Broker : x # b => deadlines'[x] = deadlines[x] BY <1>2, <2>1 DEF BrokersTyped
  <2>4. /\ states' \in [Broker -> BS!Shown] /\ states'[b] \in {"blocked", "failed"}
        /\ \A x \in Broker : x # b => states'[x] = states[x] BY <1>2, <2>1 DEF BrokersTyped, BS!Shown
  <2>5. BrokersTyped' BY <1>2, <1>3, <2>1, <2>2, <2>3, <2>4 DEF BrokersTyped
  <2>6. ASSUME NEW x \in Broker PROVE InHand(x)'
    <3>1. CASE x = b
      <4>1. attempts'[x] = NoAttempt /\ x \notin retries' /\ states'[x] \in {"blocked", "failed"}
        BY <2>2, <2>4, <3>1
      <4> QED BY <4>1 DEF InHand
    <3>2. CASE x # b
      <4>1. InHand(x) /\ attempts'[x] = attempts[x] /\ deadlines'[x] = deadlines[x] /\ states'[x] = states[x]
            /\ (x \in retries' <=> x \in retries) /\ (x \in quiet' <=> x \in quiet)
        BY <1>3, <2>2, <2>3, <2>4, <3>2 DEF BrokersWhole
      <4> QED BY <2>1, <4>1 DEF InHand
    <3> QED BY <3>1, <3>2
  <2> QED BY <1>1, <2>5, <2>6
<1> QED BY <1>4, <1>5

\* The supervision retries a broker, or a member asks for it.
LEMMA RetryKeeps ==
  ASSUME BrokersWhole, NEW b \in Broker, BS!Retry(b) \/ BS!Reconnect(b)
  PROVE  BrokersWhole'
<1>1. events' \in 0 .. MaxEvents BY EventTyped DEF BrokersWhole, BS!Retry, BS!Reconnect
<1>2. UNCHANGED <<sources, reach, inbox, bytes, output, sending>> /\ retries' = retries \ {b}
  BY DEF BS!Retry, BS!Reconnect, BS!Forwarding
<1>3. CASE BS!Retry(b)
  <2>1. PICK outcome \in BS!Outcome : BS!Connect(b, TRUE, outcome) /\ b \in retries /\ b \in sources
    BY <1>3 DEF BS!Retry
  <2> QED BY <1>1, <1>2, <2>1, ConnectKeeps DEF BrokersWhole
<1>4. CASE BS!Reconnect(b)
  <2>1. PICK outcome \in BS!Outcome : BS!Connect(b, FALSE, outcome) /\ b \in sources BY <1>4 DEF BS!Reconnect
  <2> QED BY <1>1, <1>2, <2>1, ConnectKeeps DEF BrokersWhole
<1> QED BY <1>3, <1>4

\* The supervision gives a client up.
LEMMA GiveUpKeeps ==
  ASSUME BrokersWhole, NEW b \in Broker, BS!GiveUp(b)
  PROVE  BrokersWhole'
<1>1. BrokersTyped /\ Forwarded /\ events \in 0 .. MaxEvents BY DEF BrokersWhole
<1>2. /\ attempts' = [attempts EXCEPT ![b] = NoAttempt] /\ deadlines' = [deadlines EXCEPT ![b] = "none"]
      /\ quiet' = quiet \ {b} /\ retries' = retries \cup {b} /\ states' = [states EXCEPT ![b] = "error"]
      /\ UNCHANGED <<sources, clients, reach, inbox, bytes, output, sending, events>>
  BY DEF BS!GiveUp, BS!Retried, BS!Forwarding
<1>3. /\ attempts' \in [Broker -> Attempt \cup {NoAttempt}] /\ attempts'[b] = NoAttempt
      /\ \A x \in Broker : x # b => attempts'[x] = attempts[x] BY <1>1, <1>2 DEF BrokersTyped
<1>4. /\ deadlines' \in [Broker -> {"none", "set", "refused"}]
      /\ \A x \in Broker : x # b => deadlines'[x] = deadlines[x] BY <1>1, <1>2 DEF BrokersTyped
<1>5. /\ states' \in [Broker -> BS!Shown] /\ states'[b] = "error"
      /\ \A x \in Broker : x # b => states'[x] = states[x] BY <1>1, <1>2 DEF BrokersTyped, BS!Shown
<1>6. BrokersTyped' BY <1>1, <1>2, <1>3, <1>4, <1>5 DEF BrokersTyped
<1>7. ASSUME NEW x \in Broker PROVE InHand(x)'
  <2>1. CASE x = b BY <1>2, <1>3, <1>5, <2>1 DEF InHand
  <2>2. CASE x # b
    <3>1. InHand(x) /\ attempts'[x] = attempts[x] /\ deadlines'[x] = deadlines[x] /\ states'[x] = states[x]
          /\ (x \in retries' <=> x \in retries) /\ (x \in quiet' <=> x \in quiet)
      BY <1>2, <1>3, <1>4, <1>5, <2>2 DEF BrokersWhole
    <3> QED BY <1>2, <3>1 DEF InHand
  <2> QED BY <2>1, <2>2
<1>8. Forwarded' BY <1>1, <1>2 DEF Forwarded
<1> QED BY <1>1, <1>2, <1>6, <1>7, <1>8 DEF BrokersWhole

\* A client that is not in charge is stopped.
LEMMA StoppedKeeps ==
  ASSUME BrokersWhole, NEW a \in Attempt, BS!Stopped(a)
  PROVE  BrokersWhole'
<1>1. /\ ~BS!InCharge(a) /\ clients' = [clients EXCEPT ![a].phase = "free"]
      /\ UNCHANGED <<sources, attempts, deadlines, retries, quiet, states, reach, inbox, bytes, output, sending, events>>
  BY DEF BS!Stopped, BS!Upkeep, BS!Forwarding
<1>2. /\ clients' \in [Attempt -> BS!Client] /\ \A x \in Attempt : x # a => clients'[x] = clients[x]
  BY <1>1 DEF BrokersWhole, BrokersTyped, BS!Client
<1>3. BrokersTyped' /\ Forwarded' BY <1>1, <1>2 DEF BrokersWhole, BrokersTyped, Forwarded
<1>4. ASSUME NEW b \in Broker PROVE InHand(b)'
  <2>1. attempts[b] # a BY <1>1, BrokerSizes DEF BS!InCharge, BrokersWhole, InHand
  <2>2. attempts[b] # NoAttempt => attempts[b] \in Attempt /\ clients'[attempts[b]] = clients[attempts[b]]
    BY <1>2, <2>1 DEF BrokersWhole, BrokersTyped
  <2>3. InHand(b) BY DEF BrokersWhole
  <2> QED BY <1>1, <2>2, <2>3 DEF InHand
<1> QED BY <1>1, <1>3, <1>4 DEF BrokersWhole

\* Every broker is given a client of its own, or told why not.
LEMMA ConfigureKeeps ==
  ASSUME BrokersWhole, BS!Configure
  PROVE  BrokersWhole'
<1>1. PICK outcome \in [Broker -> BS!Outcome] :
        LET given == {b \in Broker : outcome[b] = "started"} IN
        /\ IF given = Broker THEN UNCHANGED events ELSE BS!Event
        /\ \E start \in [given -> {a \in Attempt : BS!Free(a)}] :
             /\ BS!IsInjective(start)
             /\ clients' = [a \in Attempt |-> IF \E b \in given : start[b] = a
                  THEN [of |-> CHOOSE b \in given : start[b] = a, phase |-> "starting"]
                  ELSE clients[a]]
             /\ attempts' = [b \in Broker |-> IF b \in given THEN start[b] ELSE NoAttempt]
        /\ deadlines' = [b \in Broker |-> IF b \in given THEN "set" ELSE "none"]
        /\ states' = [b \in Broker |-> IF b \in given THEN "connecting" ELSE outcome[b]] BY DEF BS!Configure
<1> DEFINE given == {b \in Broker : outcome[b] = "started"}
<1>2. PICK start \in [given -> {a \in Attempt : BS!Free(a)}] :
             /\ BS!IsInjective(start)
             /\ clients' = [a \in Attempt |-> IF \E b \in given : start[b] = a
                  THEN [of |-> CHOOSE b \in given : start[b] = a, phase |-> "starting"]
                  ELSE clients[a]]
             /\ attempts' = [b \in Broker |-> IF b \in given THEN start[b] ELSE NoAttempt] BY <1>1
<1>3. /\ sources' = Broker /\ retries' = {} /\ quiet' = {} /\ inbox' = <<>> /\ bytes' = 0
      /\ output = "up" /\ sending = {} /\ UNCHANGED <<reach, output, sending>> BY DEF BS!Configure
<1>4. events' \in 0 .. MaxEvents BY <1>1, EventTyped DEF BrokersWhole
<1>5. \A b \in Broker : b \notin given => outcome[b] \in {"blocked", "failed"} BY DEF BS!Outcome
<1>6. /\ deadlines' \in [Broker -> {"none", "set", "refused"}] /\ states' \in [Broker -> BS!Shown]
      /\ \A b \in Broker : /\ b \in given => states'[b] = "connecting" /\ deadlines'[b] = "set"
                           /\ b \notin given => states'[b] \in {"blocked", "failed"}
  BY <1>1, <1>5 DEF BS!Shown
<1> HIDE DEF given
<1>7. given \subseteq Broker BY DEF given
<1>8. \A b \in given : start[b] \in Attempt BY <1>2
<1>9. \A b, x \in given : start[b] = start[x] => b = x BY <1>2 DEF BS!IsInjective
<1>10. attempts' \in [Broker -> Attempt \cup {NoAttempt}]
       /\ \A b \in Broker : attempts'[b] = IF b \in given THEN start[b] ELSE NoAttempt BY <1>2, <1>8
<1>11. ASSUME NEW a \in Attempt
       PROVE  /\ clients'[a] \in BS!Client
              /\ \A b \in given : start[b] = a => clients'[a] = [of |-> b, phase |-> "starting"]
  <2>1. clients[a] \in BS!Client BY DEF BrokersWhole, BrokersTyped
  <2>2. CASE \E b \in given : start[b] = a
    <3>1. clients'[a] = [of |-> CHOOSE b \in given : start[b] = a, phase |-> "starting"] BY <1>2, <2>2
    <3> DEFINE o == CHOOSE b \in given : start[b] = a
    <3>2. o \in given /\ start[o] = a BY <2>2
    <3>3. clients'[a] = [of |-> o, phase |-> "starting"] BY <3>1
    <3> HIDE DEF o
    <3>4. clients'[a] \in BS!Client BY <1>7, <3>2, <3>3 DEF BS!Client
    <3> QED BY <1>9, <3>2, <3>3, <3>4
  <2>3. CASE ~\E b \in given : start[b] = a
    <3>1. clients'[a] = clients[a] BY <1>2, <2>3
    <3> QED BY <2>1, <2>3, <3>1
  <2> QED BY <2>2, <2>3
<1>12. clients' \in [Attempt -> BS!Client]
  <2>1. clients' = [a \in Attempt |-> clients'[a]] BY <1>2
  <2> QED BY <2>1, <1>11
<1>13. BrokersTyped' BY <1>3, <1>6, <1>10, <1>12 DEF BrokersWhole, BrokersTyped
<1>14. ASSUME NEW b \in Broker PROVE InHand(b)'
  <2>1. CASE b \in given
    <3>1. attempts'[b] = start[b] /\ start[b] \in Attempt BY <1>8, <1>10, <2>1
    <3>2. clients'[start[b]] = [of |-> b, phase |-> "starting"] BY <1>11, <2>1, <3>1
    <3>3. clients'[attempts'[b]].of = b /\ clients'[attempts'[b]].phase = "starting" BY <3>1, <3>2
    <3> QED BY <1>3, <1>6, <2>1, <3>3 DEF InHand
  <2>2. CASE b \notin given
    <3>1. attempts'[b] = NoAttempt BY <1>10, <2>2
    <3> QED BY <1>3, <1>6, <2>2, <3>1 DEF InHand
  <2> QED BY <2>1, <2>2
<1>15. Forwarded'
  <2>1. Len(<<>>) = 0 /\ <<>> \in Seq(Attempt) OBVIOUS
  <2> QED BY <1>3, <2>1, BrokerSizes DEF Forwarded
<1> QED BY <1>4, <1>13, <1>14, <1>15 DEF BrokersWhole

\* A generation that ends leaves no broker, and nothing to forward.
LEMMA DetachedKeeps ==
  ASSUME BrokersWhole, BS!StopWorkers \/ BS!AcknowledgeFails
  PROVE  BrokersWhole'
<1>1. /\ sources' = {} /\ retries' = {} /\ quiet' = {} /\ inbox' = <<>> /\ bytes' = 0
      /\ attempts' = [b \in Broker |-> NoAttempt] /\ deadlines' = [b \in Broker |-> "none"]
      /\ states' = [b \in Broker |-> "none"]
      /\ UNCHANGED <<clients, reach>> /\ sending' = {} /\ output' \in {output, "none"}
  BY DEF BS!StopWorkers, BS!AcknowledgeFails, BS!Detached
<1>2. events' \in 0 .. MaxEvents BY EventTyped DEF BrokersWhole, BS!StopWorkers, BS!AcknowledgeFails
<1>3. BrokersTyped' BY <1>1 DEF BrokersWhole, BrokersTyped, BS!Shown
<1>4. \A b \in Broker : InHand(b)' BY <1>1 DEF InHand
<1>5. Forwarded'
  <2>1. Len(<<>>) = 0 /\ <<>> \in Seq(Attempt) OBVIOUS
  <2> QED BY <1>1, <2>1, BrokerSizes DEF BrokersWhole, Forwarded
<1> QED BY <1>2, <1>3, <1>4, <1>5 DEF BrokersWhole

\* What changes no client: what is reached, and the messages on their way.
LEMMA MessagesKeep ==
  ASSUME BrokersWhole,
         \/ \E b \in Broker : BS!Unreachable(b) \/ BS!Reachable(b)
         \/ \E a \in Attempt : BS!Receive(a)
         \/ BS!Publish \/ BS!Acknowledged \/ BS!OutputMade \/ BS!OutputDrops
         \/ UNCHANGED BS!vars
  PROVE  BrokersWhole'
<1>1. UNCHANGED <<clients, sources, attempts, deadlines, retries, quiet, states>> /\ reach' \subseteq reach \cup Broker
  BY DEF BS!Unreachable, BS!Reachable, BS!Receive, BS!Publish, BS!Acknowledged, BS!OutputMade, BS!OutputDrops,
         BS!vars, BS!Upkeep
<1>2. BS!Event \/ events' = events
  BY DEF BS!Unreachable, BS!Reachable, BS!Receive, BS!Publish, BS!Acknowledged, BS!OutputMade, BS!OutputDrops,
         BS!vars
<1>3. events' \in 0 .. MaxEvents BY <1>2, EventTyped DEF BrokersWhole
<1>4. BrokersTyped' /\ \A b \in Broker : InHand(b)'
  <2>1. BrokersTyped' BY <1>1 DEF BrokersWhole, BrokersTyped
  <2>2. ASSUME NEW b \in Broker PROVE InHand(b)' BY <1>1 DEF BrokersWhole, InHand
  <2> QED BY <2>1, <2>2
<1>0. inbox \in Seq(Attempt) /\ Len(inbox) \in Nat /\ Len(<<>>) = 0 /\ <<>> \in Seq(Attempt)
  BY DEF BrokersWhole, Forwarded
<1>5. Forwarded'
  <2>1. CASE \E a \in Attempt : BS!Receive(a)
    <3>1. PICK a \in Attempt : BS!Receive(a) BY <2>1
    <3>2. /\ inbox' = Append(inbox, a) /\ bytes' = bytes + 1 /\ Len(inbox) < MaxInbox
          /\ UNCHANGED <<output, sending, sources>> /\ attempts[clients[a].of] = a
      BY <3>1, <1>1 DEF BS!Receive, BS!InCharge
    <3>3. inbox' \in Seq(Attempt) /\ Len(inbox') = Len(inbox) + 1 BY <1>0, <3>2
    <3>4. sources # {}
      <4>1. clients[a].of \in Broker BY DEF BrokersWhole, BrokersTyped, BS!Client
      <4>2. InHand(clients[a].of) BY <4>1 DEF BrokersWhole
      <4> QED BY <3>2, <4>2, BrokerSizes DEF InHand
    <3> QED BY <1>0, <3>2, <3>3, <3>4, BrokerSizes DEF BrokersWhole, Forwarded
  <2>2. CASE BS!Publish
    <3>1. inbox' = <<>> /\ bytes' = 0 /\ output = "up" /\ output' = output /\ sending' \subseteq BS!Range(inbox)
      BY <2>2 DEF BS!Publish
    <3>2. BS!Range(inbox) \subseteq Attempt BY <1>0 DEF BS!Range
    <3> QED BY <1>0, <1>1, <3>1, <3>2, BrokerSizes DEF Forwarded
  <2>3. CASE BS!Acknowledged BY <2>3, <1>1 DEF BS!Acknowledged, BrokersWhole, Forwarded
  <2>4. CASE BS!OutputMade BY <2>4, <1>1 DEF BS!OutputMade, BrokersWhole, Forwarded
  <2>5. CASE BS!OutputDrops BY <2>5, <1>1 DEF BS!OutputDrops, BrokersWhole, Forwarded
  <2>6. CASE UNCHANGED BS!vars \/ \E b \in Broker : BS!Unreachable(b) \/ BS!Reachable(b)
    <3>1. UNCHANGED <<inbox, bytes, output, sending, sources>>
      BY <2>6 DEF BS!vars, BS!Unreachable, BS!Reachable, BS!Forwarding, BS!Upkeep
    <3> QED BY <3>1 DEF BrokersWhole, Forwarded
  <2> QED BY <2>1, <2>2, <2>3, <2>4, <2>5, <2>6
<1> QED BY <1>3, <1>4, <1>5 DEF BrokersWhole

\* Every step of the supervision keeps it.
LEMMA BrokersStep ==
  ASSUME BrokersWhole, BS!Next \/ UNCHANGED BS!vars
  PROVE  BrokersWhole'
BY ClientKeeps, RetryKeeps, GiveUpKeeps, StoppedKeeps, ConfigureKeeps, DetachedKeeps, MessagesKeep
DEF BS!Next, BS!Ingress, BS!Supervise

\* A supervision that keeps it shows the truth, forgets no broker and counts its queue.
LEMMA BrokersPromise ==
  ASSUME BrokersWhole
  PROVE  BS!SupervisionTypeOK /\ BS!QueueCounted /\ BS!ShownTruly /\ BS!NoneForgotten
<1>1. BS!QueueCounted BY DEF BrokersWhole, Forwarded, BS!QueueCounted
<1>2. BS!NoneForgotten BY DEF BrokersWhole, BrokersTyped, InHand, BS!NoneForgotten
<1>3. BS!ShownTruly
  <2> SUFFICES ASSUME NEW b \in Broker, states[b] = "connected"
               PROVE  attempts[b] # NoAttempt /\ clients[attempts[b]] = [of |-> b, phase |-> "up"]
    BY DEF BS!ShownTruly
  <2>1. attempts[b] # NoAttempt /\ clients[attempts[b]].phase = "up" /\ clients[attempts[b]].of = b
    BY DEF BrokersWhole, InHand
  <2>2. clients[attempts[b]] \in BS!Client BY <2>1 DEF BrokersWhole, BrokersTyped
  <2> QED BY <2>1, <2>2 DEF BS!Client
<1>4. BS!SupervisionTypeOK BY BrokerSizes DEF BrokersWhole, BrokersTyped, Forwarded, BS!SupervisionTypeOK
<1> QED BY <1>1, <1>2, <1>3, <1>4

(* Charts.                                                                 *)

\* A row of evidence, and the order of rows.
EvidenceRow == [created : Nat, at : Nat, service : Nat, number : Nat]
Sooner(r, o) ==
  \/ r.created < o.created
  \/ r.created = o.created /\ r.at < o.at
  \/ r.created = o.created /\ r.at = o.at /\ r.service < o.service
  \/ r.created = o.created /\ r.at = o.at /\ r.service = o.service /\ r.number < o.number

\* The transaction of a writer: what it inserted is later than what is committed.
InsertsLater(w) ==
  /\ {"phase", "began", "stamp", "rows"} \subseteq DOMAIN inserts[w]
  /\ inserts[w].phase \in {"none", "begun", "inserted"}
  /\ inserts[w].phase = "inserted" =>
       /\ inserts[w].stamp \in Nat /\ inserts[w].stamp > watermark
       /\ inserts[w].rows \subseteq EvidenceRow /\ IsFiniteSet(inserts[w].rows)
       /\ \A r \in inserts[w].rows : r.created = inserts[w].stamp

\* The inductive invariant of the charts: rows are committed in the order of their times, and a chart
\* lacks only rows that come after its cursor, or came before its first page.
ChartsWhole ==
  /\ watermark \in Nat /\ instant \in Nat
  /\ inserts = [w \in Writer |-> inserts[w]] /\ (\A w \in Writer : InsertsLater(w))
  /\ \A w, v \in Writer : inserts[w].phase = "inserted" /\ inserts[v].phase = "inserted" => w = v
  /\ evidence \subseteq EvidenceRow /\ IsFiniteSet(evidence) /\ (\A r \in evidence : r.created <= watermark)
  /\ {"held", "cursor", "from"} \subseteq DOMAIN chart
  /\ chart.from \subseteq evidence
  /\ chart.cursor = ER!NoCursor \/ chart.cursor \in evidence
  /\ \A r \in evidence \ chart.held :
       chart.from # {} => ER!After(r, chart.cursor) \/ \A o \in chart.from : Sooner(r, o)

\* The bounds of the charts.
LEMMA ReadSizes ==
  Writer \subseteq Nat /\ PageSize \in Nat \ {0} /\ MaxInstant \in Nat \ {0} /\ MaxStored \in Nat \ {0}
BY ModelAssumption DEF ER!ReadsAssumption

\* The rows are in a line.
LEMMA RowsInLine ==
  /\ \A r \in EvidenceRow : ~Sooner(r, r)
  /\ \A r, o \in EvidenceRow : r = o \/ Sooner(r, o) \/ Sooner(o, r)
  /\ \A r, o, p \in EvidenceRow : Sooner(r, o) /\ Sooner(o, p) => Sooner(r, p)
<1>0. \A r \in EvidenceRow : r.created \in Nat /\ r.at \in Nat /\ r.service \in Nat /\ r.number \in Nat
  BY DEF EvidenceRow
<1>1. \A r \in EvidenceRow : ~Sooner(r, r) BY <1>0 DEF Sooner
<1>2. ASSUME NEW r \in EvidenceRow, NEW o \in EvidenceRow PROVE r = o \/ Sooner(r, o) \/ Sooner(o, r)
  <2>1. r.created = o.created /\ r.at = o.at /\ r.service = o.service /\ r.number = o.number => r = o
    BY DEF EvidenceRow
  <2> QED BY <1>0, <2>1 DEF Sooner
<1>3. ASSUME NEW r \in EvidenceRow, NEW o \in EvidenceRow, NEW p \in EvidenceRow, Sooner(r, o), Sooner(o, p)
      PROVE  Sooner(r, p) BY <1>0, <1>3 DEF Sooner
<1> QED BY <1>1, <1>2, <1>3

\* The order of the reads is that line.
LEMMA ReadOrder ==
  /\ \A r, o \in EvidenceRow : ER!Before(r, o) <=> Sooner(r, o)
  /\ \A r, o \in EvidenceRow : ER!After(r, o) <=> Sooner(o, r)
<1>0. \A r \in EvidenceRow : r.created \in Nat /\ r.at \in Nat /\ r.service \in Nat /\ r.number \in Nat
  BY DEF EvidenceRow
<1>1. ASSUME NEW r \in EvidenceRow, NEW o \in EvidenceRow PROVE ER!Before(r, o) <=> Sooner(r, o)
  <2> DEFINE s == ER!Order(r)  t == ER!Order(o)
  <2>1. /\ s[1] = r.created /\ s[2] = r.at /\ s[3] = r.service /\ s[4] = r.number
        /\ t[1] = o.created /\ t[2] = o.at /\ t[3] = o.service /\ t[4] = o.number BY DEF ER!Order
  <2> HIDE DEF s, t
  <2>2. ER!Before(r, o) <=> \E k \in 1 .. 4 : s[k] < t[k] /\ \A j \in 1 .. k - 1 : s[j] = t[j]
    BY DEF ER!Before, s, t
  <2>3. ASSUME NEW k \in 1 .. 4, s[k] < t[k], \A j \in 1 .. k - 1 : s[j] = t[j]
        PROVE  Sooner(r, o)
    <3>1. CASE k = 1 BY <2>1, <2>3, <3>1 DEF Sooner
    <3>2. CASE k = 2
      <4>1. s[1] = t[1] BY <2>3, <3>2
      <4> QED BY <2>1, <2>3, <3>2, <4>1 DEF Sooner
    <3>3. CASE k = 3
      <4>1. s[1] = t[1] /\ s[2] = t[2] BY <2>3, <3>3
      <4> QED BY <2>1, <2>3, <3>3, <4>1 DEF Sooner
    <3>4. CASE k = 4
      <4>1. s[1] = t[1] /\ s[2] = t[2] /\ s[3] = t[3] BY <2>3, <3>4
      <4> QED BY <2>1, <2>3, <3>4, <4>1 DEF Sooner
    <3> QED BY <3>1, <3>2, <3>3, <3>4
  <2>4. ASSUME Sooner(r, o)
        PROVE  \E k \in 1 .. 4 : s[k] < t[k] /\ \A j \in 1 .. k - 1 : s[j] = t[j]
    <3>1. CASE s[1] < t[1]
      <4>1. \A j \in 1 .. 1 - 1 : s[j] = t[j] OBVIOUS
      <4> QED BY <3>1, <4>1
    <3>2. CASE s[1] = t[1] /\ s[2] < t[2]
      <4>1. \A j \in 1 .. 2 - 1 : s[j] = t[j] BY <3>2
      <4> QED BY <3>2, <4>1
    <3>3. CASE s[1] = t[1] /\ s[2] = t[2] /\ s[3] < t[3]
      <4>1. \A j \in 1 .. 3 - 1 : s[j] = t[j] BY <3>3
      <4> QED BY <3>3, <4>1
    <3>4. CASE s[1] = t[1] /\ s[2] = t[2] /\ s[3] = t[3] /\ s[4] < t[4]
      <4>1. \A j \in 1 .. 4 - 1 : s[j] = t[j] BY <3>4
      <4> QED BY <3>4, <4>1
    <3> QED BY <2>1, <2>4, <3>1, <3>2, <3>3, <3>4 DEF Sooner
  <2> QED BY <2>2, <2>3, <2>4
<1>2. ASSUME NEW r \in EvidenceRow, NEW o \in EvidenceRow PROVE ER!After(r, o) <=> Sooner(o, r)
  BY <1>0 DEF ER!After, Sooner
<1> QED BY <1>1, <1>2

\* What comes sooner has less before it.
LEMMA FewerBefore ==
  ASSUME NEW s, s \subseteq EvidenceRow, IsFiniteSet(s), NEW r \in s, NEW o \in s, Sooner(r, o)
  PROVE  /\ Cardinality({x \in s : Sooner(x, r)}) < Cardinality({x \in s : Sooner(x, o)})
         /\ Cardinality({x \in s : Sooner(o, x)}) < Cardinality({x \in s : Sooner(r, x)})
<1>1. \A x \in s : Sooner(x, r) => Sooner(x, o) BY RowsInLine
<1>2. \A x \in s : Sooner(o, x) => Sooner(r, x) BY RowsInLine
<1>3. ~Sooner(r, r) /\ ~Sooner(o, o) BY RowsInLine
<1>4. ASSUME NEW p, NEW q, p \subseteq q, q \subseteq s, p # q
      PROVE  Cardinality(p) < Cardinality(q)
  <2>1. IsFiniteSet(q) BY <1>4, FS_Subset
  <2>2. IsFiniteSet(p) /\ Cardinality(p) <= Cardinality(q) /\ Cardinality(p) # Cardinality(q)
    BY <1>4, <2>1, FS_Subset
  <2>3. Cardinality(p) \in Nat /\ Cardinality(q) \in Nat BY <2>1, <2>2, FS_CardinalityType
  <2> QED BY <2>2, <2>3
<1>5. {x \in s : Sooner(x, r)} \subseteq {x \in s : Sooner(x, o)} /\ {x \in s : Sooner(x, r)} # {x \in s : Sooner(x, o)}
  BY <1>1, <1>3
<1>6. {x \in s : Sooner(o, x)} \subseteq {x \in s : Sooner(r, x)} /\ {x \in s : Sooner(o, x)} # {x \in s : Sooner(r, x)}
  BY <1>2, <1>3
<1> QED BY <1>4, <1>5, <1>6

\* Of some rows one is the latest.
LEMMA LatestThere ==
  ASSUME NEW s, s \subseteq EvidenceRow, IsFiniteSet(s), s # {}
  PROVE  ER!Latest(s) \in s
<1> DEFINE C(r) == Cardinality({x \in s : Sooner(r, x)})
           T == {C(r) : r \in s}
<1>1. \A r \in s : C(r) \in Nat
  <2> TAKE r \in s
  <2>1. IsFiniteSet({x \in s : Sooner(r, x)}) BY FS_Subset
  <2> QED BY <2>1, FS_CardinalityType
<1>2. \A r, o \in s : Sooner(r, o) => C(o) < C(r) BY FewerBefore
<1> HIDE DEF C
<1>3. T \subseteq Nat /\ T # {} BY <1>1
<1>4. PICK t \in T : \A u \in T : t <= u BY <1>3, LeastNumber
<1>5. PICK r \in s : t = C(r) OBVIOUS
<1>6. ASSUME NEW o \in s, Sooner(r, o) PROVE FALSE
  <2>1. C(o) < C(r) /\ C(r) <= C(o) /\ C(o) \in Nat /\ C(r) \in Nat BY <1>1, <1>2, <1>4, <1>5, <1>6
  <2> QED BY <2>1
<1>7. \E x \in s : \A o \in s : ~ER!Before(x, o) BY <1>6, ReadOrder
<1> QED BY <1>7 DEF ER!Latest

\* Counting is counting.
LEMMA ReadsCount == \A s : ER!Cardinality(s) = Cardinality(s)
BY DEF ER!Cardinality, Cardinality

\* Rows that are not on the first page come after it, and those that are not on the last before it.
LEMMA PagesApart ==
  ASSUME NEW s, s \subseteq EvidenceRow, IsFiniteSet(s), NEW r \in s
  PROVE  /\ r \notin ER!FirstRows(s) => \A o \in ER!FirstRows(s) : Sooner(o, r)
         /\ r \notin ER!LastRows(s) => \A o \in ER!LastRows(s) : Sooner(r, o)
<1>1. \A x \in s : {o \in s : ER!Before(o, x)} = {o \in s : Sooner(o, x)} BY ReadOrder
<1>2. \A x \in s : {o \in s : ER!Before(x, o)} = {o \in s : Sooner(x, o)} BY ReadOrder
<1>3. \A x \in s : Cardinality({o \in s : Sooner(o, x)}) \in Nat /\ Cardinality({o \in s : Sooner(x, o)}) \in Nat
  <2> TAKE x \in s
  <2>1. IsFiniteSet({o \in s : Sooner(o, x)}) /\ IsFiniteSet({o \in s : Sooner(x, o)}) BY FS_Subset
  <2> QED BY <2>1, FS_CardinalityType
<1>8. \A a, b \in Nat : a < b /\ b < PageSize => a < PageSize BY ReadSizes
<1>4. ER!FirstRows(s) = {x \in s : Cardinality({o \in s : Sooner(o, x)}) < PageSize}
  BY <1>1, ReadsCount DEF ER!FirstRows
<1>5. ER!LastRows(s) = {x \in s : Cardinality({o \in s : Sooner(x, o)}) < PageSize}
  BY <1>2, ReadsCount DEF ER!LastRows
<1>6. ASSUME r \notin ER!FirstRows(s), NEW o \in ER!FirstRows(s) PROVE Sooner(o, r)
  <2>1. o \in s /\ Cardinality({x \in s : Sooner(x, o)}) < PageSize
        /\ ~(Cardinality({x \in s : Sooner(x, r)}) < PageSize) /\ o # r BY <1>4, <1>6
  <2>2. ~Sooner(r, o)
    <3> SUFFICES ASSUME Sooner(r, o) PROVE FALSE OBVIOUS
    <3>1. Cardinality({x \in s : Sooner(x, r)}) < Cardinality({x \in s : Sooner(x, o)}) BY <2>1, FewerBefore
    <3>2. Cardinality({x \in s : Sooner(x, r)}) \in Nat /\ Cardinality({x \in s : Sooner(x, o)}) \in Nat
      BY <1>3, <2>1
    <3> QED BY <1>8, <2>1, <3>1, <3>2
  <2> QED BY <2>1, <2>2, RowsInLine
<1>7. ASSUME r \notin ER!LastRows(s), NEW o \in ER!LastRows(s) PROVE Sooner(r, o)
  <2>1. o \in s /\ Cardinality({x \in s : Sooner(o, x)}) < PageSize
        /\ ~(Cardinality({x \in s : Sooner(r, x)}) < PageSize) /\ o # r BY <1>5, <1>7
  <2>2. ~Sooner(o, r)
    <3> SUFFICES ASSUME Sooner(o, r) PROVE FALSE OBVIOUS
    <3>1. Cardinality({x \in s : Sooner(r, x)}) < Cardinality({x \in s : Sooner(o, x)}) BY <2>1, FewerBefore
    <3>2. Cardinality({x \in s : Sooner(r, x)}) \in Nat /\ Cardinality({x \in s : Sooner(o, x)}) \in Nat
      BY <1>3, <2>1
    <3> QED BY <1>8, <2>1, <3>1, <3>2
  <2> QED BY <2>1, <2>2, RowsInLine
<1> QED BY <1>6, <1>7

\* It begins with nothing written.
LEMMA ChartsStart ==
  ASSUME ER!Init
  PROVE  ChartsWhole
<1>1. IsFiniteSet({}) BY FS_EmptySet
<1> QED BY <1>1 DEF ER!Init, ChartsWhole, InsertsLater, ER!Closed

\* The rows of a batch: their time, their place, their writer and their numbers.
BatchOf(given, s, t, at, w) ==
  \A r \in given : \E k \in s : r = [created |-> t, at |-> at, service |-> w, number |-> k]

\* A batch is a finite one.
LEMMA BatchRows ==
  ASSUME NEW s \in SUBSET (1 .. MaxStored), NEW t \in Nat, NEW at \in Nat, NEW w \in Nat, NEW given,
         BatchOf(given, s, t, at, w)
  PROVE  given \subseteq EvidenceRow /\ IsFiniteSet(given) /\ \A r \in given : r.created = t
<1> DEFINE f == [k \in s |-> [created |-> t, at |-> at, service |-> w, number |-> k]]
           all == {f[k] : k \in s}
<1>1. IsFiniteSet(1 .. MaxStored)
  <2>1. 1 \in Int /\ MaxStored \in Int BY ReadSizes
  <2> QED BY <2>1, FS_Interval
<1>2. IsFiniteSet(s) BY <1>1, FS_Subset
<1>3. f \in Surjection(s, all) BY DEF Surjection
<1>4. IsFiniteSet(all) BY <1>2, <1>3, FS_Surjection
<1>5. given \subseteq all BY DEF BatchOf
<1>6. IsFiniteSet(given) BY <1>4, <1>5, FS_Subset
<1>7. s \subseteq Nat OBVIOUS
<1>8. given \subseteq EvidenceRow BY <1>7 DEF EvidenceRow, BatchOf
<1>9. \A r \in given : r.created = t BY DEF BatchOf
<1> QED BY <1>6, <1>8, <1>9

\* What a writer does alone.
LEMMA OneWriter ==
  ASSUME ChartsWhole, NEW w \in Writer, NEW i, inserts' = [inserts EXCEPT ![w] = i]
  PROVE  /\ inserts' = [v \in Writer |-> inserts'[v]] /\ inserts'[w] = i
         /\ \A v \in Writer : v # w => inserts'[v] = inserts[v]
BY DEF ChartsWhole

\* What a writer does before it commits.
LEMMA WriterKeeps ==
  ASSUME ChartsWhole, NEW w \in Writer, ER!Begin(w) \/ ER!Insert(w) \/ ER!RollBack(w)
  PROVE  ChartsWhole'
<1>1. UNCHANGED <<instant, watermark, evidence, chart>> BY DEF ER!Begin, ER!Insert, ER!RollBack
<1>2. watermark \in Nat /\ instant \in Nat /\ w \in Nat BY ReadSizes DEF ChartsWhole
<1>3. SUFFICES /\ inserts' = [v \in Writer |-> inserts'[v]] /\ (\A v \in Writer : InsertsLater(v)')
               /\ \A v, u \in Writer : inserts'[v].phase = "inserted" /\ inserts'[u].phase = "inserted" => v = u
  BY <1>1 DEF ChartsWhole
<1>4. ASSUME NEW i, inserts' = [inserts EXCEPT ![w] = i],
             {"phase", "began", "stamp", "rows"} \subseteq DOMAIN i, i.phase \in {"none", "begun"}
      PROVE  /\ inserts' = [v \in Writer |-> inserts'[v]] /\ (\A v \in Writer : InsertsLater(v)')
             /\ \A v, u \in Writer : inserts'[v].phase = "inserted" /\ inserts'[u].phase = "inserted" => v = u
  <2>1. /\ inserts' = [v \in Writer |-> inserts'[v]] /\ inserts'[w] = i
        /\ \A v \in Writer : v # w => inserts'[v] = inserts[v] BY <1>4, OneWriter
  <2>2. \A v \in Writer : inserts'[v].phase = "inserted" => v # w /\ inserts[v].phase = "inserted"
    BY <1>4, <2>1
  <2>3. \A v \in Writer : InsertsLater(v)' BY <1>1, <1>4, <2>1 DEF ChartsWhole, InsertsLater
  <2> QED BY <2>1, <2>2, <2>3 DEF ChartsWhole
<1>5. CASE ER!Begin(w)
  <2>1. inserts' = [inserts EXCEPT ![w] = [ER!Closed EXCEPT !.phase = "begun", !.began = instant]]
    BY <1>5 DEF ER!Begin
  <2>2. /\ [ER!Closed EXCEPT !.phase = "begun", !.began = instant].phase = "begun"
        /\ {"phase", "began", "stamp", "rows"} \subseteq DOMAIN [ER!Closed EXCEPT !.phase = "begun", !.began = instant]
    BY DEF ER!Closed
  <2> QED BY <1>4, <2>1, <2>2
<1>6. CASE ER!RollBack(w)
  <2>1. inserts' = [inserts EXCEPT ![w] = ER!Closed] BY <1>6 DEF ER!RollBack
  <2>2. ER!Closed.phase = "none" /\ {"phase", "began", "stamp", "rows"} \subseteq DOMAIN ER!Closed
    BY DEF ER!Closed
  <2> QED BY <1>4, <2>1, <2>2
<1>7. CASE ER!Insert(w)
  <2> DEFINE done == {r.number : r \in {r \in evidence : r.service = w}}
  <2>1. PICK lot \in SUBSET (1 .. MaxStored), at \in {0, 1} :
          inserts' = [inserts EXCEPT ![w].phase = "inserted", ![w].stamp = ER!Created(w),
                  ![w].rows = {[created |-> ER!Created(w), at |-> at, service |-> w, number |-> k] :
                                 k \in lot \ done}] BY <1>7 DEF ER!Insert
  <2>2. PICK t \in Nat : t = ER!Created(w) /\ t > watermark BY <1>2 DEF ER!Created
  <2>3. PICK given :
          given = {[created |-> ER!Created(w), at |-> at, service |-> w, number |-> k] : k \in lot \ done}
    OBVIOUS
  <2>4. inserts' = [inserts EXCEPT ![w].phase = "inserted", ![w].stamp = t, ![w].rows = given]
    BY <2>1, <2>2, <2>3
  <2>9. PICK new : new = lot \ done OBVIOUS
  <2>8. given \subseteq EvidenceRow /\ IsFiniteSet(given) /\ \A r \in given : r.created = t
    <3>1. BatchOf(given, new, t, at, w) BY <2>2, <2>3, <2>9 DEF BatchOf
    <3> HIDE DEF done
    <3>2. new \in SUBSET (1 .. MaxStored) BY <2>9
    <3>3. at \in Nat OBVIOUS
    <3> QED BY <1>2, <3>1, <3>2, <3>3, BatchRows
  <2>5. /\ inserts' = [v \in Writer |-> inserts'[v]] /\ (\A v \in Writer : v # w => inserts'[v] = inserts[v])
        /\ inserts'[w].phase = "inserted" /\ inserts'[w].stamp = t /\ inserts'[w].rows = given
        /\ {"phase", "began", "stamp", "rows"} \subseteq DOMAIN inserts'[w]
    BY <2>4 DEF ChartsWhole, InsertsLater
  <2>6. \A v \in Writer : v # w => inserts'[v].phase # "inserted" BY <1>7, <2>5 DEF ER!Insert, ER!ClockFree
  <2>7. ASSUME NEW v \in Writer PROVE InsertsLater(v)'
    <3>1. CASE v = w BY <1>1, <2>2, <2>5, <2>8, <3>1 DEF InsertsLater
    <3>2. CASE v # w BY <1>1, <2>5, <3>2 DEF ChartsWhole, InsertsLater
    <3> QED BY <3>1, <3>2
  <2> QED BY <2>5, <2>6, <2>7
<1> QED BY <1>5, <1>6, <1>7

\* What is committed comes after everything that is committed: no chart has read beyond it.
LEMMA CommitsLater ==
  ASSUME ChartsWhole, NEW w \in Writer, ER!Commit(w)
  PROVE  ChartsWhole'
<1> DEFINE new == inserts[w].rows
<1>1. /\ inserts[w].phase = "inserted" /\ evidence' = evidence \cup new /\ watermark' = inserts[w].stamp
      /\ inserts' = [inserts EXCEPT ![w] = ER!Closed] /\ UNCHANGED <<instant, chart>> BY DEF ER!Commit
<1>2. /\ watermark' \in Nat /\ watermark' > watermark /\ new \subseteq EvidenceRow /\ IsFiniteSet(new)
      /\ \A r \in new : r.created = watermark' BY <1>1 DEF ChartsWhole, InsertsLater
<1>3. /\ inserts' = [v \in Writer |-> inserts'[v]] /\ inserts'[w] = ER!Closed
      /\ \A v \in Writer : v # w => inserts'[v] = inserts[v] BY <1>1, OneWriter
<1>4. \A v \in Writer : inserts'[v].phase # "inserted" BY <1>1, <1>3 DEF ChartsWhole, ER!Closed
<1>5. \A v \in Writer : InsertsLater(v)' BY <1>3, <1>4 DEF ChartsWhole, InsertsLater, ER!Closed
<1>6. evidence' \subseteq EvidenceRow /\ IsFiniteSet(evidence') BY <1>1, <1>2, FS_Union DEF ChartsWhole
<1>7. \A r \in evidence' : r.created <= watermark'
  <2>1. \A r \in evidence : r.created \in Nat /\ r.created <= watermark BY DEF ChartsWhole, EvidenceRow
  <2>2. watermark \in Nat BY DEF ChartsWhole
  <2> QED BY <1>1, <1>2, <2>1, <2>2
<1>8. \A r \in new : ER!After(r, chart.cursor)
  <2> SUFFICES ASSUME NEW r \in new PROVE ER!After(r, chart.cursor) OBVIOUS
  <2>1. r.created = watermark' /\ r.created \in Nat BY <1>2
  <2>2. chart.cursor.created \in Int /\ chart.cursor.created <= watermark /\ watermark \in Nat
    BY DEF ChartsWhole, ER!NoCursor, EvidenceRow
  <2>3. r.created > chart.cursor.created BY <1>2, <2>1, <2>2
  <2> QED BY <2>3 DEF ER!After
<1>9. \A r \in evidence' \ chart'.held :
       chart'.from # {} => ER!After(r, chart'.cursor) \/ \A o \in chart'.from : Sooner(r, o)
  BY <1>1, <1>8 DEF ChartsWhole
<1> QED BY <1>1, <1>2, <1>3, <1>4, <1>5, <1>6, <1>7, <1>9 DEF ChartsWhole

\* A read takes the next page: what it leaves comes after the page, or before the first one.
LEMMA ReadKeeps ==
  ASSUME ChartsWhole, ER!Read
  PROVE  ChartsWhole'
<1>1. PICK p : /\ p = IF chart.cursor = ER!NoCursor THEN ER!LastRows(evidence)
                      ELSE ER!FirstRows({r \in evidence : ER!After(r, chart.cursor)})
               /\ chart' = [held |-> chart.held \cup p,
                            cursor |-> IF p = {} THEN chart.cursor ELSE ER!Latest(p),
                            from |-> IF chart.cursor = ER!NoCursor THEN p ELSE chart.from]
               /\ UNCHANGED <<instant, watermark, inserts, evidence>> BY DEF ER!Read
<1>2. evidence \subseteq EvidenceRow /\ IsFiniteSet(evidence) BY DEF ChartsWhole
<1>3. p \subseteq evidence BY <1>1 DEF ER!LastRows, ER!FirstRows
<1>4. IsFiniteSet(p) /\ p \subseteq EvidenceRow BY <1>2, <1>3, FS_Subset
<1>5. p # {} => ER!Latest(p) \in p BY <1>4, LatestThere
<1>6. chart'.cursor = ER!NoCursor \/ chart'.cursor \in evidence BY <1>1, <1>3, <1>5 DEF ChartsWhole
<1>7. chart'.from \subseteq evidence BY <1>1, <1>3 DEF ChartsWhole
<1>8. ASSUME NEW r \in evidence, r \notin chart'.held, chart'.from # {}
      PROVE  ER!After(r, chart'.cursor) \/ \A o \in chart'.from : Sooner(r, o)
  <2>1. r \notin chart.held /\ r \notin p BY <1>1, <1>8
  <2>2. CASE chart.cursor = ER!NoCursor
    <3>1. p = ER!LastRows(evidence) /\ chart'.from = p BY <1>1, <2>2
    <3> QED BY <1>2, <2>1, <3>1, PagesApart
  <2>3. CASE chart.cursor # ER!NoCursor
    <3> DEFINE later == {x \in evidence : ER!After(x, chart.cursor)}
    <3>1. p = ER!FirstRows(later) /\ chart'.from = chart.from /\ chart.cursor \in evidence
      BY <1>1, <2>3 DEF ChartsWhole
    <3>2. CASE p = {} BY <1>1, <1>8, <2>1, <3>1, <3>2 DEF ChartsWhole
    <3>3. CASE p # {} /\ ER!After(r, chart.cursor)
      <4>1. r \in later /\ later \subseteq EvidenceRow /\ IsFiniteSet(later) BY <1>2, <3>3, FS_Subset
      <4>2. Sooner(ER!Latest(p), r) BY <1>5, <2>1, <3>1, <3>3, <4>1, PagesApart
      <4>3. ER!After(r, ER!Latest(p)) BY <1>2, <1>4, <1>5, <3>3, <4>2, ReadOrder
      <4> QED BY <1>1, <3>3, <4>3
    <3>4. CASE ~ER!After(r, chart.cursor) BY <1>8, <2>1, <3>1, <3>4 DEF ChartsWhole
    <3> QED BY <3>2, <3>3, <3>4
  <2> QED BY <2>2, <2>3
<1>9. {"held", "cursor", "from"} \subseteq DOMAIN chart' BY <1>1
<1> QED BY <1>1, <1>6, <1>7, <1>8, <1>9 DEF ChartsWhole, InsertsLater

\* Every step of the charts keeps it.
LEMMA ChartsStep ==
  ASSUME ChartsWhole, ER!Next \/ UNCHANGED ER!evidenceVars
  PROVE  ChartsWhole'
<1>1. CASE ER!SetClock
  <2>1. instant' \in Nat /\ UNCHANGED <<watermark, inserts, evidence, chart>>
    BY <1>1, ReadSizes DEF ER!SetClock
  <2> QED BY <2>1 DEF ChartsWhole, InsertsLater
<1>2. CASE UNCHANGED ER!evidenceVars BY <1>2 DEF ER!evidenceVars, ChartsWhole, InsertsLater
<1> QED BY <1>1, <1>2, WriterKeeps, CommitsLater, ReadKeeps DEF ER!Next

\* No row falls between two pages.
LEMMA ChartsPromise ==
  ASSUME ChartsWhole
  PROVE  ER!ChartWhole
<1>1. \A r, o \in evidence : ER!Before(r, o) <=> Sooner(r, o) BY ReadOrder DEF ChartsWhole
<1> QED BY <1>1 DEF ChartsWhole, ER!ChartWhole

(* Alarms.                                                                 *)

\* What an alarm has, whatever it is about.
AlarmTyped(a) == {"id", "time", "manual", "row"} \subseteq DOMAIN a /\ a.id \in Nat /\ a.time \in Nat

\* One alarm comes before another on the pages.
Newer(a, b) == a.time > b.time \/ (a.time = b.time /\ a.id > b.id)

\* The inductive invariant of the alarms: no two have one id, none comes back after it was removed, and
\* what was there when the question was asked is on a page or still to come.
AlarmsWhole ==
  /\ IsFiniteSet(alarms) /\ (\A a \in alarms : AlarmTyped(a)) /\ fresh \subseteq Nat
  /\ \A a, b \in alarms : a.id = b.id => a = b
  /\ \A a \in alarms : a.id \notin fresh
  /\ listing = AL!Unasked \/
       /\ \A a \in listing.began : a.id \notin fresh
       /\ \A a \in AL!Matching(listing.question) \cap listing.began :
            a \in listing.found \/ (listing.more /\ AL!Older(a, listing.cursor))

\* The bounds of the alarms.
LEMMA AlarmSizes == PageLimit \in Nat \ {0} /\ MaxAlarms \in Nat \ {0} /\ AlarmTimes \subseteq Nat
BY ModelAssumption DEF AL!AlarmsAssumption

\* A question selects alarms.
LEMMA SomeAlarms == \A q : AL!Matching(q) \subseteq alarms
BY DEF AL!Matching

\* Counting is counting here too.
LEMMA AlarmsCount == \A s : AL!Cardinality(s) = Cardinality(s)
BY DEF AL!Cardinality, Cardinality

\* A page has the newest alarms, and those that are not on it come after its last one.
LEMMA NewestFirst ==
  ASSUME NEW s, IsFiniteSet(s), \A a \in s : AlarmTyped(a), \A a, b \in s : a.id = b.id => a = b,
         NEW a \in s, a \notin AL!Newest(s),
         NEW c, c = CHOOSE x \in AL!Newest(s) : \A b \in AL!Newest(s) : ~AL!Precedes(x, b)
  PROVE  AL!More(s) /\ AL!Older(a, c)
<1> DEFINE N(x) == Cardinality({b \in s : Newer(b, x)})
           T == {N(x) : x \in s}
           L(x) == Cardinality({b \in s : Newer(x, b)})
<1>1. \A x \in s : IsFiniteSet({b \in s : Newer(b, x)}) /\ IsFiniteSet({b \in s : Newer(x, b)}) BY FS_Subset
<1>2. \A x \in s : N(x) \in Nat /\ L(x) \in Nat BY <1>1, FS_CardinalityType
<1>3. AL!Newest(s) = {x \in s : N(x) < PageLimit}
  <2>1. \A x, b : AL!Precedes(b, x) <=> Newer(b, x) BY DEF AL!Precedes, Newer
  <2> QED BY <2>1, AlarmsCount DEF AL!Newest
<1>4. \A x \in s : x.id \in Nat /\ x.time \in Nat BY DEF AlarmTyped
<1>5. \A x \in s : ~Newer(x, x) BY <1>4 DEF Newer
<1>6. \A x, y, z \in s : Newer(x, y) /\ Newer(y, z) => Newer(x, z) BY <1>4 DEF Newer
<1>7. \A x, y \in s : x = y \/ Newer(x, y) \/ Newer(y, x)
  <2> SUFFICES ASSUME NEW x \in s, NEW y \in s PROVE x = y \/ Newer(x, y) \/ Newer(y, x) OBVIOUS
  <2>1. CASE x.id = y.id BY <2>1
  <2>2. CASE x.id # y.id BY <1>4, <2>2 DEF Newer
  <2> QED BY <2>1, <2>2
<1>8. ASSUME NEW p, NEW q, p \subseteq q, q \subseteq s, p # q
      PROVE  Cardinality(p) < Cardinality(q)
  <2>1. IsFiniteSet(q) BY <1>8, FS_Subset
  <2>2. IsFiniteSet(p) /\ Cardinality(p) <= Cardinality(q) /\ Cardinality(p) # Cardinality(q)
    BY <1>8, <2>1, FS_Subset
  <2>3. Cardinality(p) \in Nat /\ Cardinality(q) \in Nat BY <2>1, <2>2, FS_CardinalityType
  <2> QED BY <2>2, <2>3
<1>9. ASSUME NEW x \in s, NEW y \in s, Newer(x, y) PROVE N(x) < N(y) /\ L(y) < L(x)
  <2>1. {b \in s : Newer(b, x)} \subseteq {b \in s : Newer(b, y)} /\ x \in {b \in s : Newer(b, y)}
    BY <1>6, <1>9
  <2>2. x \notin {b \in s : Newer(b, x)} BY <1>5
  <2>3. {b \in s : Newer(y, b)} \subseteq {b \in s : Newer(x, b)} /\ y \in {b \in s : Newer(x, b)}
    BY <1>6, <1>9
  <2>4. y \notin {b \in s : Newer(y, b)} BY <1>5
  <2>5. N(x) < N(y) BY <1>8, <2>1, <2>2
  <2>6. L(y) < L(x) BY <1>8, <2>3, <2>4
  <2> QED BY <2>5, <2>6
<1>10. N(a) >= PageLimit
  <2>1. ~(N(a) < PageLimit) BY <1>3
  <2>2. PICK num \in Nat : num = N(a) BY <1>2
  <2>3. num >= PageLimit BY <2>1, <2>2, AlarmSizes
  <2> QED BY <2>2, <2>3
<1>11. AL!More(s)
  <2>1. Cardinality({b \in s : Newer(b, a)}) < Cardinality(s)
    <3>1. {b \in s : Newer(b, a)} # s BY <1>5
    <3> QED BY <1>8, <3>1
  <2>2. Cardinality(s) \in Nat BY FS_CardinalityType
  <2>3. N(a) \in Nat /\ N(a) < Cardinality(s) BY <1>2, <2>1
  <2> HIDE DEF N
  <2>4. Cardinality(s) > PageLimit BY <1>10, <2>2, <2>3, AlarmSizes
  <2> QED BY <2>4, AlarmsCount DEF AL!More
<1> HIDE DEF N, L
<1>12. AL!Newest(s) # {}
  <2>1. T \subseteq Nat /\ T # {} BY <1>2
  <2>2. PICK t \in T : \A u \in T : t <= u BY <2>1, LeastNumber
  <2>3. PICK x \in s : t = N(x) OBVIOUS
  <2>4. \A y \in s : ~Newer(y, x)
    <3> SUFFICES ASSUME NEW y \in s, Newer(y, x) PROVE FALSE OBVIOUS
    <3>1. N(y) < N(x) /\ N(x) <= N(y) /\ N(x) \in Nat /\ N(y) \in Nat BY <1>2, <1>9, <2>2, <2>3
    <3> QED BY <3>1
  <2>5. N(x) = 0
    <3>1. {b \in s : Newer(b, x)} = {} BY <2>4
    <3> QED BY <3>1, FS_EmptySet DEF N
  <2> QED BY <1>3, <2>5, AlarmSizes
<1>13. \E x \in AL!Newest(s) : \A b \in AL!Newest(s) : ~AL!Precedes(x, b)
  <2> DEFINE U == {L(x) : x \in AL!Newest(s)}
  <2>1. U \subseteq Nat /\ U # {} BY <1>2, <1>3, <1>12
  <2>2. PICK t \in U : \A u \in U : t <= u BY <2>1, LeastNumber
  <2>3. PICK x \in AL!Newest(s) : t = L(x) OBVIOUS
  <2>4. \A b \in AL!Newest(s) : ~Newer(x, b)
    <3> SUFFICES ASSUME NEW b \in AL!Newest(s), Newer(x, b) PROVE FALSE OBVIOUS
    <3>1. x \in s /\ b \in s BY <1>3, <2>3
    <3>2. L(b) < L(x) /\ L(x) <= L(b) /\ L(x) \in Nat /\ L(b) \in Nat BY <1>2, <1>9, <2>2, <2>3, <3>1
    <3> QED BY <3>2
  <2> QED BY <2>4 DEF AL!Precedes, Newer
<1>14. c \in AL!Newest(s) BY <1>13
<1>15. Newer(c, a)
  <2>1. c \in s /\ N(c) < PageLimit /\ c # a BY <1>3, <1>14
  <2>2. ~Newer(a, c)
    <3> SUFFICES ASSUME Newer(a, c) PROVE FALSE OBVIOUS
    <3>1. N(a) < N(c) /\ N(a) \in Nat /\ N(c) \in Nat BY <1>2, <1>9, <2>1
    <3> QED BY <1>10, <2>1, <3>1, AlarmSizes
  <2> QED BY <1>7, <2>1, <2>2
<1>16. c \in s BY <1>3, <1>14
<1>17. c.time \in Nat /\ c.id \in Nat /\ a.time \in Nat /\ a.id \in Nat BY <1>4, <1>16
<1>18. AL!Older(a, c) BY <1>15, <1>17 DEF AL!Older, Newer
<1> QED BY <1>11, <1>18

\* It begins without alarms.
LEMMA AlarmsStart ==
  ASSUME AL!Init
  PROVE  AlarmsWhole
<1>1. alarms = {} /\ fresh = 1 .. MaxAlarms /\ listing = AL!Unasked BY DEF AL!Init
<1>2. fresh \subseteq Nat BY <1>1, AlarmSizes
<1> QED BY <1>1, <1>2, FS_EmptySet DEF AlarmsWhole

\* An alarm that is raised was not there when the question was asked.
LEMMA RaiseKeeps ==
  ASSUME AlarmsWhole, AL!Raise
  PROVE  AlarmsWhole'
<1>1. PICK manual \in BOOLEAN, time \in AlarmTimes, id \in fresh :
        \E about : /\ alarms' = alarms \cup {[id |-> id, time |-> time, manual |-> manual, row |-> about]}
                 /\ fresh' = fresh \ {id} /\ UNCHANGED <<removal, listing>> BY DEF AL!Raise
<1>2. PICK about : /\ alarms' = alarms \cup {[id |-> id, time |-> time, manual |-> manual, row |-> about]}
                 /\ fresh' = fresh \ {id} /\ UNCHANGED <<removal, listing>> BY <1>1
<1>3. PICK num : num = [id |-> id, time |-> time, manual |-> manual, row |-> about] OBVIOUS
<1>4. alarms' = alarms \cup {num} /\ num.id = id /\ AlarmTyped(num)
  BY <1>2, <1>3, AlarmSizes DEF AlarmTyped, AlarmsWhole
<1>5. IsFiniteSet(alarms') BY <1>4, FS_AddElement DEF AlarmsWhole
<1>6. \A a \in alarms' : AlarmTyped(a) /\ a.id \notin fresh' BY <1>2, <1>4 DEF AlarmsWhole
<1>7. \A a, b \in alarms' : a.id = b.id => a = b BY <1>4 DEF AlarmsWhole
<1>8. ASSUME listing # AL!Unasked
      PROVE  /\ \A a \in listing'.began : a.id \notin fresh'
             /\ \A a \in AL!Matching(listing.question)' \cap listing'.began :
                  a \in listing'.found \/ (listing'.more /\ AL!Older(a, listing'.cursor))
  <2>1. \A a \in listing.began : a.id \notin fresh BY <1>8 DEF AlarmsWhole
  <2>2. num \notin listing.began BY <1>4, <2>1
  <2>3. AL!Matching(listing.question)' \subseteq AL!Matching(listing.question) \cup {num}
    BY <1>2, <1>4 DEF AL!Matching
  <2> QED BY <1>2, <1>8, <2>1, <2>2, <2>3 DEF AlarmsWhole
<1>9. fresh' \subseteq Nat BY <1>2 DEF AlarmsWhole
<1> QED BY <1>2, <1>5, <1>6, <1>7, <1>8, <1>9 DEF AlarmsWhole

\* What is removed is no longer asked for.
LEMMA RemoveKeeps ==
  ASSUME AlarmsWhole, AL!Find \/ AL!Remove \/ UNCHANGED AL!alarmsVars
  PROVE  AlarmsWhole'
<1>1. alarms' \subseteq alarms /\ UNCHANGED <<fresh, listing>> BY DEF AL!Find, AL!Remove, AL!alarmsVars
<1>2. IsFiniteSet(alarms') BY <1>1, FS_Subset DEF AlarmsWhole
<1>3. AL!Matching(listing.question)' \subseteq AL!Matching(listing.question) BY <1>1 DEF AL!Matching
<1> QED BY <1>1, <1>2, <1>3 DEF AlarmsWhole

\* A page has what it should, or there are more.
LEMMA TurnKeepsAlarms ==
  ASSUME AlarmsWhole, NEW q, NEW given, given \subseteq AL!Matching(q), NEW began, NEW found,
         listing' = AL!Turn(q, given, began, found), UNCHANGED <<alarms, fresh>>,
         \A a \in began : a.id \notin fresh,
         \A a \in AL!Matching(q) \cap began : a \in found \/ a \in given
  PROVE  AlarmsWhole'
<1>1. listing' = [question |-> q, began |-> began, found |-> found \cup AL!Newest(given), more |-> AL!More(given),
                  cursor |-> IF AL!More(given)
                               THEN CHOOSE a \in AL!Newest(given) : \A b \in AL!Newest(given) : ~AL!Precedes(a, b)
                             ELSE AL!None] BY DEF AL!Turn
<1>2. given \subseteq alarms BY SomeAlarms
<1>3. IsFiniteSet(given) /\ (\A a \in given : AlarmTyped(a)) /\ \A a, b \in given : a.id = b.id => a = b
  BY <1>2, FS_Subset DEF AlarmsWhole
<1>4. ASSUME NEW a \in given, a \notin AL!Newest(given)
      PROVE  listing'.more /\ AL!Older(a, listing'.cursor)
  <2>1. PICK c : c = CHOOSE x \in AL!Newest(given) : \A b \in AL!Newest(given) : ~AL!Precedes(x, b) OBVIOUS
  <2>2. AL!More(given) /\ AL!Older(a, c) BY <1>3, <1>4, <2>1, NewestFirst
  <2>3. listing'.cursor = c /\ listing'.more = AL!More(given) BY <1>1, <2>1, <2>2
  <2> QED BY <2>2, <2>3
<1>5. AL!Matching(q)' = AL!Matching(q) BY DEF AL!Matching
<1>6. listing'.question = q /\ listing'.began = began /\ listing'.found = found \cup AL!Newest(given) BY <1>1
<1>7. \A a \in AL!Matching(listing.question)' \cap listing'.began :
        a \in listing'.found \/ (listing'.more /\ AL!Older(a, listing'.cursor))
  <2>1. AL!Matching(listing.question)' = AL!Matching(q) BY <1>5, <1>6 DEF AL!Matching
  <2> QED BY <1>4, <1>6, <2>1
<1>8. \A a \in listing'.began : a.id \notin fresh' BY <1>6
<1> QED BY <1>7, <1>8 DEF AlarmsWhole

\* Every step of the alarms keeps it.
LEMMA AlarmsStep ==
  ASSUME AlarmsWhole, AL!Next \/ UNCHANGED AL!alarmsVars
  PROVE  AlarmsWhole'
<1>1. CASE AL!Ask
  <2>1. PICK question : listing' = AL!Turn(question, AL!Matching(question), alarms, {}) BY <1>1 DEF AL!Ask
  <2>2. UNCHANGED <<alarms, fresh>> BY <1>1 DEF AL!Ask
  <2>3. \A a \in alarms : a.id \notin fresh BY DEF AlarmsWhole
  <2> QED BY <2>1, <2>2, <2>3, TurnKeepsAlarms
<1>2. CASE AL!TurnPage
  <2>1. /\ listing.more /\ UNCHANGED <<alarms, fresh>>
        /\ listing' = AL!Turn(listing.question,
                        {a \in AL!Matching(listing.question) : AL!Older(a, listing.cursor)},
                        listing.began, listing.found) BY <1>2 DEF AL!TurnPage
  <2>2. listing # AL!Unasked BY <2>1 DEF AL!Unasked
  <2>3. /\ \A a \in listing.began : a.id \notin fresh
        /\ \A a \in AL!Matching(listing.question) \cap listing.began :
             a \in listing.found \/ AL!Older(a, listing.cursor) BY <2>2 DEF AlarmsWhole
  <2> DEFINE rest == {a \in AL!Matching(listing.question) : AL!Older(a, listing.cursor)}
  <2>4. /\ rest \subseteq AL!Matching(listing.question)
        /\ \A a \in AL!Matching(listing.question) \cap listing.began : a \in listing.found \/ a \in rest
    BY <2>3
  <2>5. listing' = AL!Turn(listing.question, rest, listing.began, listing.found) BY <2>1
  <2> HIDE DEF rest
  <2> QED BY <2>1, <2>3, <2>4, <2>5, TurnKeepsAlarms
<1> QED BY <1>1, <1>2, RaiseKeeps, RemoveKeeps DEF AL!Next

\* The alarms of a reading are those over the entity and with the key of it.
LEMMA NarrowedToOne ==
  ASSUME NEW about, NEW r \in Listable
  PROVE  AL!InScope(about, AL!Narrowed(r)) <=> about.entity = r[1] /\ r[2] \in AL!Keys(about)
<1>1. r = <<r[1], r[2]>> BY ModelAssumption DEF AL!AlarmsAssumption
<1>2. AL!Narrowed(r).pairs = {r} /\ AL!Narrowed(r).whole = {} BY DEF AL!Narrowed, AL!Scope
<1>3. AL!InScope(about, AL!Narrowed(r)) <=> \E k \in AL!Keys(about) : <<about.entity, k>> = r
  BY <1>2 DEF AL!InScope
<1>4. \A k : <<about.entity, k>> = r <=> about.entity = r[1] /\ k = r[2] BY <1>1
<1> QED BY <1>3, <1>4

\* No alarm falls between two pages, and every choice is true.
LEMMA AlarmsPromise ==
  ASSUME AlarmsWhole
  PROVE  AL!AlarmsListed /\ AL!ChoicesTrue
<1>1. AL!AlarmsListed BY DEF AlarmsWhole, AL!AlarmsListed
<1>2. ASSUME NEW scope, NEW reading \in Listable
      PROVE  LET found == AL!Matching([scope |-> scope, reading |-> reading, since |-> 0])
             IN  AL!Count(scope, reading) = AL!Cardinality(found) /\ \A a \in found : reading \in AL!Shown(a.row)
  <2> DEFINE found == AL!Matching([scope |-> scope, reading |-> reading, since |-> 0])
             all == AL!Matching([scope |-> scope, reading |-> Unlimited, since |-> 0])
  <2>1. reading # Unlimited /\ reading[2] # Multi BY ModelAssumption DEF AL!AlarmsAssumption
  <2>2. \A a : AL!InScope(a.row, AL!Narrowed(reading)) <=> a.row.entity = reading[1] /\ reading[2] \in AL!Keys(a.row)
    BY NarrowedToOne
  <2>3. found = {a \in all : AL!InScope(a.row, AL!Narrowed(reading))} BY <2>1 DEF AL!Matching
  <2>4. found = {a \in all : a.row.entity = reading[1] /\ reading[2] \in AL!Keys(a.row)} BY <2>2, <2>3
  <2>5. AL!Count(scope, reading) = AL!Cardinality(found) BY <2>4 DEF AL!Count
  <2>6. \A a \in found : reading \in AL!Shown(a.row)
    <3> SUFFICES ASSUME NEW a \in found PROVE reading \in AL!Shown(a.row) OBVIOUS
    <3>1. a.row.entity = reading[1] /\ reading[2] \in AL!Keys(a.row) BY <2>4
    <3>2. a.row.key = Multi => a.row.sensors # {} BY <2>1, <3>1 DEF AL!Keys
    <3>3. reading[2] \in (IF a.row.key = Multi THEN a.row.sensors ELSE AL!Keys(a.row))
      BY <3>1, <3>2 DEF AL!Keys
    <3> QED BY <3>1, <3>3 DEF AL!Shown
  <2> QED BY <2>5, <2>6
<1>3. AL!ChoicesTrue BY <1>2 DEF AL!ChoicesTrue
<1> QED BY <1>1, <1>3

(* What is shown live.                                                     *)

\* Samples are numbered as they come, and no cursor is valid that was not handed out.
Numbered(l) ==
  /\ {"samples", "sequence", "minimum"} \subseteq DOMAIN l
  /\ l.sequence \in Nat /\ l.minimum \in Nat /\ l.minimum <= l.sequence
  /\ \A x \in l.samples : x.at \in Nat /\ x.at <= l.sequence

\* What is no longer there is older than any valid cursor.
Covers(l, k) ==
  /\ Numbered(k) /\ l.minimum <= k.minimum
  /\ \A x \in l.samples : x \in k.samples \/ x.at <= k.minimum

\* Nothing of it changes.
Alike(l, k) ==
  /\ {"samples", "sequence", "minimum"} \subseteq DOMAIN k
  /\ k.samples = l.samples /\ k.sequence = l.sequence /\ k.minimum = l.minimum

LiveWhole == Numbered(live)

\* One thing after the other.
LEMMA CoversOn ==
  ASSUME NEW l, NEW k, NEW j, Numbered(l), Covers(l, k), Covers(k, j)
  PROVE  Covers(l, j)
BY DEF Covers, Numbered

\* What does not change is covered.
LEMMA AlikeCovers ==
  ASSUME NEW l, NEW k, Numbered(l), Alike(l, k)
  PROVE  Covers(l, k)
BY DEF Alike, Covers, Numbered

\* Another field changes.
LEMMA OtherField ==
  ASSUME NEW l, Numbered(l), NEW f, f \notin {"samples", "sequence", "minimum"}, NEW v
  PROVE  Alike(l, [l EXCEPT ![f] = v])
<1>1. \A g \in DOMAIN l : g # f => [l EXCEPT ![f] = v][g] = l[g] OBVIOUS
<1>2. DOMAIN [l EXCEPT ![f] = v] = DOMAIN l OBVIOUS
<1> QED BY <1>1, <1>2 DEF Alike, Numbered

\* Connections are begun, dropped and retired, leases end: no sample is touched.
LEMMA ConnectionsAlike ==
  ASSUME NEW l, Numbered(l), NEW bs, NEW outcome
  PROVE  /\ Alike(l, LV!Connect(l, bs, outcome)) /\ Alike(l, LV!Dropped(l, bs))
         /\ Alike(l, LV!Expired(l)) /\ Alike(l, LV!Retired(l))
<1>1. {"samples", "sequence", "minimum"} \subseteq DOMAIN l BY DEF Numbered
<1>2. \A a, b, c : Alike(l, [l EXCEPT !.shown = a, !.worker = b, !.deadline = c]) BY <1>1 DEF Alike
<1>3. \A a, b, c : Alike(l, [l EXCEPT !.worker = a, !.shown = b, !.deadline = c]) BY <1>1 DEF Alike
<1>4. \A a, b, c, due : Alike(l, [[l EXCEPT !.worker = a, !.shown = b, !.deadline = c] EXCEPT !.shown = due])
  BY <1>1 DEF Alike
<1>5. \A a : Alike(l, [l EXCEPT !.leases = a]) BY <1>1 DEF Alike
<1>6. Alike(l, LV!Connect(l, bs, outcome)) BY <1>2 DEF LV!Connect
<1>7. Alike(l, LV!Dropped(l, bs)) BY <1>3 DEF LV!Dropped
<1>8. Alike(l, LV!Expired(l)) BY <1>5 DEF LV!Expired
<1>9. Alike(l, LV!Retired(l)) BY <1>4 DEF LV!Retired, LV!Dropped
<1> QED BY <1>6, <1>7, <1>8, <1>9

\* What began after the last number covers all that was numbered before.
LEMMA LaterCovers ==
  ASSUME NEW l, NEW k, Numbered(l), {"samples", "sequence", "minimum"} \subseteq DOMAIN k,
         k.sequence = l.sequence + 1, k.minimum = l.sequence + 1, k.samples \subseteq l.samples
  PROVE  Covers(l, k)
BY DEF Numbered, Covers

\* The first thing covered begins another.
LEMMA CoversAlike ==
  ASSUME NEW l, NEW k, NEW j, Numbered(l), Covers(l, k), Alike(k, j)
  PROVE  Covers(l, j)
BY DEF Covers, Alike, Numbered

\* Every cursor that was handed out is too old.
LEMMA MovedCovers ==
  ASSUME NEW l, Numbered(l)
  PROVE  Covers(l, LV!Moved(l)) /\ Covers(l, LV!Cleared(l)) /\ Covers(l, LV!Stopped(l))
<1>1. {"samples", "sequence", "minimum"} \subseteq DOMAIN l BY DEF Numbered
<1>2. /\ {"samples", "sequence", "minimum"} \subseteq DOMAIN LV!Moved(l)
      /\ LV!Moved(l).sequence = l.sequence + 1 /\ LV!Moved(l).minimum = l.sequence + 1
      /\ LV!Moved(l).samples = l.samples BY <1>1 DEF LV!Moved
<1>3. \A m, a, b, c, due, e, f :
        {"samples", "sequence", "minimum"} \subseteq DOMAIN m =>
          LET k == [m EXCEPT !.identity = a, !.bound = b, !.shown = c, !.worker = due,
                             !.deadline = e, !.records = f, !.samples = {}]
          IN  /\ {"samples", "sequence", "minimum"} \subseteq DOMAIN k
              /\ k.sequence = m.sequence /\ k.minimum = m.minimum /\ k.samples = {} OBVIOUS
<1>4. \A m : {"samples", "sequence", "minimum"} \subseteq DOMAIN m =>
        /\ {"samples", "sequence", "minimum"} \subseteq DOMAIN LV!NoWorkers(m)
        /\ LV!NoWorkers(m).sequence = m.sequence /\ LV!NoWorkers(m).minimum = m.minimum
        /\ LV!NoWorkers(m).samples = {} BY <1>3 DEF LV!NoWorkers
<1>5. Covers(l, LV!Moved(l)) BY <1>2, LaterCovers
<1>6. Covers(l, LV!Cleared(l)) BY <1>2, <1>4, LaterCovers DEF LV!Cleared
<1>7. Numbered(LV!Cleared(l)) BY <1>6 DEF Covers
<1>8. Alike(LV!Cleared(l), LV!Stopped(l)) BY <1>7, OtherField DEF LV!Stopped
<1>9. Covers(l, LV!Stopped(l)) BY <1>6, <1>8, CoversAlike
<1> QED BY <1>5, <1>6, <1>9

\* The samples of what is no longer asked for go with the cursors that could miss them.
LEMMA ScopedCovers ==
  ASSUME NEW l, Numbered(l), NEW revision, NEW outcome, NEW refuses
  PROVE  Covers(l, LV!Scoped(l, revision, outcome, refuses))
<1>1. CASE LV!Desired(l) = LV!Shown(l) BY <1>1, AlikeCovers DEF LV!Scoped, Alike, Numbered
<1>2. CASE ~ (LV!Desired(l) = LV!Shown(l))
  <2> DEFINE num == LV!Needed(l, revision)
             wanted == UNION {num[b] : b \in Brokers}
             said == {b \in LV!Workers(l) : num[b] # {} /\ l.bound[b] # num[b]}
             due == LV!Dropped(l, {b \in Brokers : l.shown[b] # "none" /\ ~ LV!Kept(l, num, b)})
             m == LV!Moved(due)
             k == [m EXCEPT !.bound = num,
                            !.records = [s \in Stream |-> IF s \in wanted THEN @[s] ELSE 0],
                            !.samples = {x \in l.samples : x.stream \in wanted}]
             r == [k EXCEPT !.records = LV!Added(k, wanted)]
             a == LV!Connect(r, {b \in Brokers : num[b] # {} /\ k.shown[b] = "none"}, outcome)
             lost == {b \in said \cap LV!Workers(m) : a.worker[b] # "off" /\ b \in refuses}
             f == LV!Dropped(a, lost)
  <2>1. LV!Scoped(l, revision, outcome, refuses) = LV!Connect(f, lost, outcome) BY <1>2 DEF LV!Scoped
  <2>2. Alike(l, due) /\ Numbered(due) BY ConnectionsAlike, AlikeCovers DEF Covers
  <2>3. /\ {"samples", "sequence", "minimum"} \subseteq DOMAIN m
        /\ m.sequence = l.sequence + 1 /\ m.minimum = l.sequence + 1 BY <2>2 DEF LV!Moved, Alike
  <2>4. \A x, y, z : LET j == [m EXCEPT !.bound = x, !.records = y, !.samples = z]
                     IN  /\ {"samples", "sequence", "minimum"} \subseteq DOMAIN j
                         /\ j.sequence = m.sequence /\ j.minimum = m.minimum /\ j.samples = z
    <3> HIDE DEF m
    <3> QED BY <2>3
  <2>5. /\ {"samples", "sequence", "minimum"} \subseteq DOMAIN k
        /\ k.sequence = m.sequence /\ k.minimum = m.minimum /\ k.samples = {x \in l.samples : x.stream \in wanted}
    <3> HIDE DEF m, wanted, num
    <3> QED BY <2>4
  <2> HIDE DEF num, wanted, said, due, m, k, r, a, lost, f
  <2>6. Covers(l, k) BY <2>3, <2>5, LaterCovers
  <2>7. Alike(k, r) BY <2>6, OtherField DEF r, Covers
  <2>8. Covers(l, r) BY <2>6, <2>7, CoversAlike
  <2>9. Covers(l, a) BY <2>8, ConnectionsAlike, CoversAlike DEF a, Covers
  <2>10. Covers(l, f) BY <2>9, ConnectionsAlike, CoversAlike DEF f, Covers
  <2>11. Covers(l, LV!Connect(f, lost, outcome)) BY <2>10, ConnectionsAlike, CoversAlike DEF Covers
  <2> QED BY <2>1, <2>11
<1> QED BY <1>1, <1>2

\* What every operation does before its own.
LEMMA ReconciledCovers ==
  ASSUME NEW l, Numbered(l), NEW revision, NEW outcome, NEW refuses
  PROVE  Covers(l, LV!Reconciled(l, revision, outcome, refuses))
<1> DEFINE e == LV!Expired(l)
           s == IF e.identity = 0 THEN e
                ELSE IF LV!Held(e) = {} \/ revision # e.identity THEN LV!Stopped(e)
                ELSE LV!Scoped(e, revision, outcome, refuses)
           r == [s EXCEPT !.revision = revision]
<1>1. LV!Reconciled(l, revision, outcome, refuses) = LV!Retired(r) BY DEF LV!Reconciled
<1>2. Alike(l, e) BY ConnectionsAlike
<1> HIDE DEF e
<1>3. Covers(l, e) /\ Numbered(e) BY <1>2, AlikeCovers DEF Covers
<1>4. Covers(l, s) BY <1>3, MovedCovers, ScopedCovers, CoversOn
<1> HIDE DEF s
<1>5. Covers(l, r) BY <1>4, OtherField, CoversAlike DEF Covers
<1> HIDE DEF r
<1>6. Covers(l, LV!Retired(r)) BY <1>5, ConnectionsAlike, CoversAlike DEF Covers
<1> QED BY <1>1, <1>6

\* A first lease numbers what it adds.
LEMMA InitializedCovers ==
  ASSUME NEW l, Numbered(l), NEW revision, NEW outcome
  PROVE  Covers(l, LV!Initialized(l, revision, outcome))
<1> DEFINE num == LV!Needed(l, revision)
           m == [l EXCEPT !.identity = revision, !.revision = revision, !.sequence = @ + 1, !.bound = num]
           r == [m EXCEPT !.records = LV!Added(m, UNION {num[b] : b \in Brokers})]
           bs == {b \in Brokers : num[b] # {}}
<1>1. LV!Initialized(l, revision, outcome) = LV!Connect(r, bs, outcome) BY DEF LV!Initialized
<1>2. {"samples", "sequence", "minimum"} \subseteq DOMAIN l BY DEF Numbered
<1>3. \A x, y, z : LET j == [l EXCEPT !.identity = x, !.revision = x, !.sequence = y, !.bound = z]
                   IN  /\ {"samples", "sequence", "minimum"} \subseteq DOMAIN j
                       /\ j.sequence = y /\ j.minimum = l.minimum /\ j.samples = l.samples BY <1>2
<1>4. /\ {"samples", "sequence", "minimum"} \subseteq DOMAIN m
      /\ m.sequence = l.sequence + 1 /\ m.minimum = l.minimum /\ m.samples = l.samples
  <2> HIDE DEF num
  <2> QED BY <1>3
<1> HIDE DEF num, m, r, bs
<1>5. Covers(l, m) BY <1>4 DEF Covers, Numbered
<1>6. Covers(l, r) BY <1>5, OtherField, CoversAlike DEF r, Covers
<1>7. Covers(l, LV!Connect(r, bs, outcome)) BY <1>6, ConnectionsAlike, CoversAlike DEF Covers
<1> QED BY <1>1, <1>7

\* Of numbers with a bound one is the greatest.
LEMMA GreatestOf ==
  ASSUME NEW T, T \subseteq Nat, T # {}, NEW bound \in Nat, \A y \in T : y <= bound
  PROVE  LV!Max(T) \in T /\ \A y \in T : y <= LV!Max(T)
<1> DEFINE D == {bound - y : y \in T}
<1>1. \A y \in T : y \in Nat /\ y <= bound /\ bound - y \in Nat OBVIOUS
<1>a. D \subseteq Nat BY <1>1
<1>b. D # {} OBVIOUS
<1> HIDE DEF D
<1>2. PICK due \in D : \A e \in D : due <= e BY <1>a, <1>b, LeastNumber
<1>3. PICK x \in T : due = bound - x BY DEF D
<1>4. \A y \in T : bound - y \in D BY DEF D
<1>5. \A y \in T : x >= y
  <2> SUFFICES ASSUME NEW y \in T PROVE x >= y OBVIOUS
  <2>1. due <= bound - y BY <1>2, <1>4
  <2> QED BY <1>3, <2>1
<1>6. LV!Max(T) = CHOOSE z \in T : \A y \in T : z >= y BY DEF LV!Max
<1>7. LV!Max(T) \in T /\ \A y \in T : LV!Max(T) >= y BY <1>5, <1>6
<1>8. \A y \in T : y <= LV!Max(T)
  <2> SUFFICES ASSUME NEW y \in T PROVE y <= LV!Max(T) OBVIOUS
  <2>1. y \in Nat /\ LV!Max(T) \in Nat /\ LV!Max(T) >= y BY <1>7
  <2> QED BY <2>1
<1> QED BY <1>7, <1>8

\* Of samples one is the oldest.
LEMMA OldestThere ==
  ASSUME NEW xs, xs # {}, \A x \in xs : x.at \in Nat
  PROVE  LV!Oldest(xs) \in xs /\ \A y \in xs : LV!Oldest(xs).at <= y.at
<1> DEFINE T == {x.at : x \in xs}
<1>1. T \subseteq Nat /\ T # {} OBVIOUS
<1> HIDE DEF T
<1>2. PICK t \in T : \A u \in T : t <= u BY <1>1, LeastNumber
<1>3. PICK x \in xs : t = x.at BY DEF T
<1>4. \A y \in xs : y.at \in T BY DEF T
<1>5. \A y \in xs : x.at <= y.at BY <1>2, <1>3, <1>4
<1>6. LV!Oldest(xs) = CHOOSE z \in xs : \A y \in xs : z.at <= y.at BY DEF LV!Oldest
<1> QED BY <1>5, <1>6

\* What is too old goes, with the cursors that could miss it.
LEMMA PrunedCovers ==
  ASSUME NEW l, Numbered(l)
  PROVE  Covers(l, LV!Pruned(l))
<1> DEFINE old == {x \in l.samples : \A y \in l.samples : y.at <= x.at => y.second < clock - History}
           T == {l.minimum} \cup {x.at : x \in old}
           k == [l EXCEPT !.samples = l.samples \ old, !.minimum = LV!Max(T)]
<1>1. LV!Pruned(l) = k BY DEF LV!Pruned
<1>2. \A x \in old : x \in l.samples OBVIOUS
<1>3. /\ {"samples", "sequence", "minimum"} \subseteq DOMAIN l
      /\ l.sequence \in Nat /\ l.minimum \in Nat /\ l.minimum <= l.sequence
      /\ \A x \in l.samples : x.at \in Nat /\ x.at <= l.sequence BY DEF Numbered
<1> HIDE DEF old
<1>4. T \subseteq Nat /\ T # {} /\ l.minimum \in T /\ \A x \in old : x.at \in T BY <1>2, <1>3
<1>5. \A y \in T : y <= l.sequence BY <1>2, <1>3
<1> HIDE DEF T
<1>6. LV!Max(T) \in T /\ \A y \in T : y <= LV!Max(T) BY <1>3, <1>4, <1>5, GreatestOf
<1> DEFINE max == LV!Max(T)
<1>7. max \in Nat /\ max <= l.sequence /\ l.minimum <= max /\ \A x \in old : x.at <= max BY <1>4, <1>5, <1>6
<1> HIDE DEF max
<1>8. k = [l EXCEPT !.samples = l.samples \ old, !.minimum = max] BY DEF max
<1>9. /\ {"samples", "sequence", "minimum"} \subseteq DOMAIN k
      /\ k.samples = l.samples \ old /\ k.minimum = max /\ k.sequence = l.sequence BY <1>3, <1>8
<1> HIDE DEF k
<1>10. Numbered(k) BY <1>3, <1>7, <1>9 DEF Numbered
<1>11. Covers(l, k) BY <1>7, <1>9, <1>10 DEF Covers
<1> QED BY <1>1, <1>11

\* Rates that changed are numbered.
LEMMA RatedCovers ==
  ASSUME NEW l, Numbered(l), NEW changed, IsFiniteSet(changed)
  PROVE  Covers(l, LV!Rated(l, changed))
<1> DEFINE num == LV!Cardinality(changed)
<1>1. num \in Nat
  <2>1. LV!Cardinality(changed) = Cardinality(changed) BY DEF LV!Cardinality, Cardinality
  <2> QED BY <2>1, FS_CardinalityType
<1>2. {"samples", "sequence", "minimum"} \subseteq DOMAIN l /\ l.sequence \in Nat BY DEF Numbered
<1>3. \A a, b : LET k == [l EXCEPT !.sequence = a, !.records = b]
                IN  /\ {"samples", "sequence", "minimum"} \subseteq DOMAIN k
                    /\ k.sequence = a /\ k.minimum = l.minimum /\ k.samples = l.samples BY <1>2
<1> DEFINE k == LV!Rated(l, changed)
<1>4. /\ {"samples", "sequence", "minimum"} \subseteq DOMAIN k
      /\ k.sequence = l.sequence + num /\ k.minimum = l.minimum /\ k.samples = l.samples BY <1>3 DEF LV!Rated
<1> HIDE DEF k, num
<1>5. Covers(l, k) BY <1>1, <1>4 DEF Covers, Numbered
<1> QED BY <1>5 DEF k

\* Of what is shown, a part is finite.
LEMMA ShownFinite ==
  ASSUME NEW l, NEW changed, changed \subseteq LV!Shown(l)
  PROVE  IsFiniteSet(changed)
<1>1. changed \subseteq Stream BY DEF LV!Shown
<1>2. LV!IsFiniteSet(Stream) BY ModelAssumption DEF LV!LiveAssumption
<1>3. LV!IsFiniteSet(Stream) <=> IsFiniteSet(Stream) BY DEF LV!IsFiniteSet, IsFiniteSet
<1> QED BY <1>1, <1>2, <1>3, FS_Subset

\* A step is answerable: what is no longer there is replaced in its second, or older than any
\* valid cursor.
Answerable(l, k) ==
  /\ Numbered(k)
  /\ \A x \in l.samples :
       \/ x \in k.samples \/ x.at <= k.minimum
       \/ \E y \in k.samples : y.stream = x.stream /\ y.second = x.second

\* What is covered is answerable.
LEMMA CoversAnswers ==
  ASSUME NEW l, NEW k, Covers(l, k)
  PROVE  Answerable(l, k)
BY DEF Covers, Answerable

\* A sample comes: it replaces that of its second, and when the memory is full the oldest goes.
LEMMA SampledAnswers ==
  ASSUME NEW o, NEW l, Numbered(o), l.samples = o.samples, l.minimum = o.minimum,
         {"samples", "sequence", "minimum"} \subseteq DOMAIN l, l.sequence = o.sequence + 1, NEW s
  PROVE  Answerable(o, LV!Sampled(l, s))
<1> DEFINE new == [stream |-> s, second |-> clock, at |-> l.sequence]
           others == {x \in l.samples : ~ (x.stream = s /\ x.second = clock)}
           all == others \cup {new}
           over == LV!Cardinality(all) > MaxSamples
           kept == IF over THEN all \ {LV!Oldest(all)} ELSE all
           min == IF over THEN LV!Max({l.minimum, LV!Oldest(all).at}) ELSE l.minimum
           k == [l EXCEPT !.samples = kept, !.minimum = min]
<1>1. LV!Sampled(l, s) = k BY DEF LV!Sampled
<1>2. l.samples = o.samples /\ l.minimum = o.minimum OBVIOUS
<1>3. /\ o.sequence \in Nat /\ l.minimum \in Nat /\ l.minimum <= o.sequence /\ l.sequence \in Nat
      /\ \A x \in l.samples : x.at \in Nat /\ x.at <= o.sequence BY <1>2 DEF Numbered
<1>4. new.stream = s /\ new.second = clock /\ new.at = l.sequence OBVIOUS
<1>5. \A x \in l.samples : x \in others \/ (x.stream = s /\ x.second = clock) OBVIOUS
<1>6. \A x \in others : x \in l.samples OBVIOUS
<1> HIDE DEF new, others
<1>7. \A x \in all : x.at \in Nat /\ x.at <= l.sequence BY <1>3, <1>4, <1>6
<1>8. all # {} /\ new \in all OBVIOUS
<1>9. \A x \in l.samples : x \in all \/ (x.stream = new.stream /\ x.second = new.second) BY <1>4, <1>5
<1> HIDE DEF all
<1> DEFINE oldest == LV!Oldest(all)
<1>10. oldest \in all /\ \A y \in all : oldest.at <= y.at BY <1>7, <1>8, OldestThere
<1>11. oldest.at \in Nat /\ oldest.at <= l.sequence BY <1>7, <1>10
<1> DEFINE max == LV!Max({l.minimum, oldest.at})
<1>12. max \in Nat /\ max <= l.sequence /\ l.minimum <= max /\ oldest.at <= max
  <2> DEFINE T == {l.minimum, oldest.at}
  <2>a. l.minimum \in Nat /\ l.minimum <= l.sequence /\ l.sequence \in Nat BY <1>3
  <2>b. oldest.at \in Nat /\ oldest.at <= l.sequence BY <1>11
  <2>1. T \subseteq Nat /\ T # {} /\ \A y \in T : y <= l.sequence
    <3> HIDE DEF oldest
    <3> QED BY <2>a, <2>b
  <2>2. LV!Max(T) \in T /\ \A y \in T : y <= LV!Max(T) BY <2>a, <2>1, GreatestOf
  <2> QED BY <2>a, <2>1, <2>2
<1>13. kept = (IF over THEN all \ {oldest} ELSE all) /\ min = (IF over THEN max ELSE l.minimum) OBVIOUS
<1>14. {"samples", "sequence", "minimum"} \subseteq DOMAIN k /\ k.samples = kept /\ k.minimum = min /\ k.sequence = l.sequence
  <2>1. \A a, b : LET j == [l EXCEPT !.samples = a, !.minimum = b]
                  IN  /\ {"samples", "sequence", "minimum"} \subseteq DOMAIN j
                      /\ j.samples = a /\ j.minimum = b /\ j.sequence = l.sequence OBVIOUS
  <2> QED BY <2>1
<1> HIDE DEF k, kept, min, max, oldest, over
<1>15. Numbered(k) BY <1>3, <1>7, <1>12, <1>13, <1>14 DEF Numbered
<1>16. ASSUME NEW x \in l.samples
       PROVE  \/ x \in k.samples \/ x.at <= k.minimum
              \/ \E y \in k.samples : y.stream = x.stream /\ y.second = x.second
  <2>1. CASE ~ over
    <3>1. kept = all BY <1>13, <2>1
    <3> QED BY <1>8, <1>9, <1>14, <3>1
  <2>2. CASE over
    <3>1. kept = all \ {oldest} /\ min = max BY <1>13, <2>2
    <3>2. CASE x \in all /\ x # oldest BY <1>14, <3>1, <3>2
    <3>3. CASE x = oldest BY <1>12, <1>14, <3>1, <3>3
    <3>4. CASE x \notin all /\ new # oldest BY <1>8, <1>9, <1>14, <3>1, <3>4
    <3>5. CASE x \notin all /\ new = oldest
      <4>1. x.at \in Nat /\ x.at <= o.sequence /\ oldest.at = o.sequence + 1 BY <1>3, <1>4, <3>5
      <4> QED BY <1>3, <1>12, <1>14, <3>1, <4>1
    <3> QED BY <3>2, <3>3, <3>4, <3>5
  <2> QED BY <2>1, <2>2
<1> QED BY <1>1, <1>2, <1>15, <1>16 DEF Answerable

\* What a step does: samples stay numbered, and a page learns what it missed.
LiveStep == LiveWhole' /\ LV!Shows

\* An answerable step is one.
LEMMA AnswerableSteps ==
  ASSUME Answerable(live, live')
  PROVE  LiveStep
<1>1. LiveWhole' BY DEF Answerable, LiveWhole, Numbered
<1>2. \A x \in live'.samples : x.at \in LV!Sequences(live') BY DEF LV!Sequences
<1> QED BY <1>1, <1>2 DEF LiveStep, LV!Shows, Answerable

\* And one that covers.
LEMMA CoversSteps ==
  ASSUME Covers(live, live')
  PROVE  LiveStep
BY CoversAnswers, AnswerableSteps

\* When nothing happens to it, the invariant stays.
LEMMA LiveStays ==
  ASSUME LiveWhole, live' = live
  PROVE  LiveStep
<1>1. Covers(live, live') BY DEF LiveWhole, Numbered, Covers
<1> QED BY <1>1, CoversSteps

\* It begins without samples.
LEMMA LiveStart ==
  ASSUME LV!Init
  PROVE  LiveWhole
<1> DEFINE first == [identity |-> 0, leases |-> [v \in Lease |-> LV!NoLease], bound |-> <<>>,
                     shown |-> <<>>, worker |-> <<>>, deadline |-> <<>>, records |-> <<>>,
                     samples |-> {}, sequence |-> 0, minimum |-> 0, revision |-> 0]
<1>1. live = LV!NoWorkers(first) BY DEF LV!Init
<1>2. {"samples", "sequence", "minimum"} \subseteq DOMAIN first /\ first.sequence = 0 /\ first.minimum = 0
  OBVIOUS
<1> HIDE DEF first
<1>3. \A a, b, c, due, e, f :
        LET k == [first EXCEPT !.identity = a, !.bound = b, !.shown = c, !.worker = due,
                               !.deadline = e, !.records = f, !.samples = {}]
        IN  /\ {"samples", "sequence", "minimum"} \subseteq DOMAIN k
            /\ k.sequence = 0 /\ k.minimum = 0 /\ k.samples = {} BY <1>2
<1>4. /\ {"samples", "sequence", "minimum"} \subseteq DOMAIN live
      /\ live.sequence = 0 /\ live.minimum = 0 /\ live.samples = {} BY <1>1, <1>3 DEF LV!NoWorkers
<1> QED BY <1>4 DEF LiveWhole, Numbered

\* A lease is taken, renewed or given back.
LEMMA LeaseAlike ==
  ASSUME NEW l, Numbered(l), NEW v, NEW lease
  PROVE  Alike(l, [l EXCEPT !.leases[v] = lease])
<1> DEFINE leases == [l.leases EXCEPT ![v] = lease]
<1>1. Alike(l, [l EXCEPT !["leases"] = leases]) BY OtherField
<1> QED BY <1>1

\* A member comes.
LEMMA AcquireSteps ==
  ASSUME LiveWhole, NEW v \in Lease, LV!Acquire(v)
  PROVE  LiveStep
<1>1. PICK r \in LV!Revisions, o \in LV!Outcomes, scope \in Scopes, refuses \in {{}, Brokers} :
        /\ LV!Read(r)
        /\ LET l == LV!Reconciled(live, r, o, refuses)
               c == IF l.identity # 0 /\ LV!Workers(l) = {} THEN LV!Cleared(l) ELSE l
               h == [c EXCEPT !.leases[v] = [scope |-> scope, until |-> clock + LeaseTime]]
           IN  IF LV!Valid(l, v, scope, r) /\ LV!Cardinality(LV!Held(l)) < MaxLeases
               THEN LV!Answer(LV!Pruned(IF h.identity = 0 THEN LV!Initialized(h, r, o)
                                        ELSE LV!Scoped(h, r, o, refuses)), 0)
               ELSE live' = l /\ UNCHANGED view BY DEF LV!Acquire
<1> DEFINE l == LV!Reconciled(live, r, o, refuses)
           c == IF l.identity # 0 /\ LV!Workers(l) = {} THEN LV!Cleared(l) ELSE l
           h == [c EXCEPT !.leases[v] = [scope |-> scope, until |-> clock + LeaseTime]]
           i == IF h.identity = 0 THEN LV!Initialized(h, r, o) ELSE LV!Scoped(h, r, o, refuses)
<1>2. live' = LV!Pruned(i) \/ live' = l BY <1>1 DEF LV!Answer
<1>3. Covers(live, l) /\ Numbered(live) BY ReconciledCovers DEF LiveWhole
<1> HIDE DEF l
<1>4. Covers(live, c) BY <1>3, MovedCovers, CoversOn DEF Covers
<1> HIDE DEF c
<1>5. Alike(c, h) BY <1>4, LeaseAlike DEF Covers
<1>6. Covers(live, h) BY <1>3, <1>4, <1>5, CoversAlike
<1> HIDE DEF h
<1>7. Covers(h, i) BY <1>6, InitializedCovers, ScopedCovers DEF Covers
<1> HIDE DEF i
<1>8. Covers(live, i) BY <1>3, <1>6, <1>7, CoversOn
<1>9. Covers(i, LV!Pruned(i)) BY <1>8, PrunedCovers DEF Covers
<1>10. Covers(live, LV!Pruned(i)) BY <1>3, <1>8, <1>9, CoversOn
<1> QED BY <1>2, <1>3, <1>10, CoversSteps

\* A member stays.
LEMMA RenewSteps ==
  ASSUME LiveWhole, NEW v \in Lease, LV!Renew(v)
  PROVE  LiveStep
<1>1. PICK r \in LV!Revisions, o \in LV!Outcomes, scope \in Scopes, refuses \in {{}, Brokers} :
        LET l == LV!Reconciled(live, r, o, refuses)
            lease == [scope |-> scope, until |-> clock + LeaseTime]
        IN  live' = l \/ live' = LV!Pruned(LV!Scoped([l EXCEPT !.leases[v] = lease], r, o, refuses))
  BY DEF LV!Renew
<1> DEFINE l == LV!Reconciled(live, r, o, refuses)
           h == [l EXCEPT !.leases[v] = [scope |-> scope, until |-> clock + LeaseTime]]
           i == LV!Scoped(h, r, o, refuses)
<1>2. live' = l \/ live' = LV!Pruned(i) BY <1>1
<1>3. Covers(live, l) /\ Numbered(live) BY ReconciledCovers DEF LiveWhole
<1> HIDE DEF l
<1>4. Alike(l, h) BY <1>3, LeaseAlike DEF Covers
<1>5. Covers(live, h) BY <1>3, <1>4, CoversAlike
<1> HIDE DEF h
<1>6. Covers(h, i) BY <1>5, ScopedCovers DEF Covers
<1> HIDE DEF i
<1>7. Covers(live, i) BY <1>3, <1>5, <1>6, CoversOn
<1>8. Covers(i, LV!Pruned(i)) BY <1>7, PrunedCovers DEF Covers
<1>9. Covers(live, LV!Pruned(i)) BY <1>3, <1>7, <1>8, CoversOn
<1> QED BY <1>2, <1>3, <1>9, CoversSteps

\* A member goes.
LEMMA ReleaseLeaseSteps ==
  ASSUME LiveWhole, NEW v \in Lease, LV!Release(v)
  PROVE  LiveStep
<1> DEFINE l == [live EXCEPT !.leases[v] = LV!NoLease]
<1>1. live' = LV!Stopped(l) \/ live' = l BY DEF LV!Release
<1>2. Numbered(live) /\ Alike(live, l) BY LeaseAlike DEF LiveWhole
<1>3. Covers(live, l) BY <1>2, AlikeCovers
<1> HIDE DEF l
<1>4. Covers(live, LV!Stopped(l)) BY <1>2, <1>3, MovedCovers, CoversOn DEF Covers
<1> QED BY <1>1, <1>3, <1>4, CoversSteps

\* A page polls.
LEMMA PollSteps ==
  ASSUME LiveWhole, LV!Poll
  PROVE  LiveStep
<1>1. PICK r \in LV!Revisions, o \in LV!Outcomes, refuses \in {{}, Brokers} :
        LET l == LV!Pruned(LV!Reconciled(live, r, o, refuses))
        IN  \E changed \in {{}, {s \in LV!Shown(l) : l.records[s] <= view.cursor}} :
              LV!Answer(LV!Rated(l, changed), view.cursor) BY DEF LV!Poll
<1> DEFINE k == LV!Reconciled(live, r, o, refuses)
           l == LV!Pruned(k)
<1>2. Numbered(live) /\ Covers(live, k) BY ReconciledCovers DEF LiveWhole
<1>3. PICK changed \in {{}, {s \in LV!Shown(l) : l.records[s] <= view.cursor}} :
        LV!Answer(LV!Rated(l, changed), view.cursor) BY <1>1
<1>4. live' = LV!Rated(l, changed) BY <1>3 DEF LV!Answer
<1>5. changed \subseteq LV!Shown(l) BY <1>3
<1> HIDE DEF k
<1>6. Covers(k, l) BY <1>2, PrunedCovers DEF Covers
<1> HIDE DEF l
<1>7. Covers(live, l) BY <1>2, <1>6, CoversOn
<1>8. IsFiniteSet(changed) BY <1>5, ShownFinite
<1>9. Covers(l, LV!Rated(l, changed)) BY <1>7, <1>8, RatedCovers DEF Covers
<1>10. Covers(live, live') BY <1>2, <1>4, <1>7, <1>9, CoversOn
<1> QED BY <1>10, CoversSteps

\* The supervisor looks after the workers.
LEMMA SuperviseSteps ==
  ASSUME LiveWhole, LV!Supervise
  PROVE  LiveStep
<1>1. \/ live' = LV!Stopped(live)
      \/ \E o \in LV!Outcomes, refuses \in {{}, Brokers} : live' = LV!Reconciled(live, system, o, refuses)
  BY DEF LV!Supervise
<1> QED BY <1>1, MovedCovers, ReconciledCovers, CoversSteps DEF LiveWhole

\* A connection tells its state.
LEMMA CallbackSteps ==
  ASSUME LiveWhole, NEW b \in Brokers, LV!Callback(b)
  PROVE  LiveStep
<1>1. PICK state, status : LV!Told(b, state, status) BY DEF LV!Callback
<1>2. Numbered(live) BY DEF LiveWhole
<1>3. ASSUME NEW x, live' = [live EXCEPT !.worker = x]
      PROVE  Alike(live, live') BY <1>2, <1>3 DEF Alike, Numbered
<1>4. ASSUME NEW x, NEW y, NEW z, live' = [live EXCEPT !.worker = x, !.shown = y, !.deadline = z]
      PROVE  Alike(live, live') BY <1>2, <1>4 DEF Alike, Numbered
<1>5. \/ \E x : live' = [live EXCEPT !.worker = x]
      \/ \E x, y, z : live' = [live EXCEPT !.worker = x, !.shown = y, !.deadline = z] BY <1>1 DEF LV!Told
<1>6. Alike(live, live') BY <1>3, <1>4, <1>5
<1> QED BY <1>2, <1>6, AlikeCovers, CoversSteps

\* A message comes.
LEMMA ReceiveSteps ==
  ASSUME LiveWhole, NEW s \in Stream, NEW decodes \in BOOLEAN, LV!Receive(s, decodes)
  PROVE  LiveStep
<1> DEFINE l == [live EXCEPT !.sequence = @ + 1, !.records[s] = live.sequence + 1]
<1>1. live' = LV!Sampled(l, s) \/ live' = l BY DEF LV!Receive
<1>2. Numbered(live) BY DEF LiveWhole
<1>3. \A x, y : LET k == [live EXCEPT !.sequence = x, !.records = y]
                IN  /\ {"samples", "sequence", "minimum"} \subseteq DOMAIN k
                    /\ k.sequence = x /\ k.samples = live.samples /\ k.minimum = live.minimum
  BY <1>2 DEF Numbered
<1>4. /\ {"samples", "sequence", "minimum"} \subseteq DOMAIN l
      /\ l.sequence = live.sequence + 1 /\ l.samples = live.samples /\ l.minimum = live.minimum BY <1>3
<1> HIDE DEF l
<1>5. Covers(live, l) BY <1>2, <1>4 DEF Covers, Numbered
<1>6. Answerable(live, LV!Sampled(l, s)) BY <1>2, <1>4, SampledAnswers
<1> QED BY <1>1, <1>5, <1>6, CoversSteps, AnswerableSteps

\* Every step keeps the invariant and what is promised of it.
LEMMA LiveSteps ==
  ASSUME LiveWhole, LV!Next
  PROVE  LiveStep
<1>1. CASE \E v \in Lease : LV!Acquire(v) \/ LV!Renew(v) \/ LV!Release(v)
  BY <1>1, AcquireSteps, RenewSteps, ReleaseLeaseSteps
<1>2. CASE LV!Poll \/ LV!Supervise BY <1>2, PollSteps, SuperviseSteps
<1>3. CASE LV!Edit \/ LV!Tick BY <1>3, LiveStays DEF LV!Edit, LV!Tick
<1>4. CASE \E b \in Brokers : LV!Callback(b) BY <1>4, CallbackSteps
<1>5. CASE \E s \in Stream, decodes \in BOOLEAN : LV!Receive(s, decodes) BY <1>5, ReceiveSteps
<1> QED BY <1>1, <1>2, <1>3, <1>4, <1>5 DEF LV!Next

\* The fields of what the service keeps.
LiveFields == {"identity", "leases", "bound", "shown", "worker", "deadline", "records",
               "samples", "sequence", "minimum", "revision"}

\* Leases ask for few readings, and one that ended asks for none.
LeasesFit(l) ==
  /\ l.leases \in [Lease -> [scope : SUBSET Stream, until : 0 .. MaxClock + LeaseTime]]
  /\ \A v \in Lease : l.leases[v] = LV!NoLease \/ l.leases[v].until > 0
  /\ Cardinality(LV!Desired(l)) <= MaxStreams

\* What leases ask for is in the document.
Meant(l, r) == \A v \in Lease : l.leases[v].scope \subseteq Document[r]

\* A worker has a connection that is shown, one that is connected is up, and one that is not has a deadline.
ConnectionsFit(l) ==
  /\ l.bound \in [Brokers -> SUBSET Stream]
  /\ l.shown \in [Brokers -> {"none", "connecting", "connected", "reconnecting", "error", "blocked"}]
  /\ l.worker \in [Brokers -> {"none", "off", "subscribing", "up", "denied"}]
  /\ l.deadline \in [Brokers -> 0 .. LV!Never]
  /\ \A b \in Brokers : /\ l.worker[b] # "none" => l.shown[b] # "none"
                        /\ l.shown[b] = "connected" => l.worker[b] = "up"
                        /\ l.worker[b] # "none" /\ l.shown[b] \in {"connecting", "reconnecting"} => l.deadline[b] # LV!Never
  /\ Cardinality(LV!Workers(l)) <= MaxConnections

\* Records and samples have numbers that were handed out.
RecordsFit(l) ==
  /\ l.records \in [Stream -> Nat] /\ \A s \in Stream : l.records[s] <= l.sequence
  /\ IsFiniteSet(l.samples) /\ Cardinality(l.samples) <= MaxSamples
  /\ \A x \in l.samples : x.at > 0

\* Without a session nothing is shown, and a session is about one document.
IdentityFits(l) ==
  /\ l.identity \in LV!Revisions \cup {0}
  /\ l.identity = 0 => LV!Workers(l) = {} /\ LV!Shown(l) = {} /\ l.samples = {}
  /\ l.identity # 0 => l.revision = l.identity /\ Meant(l, l.identity)

\* What holds of the service at every moment of an operation ...
ViewSound(l) ==
  LiveFields \subseteq DOMAIN l /\ Numbered(l) /\ LeasesFit(l) /\ ConnectionsFit(l) /\ RecordsFit(l) /\ IdentityFits(l)

\* ... and at its end: there is a session while there are leases, and it shows what they ask for.
SessionFits(l) ==
  /\ l.identity = 0 <=> LV!Held(l) = {}
  /\ l.identity # 0 => LV!Desired(l) \subseteq LV!Shown(l)

\* What a page has: its cursor was handed out, and what is not newer it has seen.
PageFits(l, v) ==
  /\ {"cursor", "revision", "records", "samples"} \subseteq DOMAIN v /\ v.cursor \in Nat /\ v.cursor <= l.sequence
  /\ v.cursor # 0 /\ l.minimum <= v.cursor =>
       /\ \A s \in LV!Shown(l) : l.records[s] <= v.cursor => v.records[s] = l.records[s] /\ v.revision = l.revision
       /\ \A x \in l.samples : x.at <= v.cursor => x.at \in v.samples /\ v.revision = l.revision

\* What goes on for a page: its cursor is too old, or what is not new is what it was.
Succeeds(l, k) ==
  /\ l.sequence <= k.sequence /\ l.minimum <= k.minimum
  /\ \/ l.sequence < k.minimum
     \/ /\ \A s \in LV!Shown(k) : k.records[s] > l.sequence \/ (k.records[s] = l.records[s] /\ k.revision = l.revision)
        /\ \A x \in k.samples : x.at > l.sequence \/ (x \in l.samples /\ k.revision = l.revision)

\* The inductive invariant of the live view.
ViewWhole ==
  /\ clock \in 0 .. MaxClock /\ system \in LV!Revisions
  /\ ViewSound(live) /\ SessionFits(live) /\ PageFits(live, view)

\* The module counts as the library does.
LEMMA CountedAlike ==
  ASSUME NEW S
  PROVE  LV!Cardinality(S) = Cardinality(S)
BY DEF LV!Cardinality, Cardinality

\* What the parameters are.
LEMMA ViewSizes ==
  /\ IsFiniteSet(Stream) /\ (\E num \in Nat : Brokers = 1 .. num) /\ Home \in [Stream -> Brokers]
  /\ 1 \in LV!Revisions /\ 0 \notin LV!Revisions /\ \A r \in LV!Revisions : Document[r] \subseteq Stream
  /\ Scopes \subseteq SUBSET Stream
  /\ MaxConnections \in Nat /\ MaxStreams \in Nat /\ MaxSamples \in Nat /\ MaxClock \in Nat
  /\ LeaseTime \in Nat /\ LeaseTime > 0 /\ ConnectTimeout \in Nat /\ ConnectTimeout > 0
<1>1. \A S : LV!IsFiniteSet(S) <=> IsFiniteSet(S) BY DEF LV!IsFiniteSet, IsFiniteSet
<1>2. IsFiniteSet(Brokers) /\ Brokers = 1 .. LV!Cardinality(Brokers)
  BY <1>1, ModelAssumption DEF LV!LiveAssumption
<1>3. LV!Cardinality(Brokers) \in Nat BY <1>2, CountedAlike, FS_CardinalityType
<1>4. \E num \in Nat : Brokers = 1 .. num BY <1>2, <1>3
<1> QED BY <1>1, <1>4, ModelAssumption DEF LV!LiveAssumption, LV!Revisions

\* Of a set of numbers, few are among the first k.
LEMMA FewAreFirst ==
  ASSUME NEW S, S \subseteq Nat, IsFiniteSet(S), NEW k \in Int, NEW bound \in Nat, \A x \in S : x <= bound
  PROVE  LET g == {b \in S : Cardinality({c \in S : c < b}) < k}
         IN  g = {} \/ (IsFiniteSet(g) /\ Cardinality(g) <= k)
<1> DEFINE g == {b \in S : Cardinality({c \in S : c < b}) < k}
<1> SUFFICES ASSUME g # {} PROVE IsFiniteSet(g) /\ Cardinality(g) <= k OBVIOUS
<1>1. g \subseteq Nat /\ g \subseteq S /\ \A y \in g : y <= bound OBVIOUS
<1>2. PICK m \in g : \A y \in g : y <= m BY <1>1, GreatestOf
<1> DEFINE T == {c \in S : c < m}
<1>3. Cardinality(T) < k OBVIOUS
<1>4. T \subseteq S /\ IsFiniteSet(T) /\ Cardinality(T) \in Nat
  <2>1. T \subseteq S OBVIOUS
  <2> QED BY <2>1, FS_Subset, FS_CardinalityType
<1>5. g \subseteq T \cup {m}
  <2> SUFFICES ASSUME NEW y \in g, y # m PROVE y < m BY <1>1
  <2>1. y \in Nat /\ m \in Nat /\ y <= m BY <1>1, <1>2
  <2> QED BY <2>1
<1>6. m \notin T
  <2>1. m \in Nat BY <1>1
  <2> QED BY <2>1
<1> HIDE DEF T
<1>7. IsFiniteSet(T \cup {m}) /\ Cardinality(T \cup {m}) = Cardinality(T) + 1 BY <1>4, <1>6, FS_AddElement
<1>8. IsFiniteSet(g) /\ Cardinality(g) <= Cardinality(T \cup {m}) BY <1>5, <1>7, FS_Subset
<1>9. Cardinality(g) \in Nat BY <1>8, FS_CardinalityType
<1> QED BY <1>3, <1>4, <1>7, <1>8, <1>9

\* Some of what is kept of the connections changes, and nothing else.
Wired(l, k) ==
  /\ LiveFields \subseteq DOMAIN k
  /\ k.identity = l.identity /\ k.leases = l.leases /\ k.bound = l.bound /\ k.revision = l.revision
  /\ k.records = l.records /\ k.samples = l.samples /\ k.sequence = l.sequence /\ k.minimum = l.minimum

\* The field of a connection that is shown.
LEMMA WiredShown ==
  ASSUME NEW l, LiveFields \subseteq DOMAIN l, NEW a
  PROVE  LET k == [l EXCEPT !.shown = a]
         IN  Wired(l, k) /\ k.shown = a /\ k.worker = l.worker /\ k.deadline = l.deadline
BY DEF LiveFields, Wired

\* What is wired is of one session and shows the same.
LEMMA WiredSame ==
  ASSUME NEW l, NEW k, Wired(l, k)
  PROVE  /\ LV!Held(k) = LV!Held(l) /\ LV!Desired(k) = LV!Desired(l) /\ LV!Shown(k) = LV!Shown(l)
         /\ LeasesFit(l) => LeasesFit(k)
         /\ RecordsFit(l) => RecordsFit(k)
         /\ \A r : Meant(l, r) => Meant(k, r)
         /\ Numbered(l) => Numbered(k)
         /\ Numbered(l) => Succeeds(l, k)
<1>1. /\ k.leases = l.leases /\ k.records = l.records /\ k.samples = l.samples /\ k.sequence = l.sequence
      /\ k.minimum = l.minimum /\ k.revision = l.revision /\ LiveFields \subseteq DOMAIN k BY DEF Wired
<1>2. LV!Held(k) = LV!Held(l) /\ LV!Desired(k) = LV!Desired(l) /\ LV!Shown(k) = LV!Shown(l)
  BY <1>1 DEF LV!Held, LV!Desired, LV!Shown
<1>3. LeasesFit(l) => LeasesFit(k) BY <1>1, <1>2 DEF LeasesFit
<1>4. RecordsFit(l) => RecordsFit(k) BY <1>1 DEF RecordsFit
<1>5. \A r : Meant(l, r) => Meant(k, r) BY <1>1 DEF Meant
<1>6. Numbered(l) => Numbered(k) BY <1>1 DEF Numbered, LiveFields
<1>7. Numbered(l) => Succeeds(l, k) BY <1>1 DEF Numbered, Succeeds
<1> QED BY <1>2, <1>3, <1>4, <1>5, <1>6, <1>7

\* Connections begin within their limit.
LEMMA ConnectFits ==
  ASSUME NEW l, LiveFields \subseteq DOMAIN l, ConnectionsFit(l), clock \in 0 .. MaxClock,
         NEW bs, bs \subseteq Brokers, \A b \in bs : l.worker[b] = "none", NEW outcome
  PROVE  Wired(l, LV!Connect(l, bs, outcome)) /\ ConnectionsFit(LV!Connect(l, bs, outcome))
<1> DEFINE goes == {b \in bs : outcome # "blocked"
                      /\ LV!Cardinality(LV!Workers(l)) + LV!Cardinality({c \in bs : c < b}) < MaxConnections}
           said(b) == IF b \notin goes THEN "blocked" ELSE IF outcome = "error" THEN "error" ELSE "connecting"
           shown == [b \in Brokers |-> IF b \in bs THEN said(b) ELSE l.shown[b]]
           worker == [b \in Brokers |-> IF b \in goes THEN "off" ELSE l.worker[b]]
           deadline == [b \in Brokers |-> IF b \in goes THEN clock + ConnectTimeout ELSE l.deadline[b]]
<1>1. PICK k : k = LV!Connect(l, bs, outcome) OBVIOUS
<1>2. k = [l EXCEPT !.shown = shown, !.worker = worker, !.deadline = deadline] BY <1>1 DEF LV!Connect
<1>3. goes \subseteq bs /\ \A b : said(b) \in {"blocked", "error", "connecting"} /\ (b \notin goes => said(b) = "blocked")
  OBVIOUS
<1>4. Wired(l, k) /\ k.shown = shown /\ k.worker = worker /\ k.deadline = deadline
  <2> HIDE DEF shown, worker, deadline
  <2> QED BY <1>2 DEF LiveFields, Wired
<1>5. clock + ConnectTimeout \in 0 .. LV!Never /\ clock + ConnectTimeout # LV!Never BY ViewSizes DEF LV!Never
<1>6. PICK num \in Nat : Brokers = 1 .. num BY ViewSizes
<1>7. IsFiniteSet(Brokers) /\ Brokers \subseteq Nat /\ IsFiniteSet(bs) /\ \A x \in bs : x <= num
  <2>1. IsFiniteSet(Brokers) BY <1>6, FS_Interval
  <2>2. Brokers \subseteq Nat /\ \A x \in bs : x <= num BY <1>6
  <2> QED BY <2>1, <2>2, FS_Subset
<1>8. LV!Workers(k) = LV!Workers(l) \cup goes BY <1>3, <1>4 DEF LV!Workers
<1>9. Cardinality(LV!Workers(l)) \in Nat /\ IsFiniteSet(LV!Workers(l)) /\ Cardinality(LV!Workers(l)) <= MaxConnections
  <2>1. LV!Workers(l) \subseteq Brokers BY DEF LV!Workers
  <2> QED BY <2>1, <1>7, FS_Subset, FS_CardinalityType DEF ConnectionsFit
<1>10. Cardinality(LV!Workers(k)) <= MaxConnections
  <2> DEFINE room == MaxConnections - Cardinality(LV!Workers(l))
             g == {b \in bs : Cardinality({c \in bs : c < b}) < room}
  <2>1. room \in Nat BY <1>9, ViewSizes
  <2>2. goes \subseteq g
    <3> SUFFICES ASSUME NEW b \in goes PROVE Cardinality({c \in bs : c < b}) < room BY <1>3
    <3>1. Cardinality(LV!Workers(l)) + Cardinality({c \in bs : c < b}) < MaxConnections BY CountedAlike
    <3>2. IsFiniteSet({c \in bs : c < b})
      <4>1. {c \in bs : c < b} \subseteq bs OBVIOUS
      <4> QED BY <4>1, <1>7, FS_Subset
    <3>3. Cardinality({c \in bs : c < b}) \in Nat BY <3>2, FS_CardinalityType
    <3> QED BY <3>1, <3>3, <1>9, ViewSizes
  <2>3. bs \subseteq Nat BY <1>7
  <2>4. g = {} \/ (IsFiniteSet(g) /\ Cardinality(g) <= room)
    <3> HIDE DEF room
    <3>1. room \in Int BY <2>1
    <3> QED BY <3>1, <2>3, <1>7, FewAreFirst
  <2>5. PICK few : few = g OBVIOUS
  <2> HIDE DEF g, goes
  <2>6. IsFiniteSet(few) /\ Cardinality(few) <= room /\ Cardinality(few) \in Nat
    <3>1. CASE few = {} BY <3>1, <2>1, FS_EmptySet
    <3>2. CASE few # {} BY <3>2, <2>4, <2>5, FS_CardinalityType
    <3> QED BY <3>1, <3>2
  <2>7. IsFiniteSet(goes) /\ Cardinality(goes) <= Cardinality(few) /\ Cardinality(goes) \in Nat
    BY <2>2, <2>5, <2>6, FS_Subset, FS_CardinalityType
  <2>8. /\ IsFiniteSet(LV!Workers(l) \cup goes)
        /\ Cardinality(LV!Workers(l) \cup goes) = Cardinality(LV!Workers(l)) + Cardinality(goes) - Cardinality(LV!Workers(l) \cap goes)
    BY <1>9, <2>7, FS_Union
  <2>9. Cardinality(LV!Workers(l) \cap goes) \in Nat BY <1>9, FS_Intersection, FS_CardinalityType
  <2>10. Cardinality(LV!Workers(l) \cup goes) \in Nat BY <2>8, FS_CardinalityType
  <2>11. Cardinality(LV!Workers(l)) + room = MaxConnections BY <1>9, ViewSizes
  <2> HIDE DEF room
  <2> QED BY <1>8, <1>9, <2>1, <2>6, <2>7, <2>8, <2>9, <2>10, <2>11, ViewSizes
<1> HIDE DEF goes
<1>11. k.bound \in [Brokers -> SUBSET Stream] BY <1>4 DEF Wired, ConnectionsFit
<1>12. shown \in [Brokers -> {"none", "connecting", "connected", "reconnecting", "error", "blocked"}]
  <2> HIDE DEF said
  <2> QED BY <1>3 DEF ConnectionsFit
<1>13. /\ worker \in [Brokers -> {"none", "off", "subscribing", "up", "denied"}]
       /\ deadline \in [Brokers -> 0 .. LV!Never] BY <1>5 DEF ConnectionsFit
<1>14. ASSUME NEW b \in Brokers
       PROVE  /\ worker[b] # "none" => shown[b] # "none"
              /\ shown[b] = "connected" => worker[b] = "up"
              /\ worker[b] # "none" /\ shown[b] \in {"connecting", "reconnecting"} => deadline[b] # LV!Never
  <2>1. CASE b \notin bs
    <3>1. shown[b] = l.shown[b] /\ worker[b] = l.worker[b] /\ deadline[b] = l.deadline[b] BY <2>1, <1>3
    <3> QED BY <3>1 DEF ConnectionsFit
  <2>2. CASE b \in bs
    <3>1. shown[b] = said(b) /\ shown[b] \in {"blocked", "error", "connecting"} BY <2>2, <1>3
    <3>2. b \in goes => deadline[b] = clock + ConnectTimeout OBVIOUS
    <3>3. b \notin goes => worker[b] = "none" BY <2>2
    <3> QED BY <3>1, <3>2, <3>3, <1>5
  <2> QED BY <2>1, <2>2
<1> HIDE DEF shown, worker, deadline
<1>15. ConnectionsFit(k) BY <1>4, <1>10, <1>11, <1>12, <1>13, <1>14 DEF ConnectionsFit
<1> QED BY <1>1, <1>4, <1>15

\* Connections are dropped.
LEMMA DropFits ==
  ASSUME NEW l, LiveFields \subseteq DOMAIN l, ConnectionsFit(l), NEW bs
  PROVE  /\ Wired(l, LV!Dropped(l, bs)) /\ ConnectionsFit(LV!Dropped(l, bs))
         /\ \A b \in Brokers : b \in bs => LV!Dropped(l, bs).worker[b] = "none"
         /\ \A b \in Brokers : b \notin bs => LV!Dropped(l, bs).shown[b] = l.shown[b]
         /\ LV!Workers(LV!Dropped(l, bs)) = LV!Workers(l) \ bs
<1> DEFINE worker == [b \in Brokers |-> IF b \in bs THEN "none" ELSE l.worker[b]]
           shown == [b \in Brokers |-> IF b \in bs THEN "none" ELSE l.shown[b]]
           deadline == [b \in Brokers |-> IF b \in bs THEN LV!Never ELSE l.deadline[b]]
<1>1. PICK k : k = LV!Dropped(l, bs) OBVIOUS
<1>2. k = [l EXCEPT !.worker = worker, !.shown = shown, !.deadline = deadline] BY <1>1 DEF LV!Dropped
<1>3. Wired(l, k) /\ k.shown = shown /\ k.worker = worker /\ k.deadline = deadline
  <2> HIDE DEF shown, worker, deadline
  <2> QED BY <1>2 DEF LiveFields, Wired
<1>4. LV!Never \in 0 .. LV!Never BY ViewSizes DEF LV!Never
<1>5. /\ shown \in [Brokers -> {"none", "connecting", "connected", "reconnecting", "error", "blocked"}]
      /\ worker \in [Brokers -> {"none", "off", "subscribing", "up", "denied"}]
      /\ deadline \in [Brokers -> 0 .. LV!Never] BY <1>4 DEF ConnectionsFit
<1>6. \A b \in Brokers : /\ worker[b] # "none" => shown[b] # "none"
                         /\ shown[b] = "connected" => worker[b] = "up"
                         /\ worker[b] # "none" /\ shown[b] \in {"connecting", "reconnecting"} => deadline[b] # LV!Never
  BY DEF ConnectionsFit
<1>7. LV!Workers(k) = LV!Workers(l) \ bs BY <1>3 DEF LV!Workers
<1>8. \A b \in Brokers : (b \in bs => k.worker[b] = "none") /\ (b \notin bs => k.shown[b] = l.shown[b])
  BY <1>3
<1> HIDE DEF shown, worker, deadline
<1>9. Cardinality(LV!Workers(k)) <= MaxConnections
  <2>1. PICK num \in Nat : Brokers = 1 .. num BY ViewSizes
  <2>2. IsFiniteSet(LV!Workers(l))
    <3>1. IsFiniteSet(Brokers) BY <2>1, FS_Interval
    <3>2. LV!Workers(l) \subseteq Brokers BY DEF LV!Workers
    <3> QED BY <3>1, <3>2, FS_Subset
  <2>3. LV!Workers(k) \subseteq LV!Workers(l) BY <1>7
  <2>4. /\ Cardinality(LV!Workers(k)) <= Cardinality(LV!Workers(l)) /\ Cardinality(LV!Workers(l)) <= MaxConnections
        /\ Cardinality(LV!Workers(k)) \in Nat /\ Cardinality(LV!Workers(l)) \in Nat
    BY <2>2, <2>3, FS_Subset, FS_CardinalityType DEF ConnectionsFit
  <2> QED BY <2>4, ViewSizes
<1>10. k.bound \in [Brokers -> SUBSET Stream] BY <1>3 DEF Wired, ConnectionsFit
<1>11. ConnectionsFit(k) BY <1>3, <1>5, <1>6, <1>9, <1>10 DEF ConnectionsFit
<1> QED BY <1>1, <1>3, <1>7, <1>8, <1>11

\* Connections that failed are retired, and what is shown of them tells it.
LEMMA RetireFits ==
  ASSUME NEW l, LiveFields \subseteq DOMAIN l, ConnectionsFit(l)
  PROVE  /\ Wired(l, LV!Retired(l)) /\ ConnectionsFit(LV!Retired(l))
         /\ LV!Workers(LV!Retired(l)) \subseteq LV!Workers(l)
<1> DEFINE shown == [b \in Brokers |-> IF b \in LV!Workers(l) /\ clock >= l.deadline[b] THEN "error" ELSE l.shown[b]]
           failed == {b \in LV!Workers(l) : shown[b] \in {"error", "blocked"}}
<1>1. PICK due : due = LV!Dropped(l, failed) OBVIOUS
<1>2. PICK k : k = LV!Retired(l) OBVIOUS
<1>3. k = [due EXCEPT !.shown = shown] BY <1>1, <1>2 DEF LV!Retired
<1>4. /\ Wired(l, due) /\ ConnectionsFit(due) /\ LV!Workers(due) = LV!Workers(l) \ failed
      /\ \A b \in Brokers : b \in failed => due.worker[b] = "none"
      /\ \A b \in Brokers : b \notin failed => due.shown[b] = l.shown[b]
  <2> HIDE DEF failed
  <2> QED BY <1>1, DropFits
<1>5. Wired(due, k) /\ k.shown = shown /\ k.worker = due.worker /\ k.deadline = due.deadline
  <2> HIDE DEF shown
  <2>1. LiveFields \subseteq DOMAIN due BY <1>4 DEF Wired
  <2> QED BY <1>3, <2>1, WiredShown
<1>6. Wired(l, k) BY <1>4, <1>5 DEF Wired
<1>7. LV!Workers(k) = LV!Workers(due) BY <1>5 DEF LV!Workers
<1>8. shown \in [Brokers -> {"none", "connecting", "connected", "reconnecting", "error", "blocked"}]
  BY DEF ConnectionsFit
<1>9. ASSUME NEW b \in Brokers
      PROVE  /\ k.worker[b] # "none" => shown[b] # "none"
             /\ shown[b] = "connected" => k.worker[b] = "up"
             /\ k.worker[b] # "none" /\ shown[b] \in {"connecting", "reconnecting"} => k.deadline[b] # LV!Never
  <2>1. CASE shown[b] = "error" BY <2>1
  <2>2. CASE shown[b] # "error" /\ b \in failed
    <3>1. k.worker[b] = "none" /\ shown[b] = "blocked" BY <2>2, <1>4, <1>5
    <3> QED BY <3>1
  <2>3. CASE shown[b] # "error" /\ b \notin failed
    <3>1. shown[b] = l.shown[b] BY <2>3
    <3>2. due.shown[b] = l.shown[b] BY <2>3, <1>4
    <3> QED BY <3>1, <3>2, <1>4, <1>5 DEF ConnectionsFit
  <2> QED BY <2>1, <2>2, <2>3
<1> HIDE DEF shown, failed
<1>10. ConnectionsFit(k)
  <2>1. k.bound \in [Brokers -> SUBSET Stream] BY <1>4, <1>5 DEF Wired, ConnectionsFit
  <2> QED BY <2>1, <1>4, <1>5, <1>7, <1>8, <1>9 DEF ConnectionsFit
<1> QED BY <1>2, <1>4, <1>6, <1>7, <1>10

\* What goes on after what goes on.
LEMMA FollowsOn ==
  ASSUME NEW l, NEW k, NEW j, Numbered(l), Numbered(k), Numbered(j), RecordsFit(j), Succeeds(l, k), Succeeds(k, j),
         LiveFields \subseteq DOMAIN k, LV!Shown(j) \subseteq Stream, RecordsFit(k)
  PROVE  Succeeds(l, j)
<1>1. /\ l.sequence \in Nat /\ k.sequence \in Nat /\ j.sequence \in Nat /\ l.minimum \in Nat /\ k.minimum \in Nat /\ j.minimum \in Nat
      /\ l.sequence <= k.sequence /\ k.sequence <= j.sequence /\ l.minimum <= k.minimum /\ k.minimum <= j.minimum
  BY DEF Numbered, Succeeds
<1>2. CASE l.sequence < k.minimum \/ k.sequence < j.minimum BY <1>1, <1>2 DEF Succeeds
<1>3. CASE ~(l.sequence < k.minimum \/ k.sequence < j.minimum)
  <2>1. ASSUME NEW s \in LV!Shown(j)
        PROVE  j.records[s] > l.sequence \/ (j.records[s] = l.records[s] /\ j.revision = l.revision)
    <3>1. s \in Stream /\ j.records[s] \in Nat /\ j.records[s] > 0 BY DEF LV!Shown, RecordsFit
    <3>2. j.records[s] > k.sequence \/ (j.records[s] = k.records[s] /\ j.revision = k.revision)
      BY <1>3 DEF Succeeds
    <3>3. CASE j.records[s] > k.sequence BY <1>1, <3>1, <3>3
    <3>4. CASE j.records[s] = k.records[s] /\ j.revision = k.revision
      <4>1. s \in LV!Shown(k) BY <3>1, <3>4 DEF LV!Shown
      <4>2. k.records[s] > l.sequence \/ (k.records[s] = l.records[s] /\ k.revision = l.revision)
        BY <4>1, <1>3 DEF Succeeds
      <4> QED BY <3>4, <4>2
    <3> QED BY <3>2, <3>3, <3>4
  <2>2. ASSUME NEW x \in j.samples
        PROVE  x.at > l.sequence \/ (x \in l.samples /\ j.revision = l.revision)
    <3>1. x.at \in Nat BY DEF Numbered
    <3>2. x.at > k.sequence \/ (x \in k.samples /\ j.revision = k.revision) BY <1>3 DEF Succeeds
    <3>3. CASE x.at > k.sequence BY <1>1, <3>1, <3>3
    <3>4. CASE x \in k.samples /\ j.revision = k.revision BY <3>4, <1>3 DEF Succeeds
    <3> QED BY <3>2, <3>3, <3>4
  <2>3. l.sequence <= j.sequence /\ l.minimum <= j.minimum BY <1>1
  <2> QED BY <2>1, <2>2, <2>3 DEF Succeeds
<1> QED BY <1>2, <1>3

\* A page goes on with what goes on for it.
LEMMA PageGoesOn ==
  ASSUME NEW l, NEW k, NEW v, Numbered(l), Numbered(k), RecordsFit(k), Succeeds(l, k), PageFits(l, v)
  PROVE  PageFits(k, v)
<1>1. /\ l.sequence \in Nat /\ k.sequence \in Nat /\ l.minimum \in Nat /\ k.minimum \in Nat
      /\ l.sequence <= k.sequence /\ l.minimum <= k.minimum BY DEF Numbered, Succeeds
<1>2. {"cursor", "revision", "records", "samples"} \subseteq DOMAIN v /\ v.cursor \in Nat /\ v.cursor <= l.sequence
  BY DEF PageFits
<1>3. v.cursor <= k.sequence BY <1>1, <1>2
<1>4. ASSUME v.cursor # 0, k.minimum <= v.cursor
      PROVE  /\ \A s \in LV!Shown(k) : k.records[s] <= v.cursor => v.records[s] = k.records[s] /\ v.revision = k.revision
             /\ \A x \in k.samples : x.at <= v.cursor => x.at \in v.samples /\ v.revision = k.revision
  <2>1. l.minimum <= v.cursor /\ ~(l.sequence < k.minimum) BY <1>1, <1>2, <1>4
  <2>2. ASSUME NEW s \in LV!Shown(k), k.records[s] <= v.cursor
        PROVE  v.records[s] = k.records[s] /\ v.revision = k.revision
    <3>1. s \in Stream /\ k.records[s] \in Nat /\ k.records[s] > 0 BY DEF LV!Shown, RecordsFit
    <3>2. ~(k.records[s] > l.sequence) BY <1>1, <1>2, <2>2, <3>1
    <3>3. k.records[s] = l.records[s] /\ k.revision = l.revision BY <2>1, <3>2 DEF Succeeds
    <3>4. s \in LV!Shown(l) BY <3>1, <3>3 DEF LV!Shown
    <3> QED BY <1>4, <2>1, <2>2, <3>3, <3>4 DEF PageFits
  <2>3. ASSUME NEW x \in k.samples, x.at <= v.cursor
        PROVE  x.at \in v.samples /\ v.revision = k.revision
    <3>1. x.at \in Nat BY DEF Numbered
    <3>2. ~(x.at > l.sequence) BY <1>1, <1>2, <2>3, <3>1
    <3>3. x \in l.samples /\ k.revision = l.revision BY <2>1, <3>2 DEF Succeeds
    <3> QED BY <1>4, <2>1, <2>3, <3>3 DEF PageFits
  <2> QED BY <2>2, <2>3
<1> QED BY <1>2, <1>3, <1>4 DEF PageFits

\* What is sound and wired stays sound, when its connections fit and no worker is new without a session.
LEMMA WiredSound ==
  ASSUME NEW l, NEW k, ViewSound(l), Wired(l, k), ConnectionsFit(k), l.identity = 0 => LV!Workers(k) = {}
  PROVE  ViewSound(k) /\ Succeeds(l, k)
<1>1. Succeeds(l, k) /\ Numbered(k) /\ LeasesFit(k) /\ RecordsFit(k) /\ LV!Shown(k) = LV!Shown(l)
      /\ \A r : Meant(l, r) => Meant(k, r) BY WiredSame DEF ViewSound
<1>2. IdentityFits(k) BY <1>1 DEF Wired, ViewSound, IdentityFits
<1> QED BY <1>1, <1>2 DEF ViewSound, Wired

\* Readings that leases ask for are few, as they are readings.
LEMMA DesiredFinite ==
  ASSUME NEW l, l.leases \in [Lease -> [scope : SUBSET Stream, until : 0 .. MaxClock + LeaseTime]]
  PROVE  LV!Desired(l) \subseteq Stream /\ IsFiniteSet(LV!Desired(l)) /\ Cardinality(LV!Desired(l)) \in Nat
<1>1. LV!Desired(l) \subseteq Stream BY DEF LV!Desired, LV!Held
<1> QED BY <1>1, ViewSizes, FS_Subset, FS_CardinalityType

\* The leases change alone.
LEMMA LeasesChange ==
  ASSUME NEW l, ViewSound(l), NEW a, LeasesFit([l EXCEPT !.leases = a]),
         l.identity # 0 => \A v \in Lease : a[v].scope \subseteq Document[l.identity]
  PROVE  /\ ViewSound([l EXCEPT !.leases = a]) /\ Succeeds(l, [l EXCEPT !.leases = a])
         /\ [l EXCEPT !.leases = a].identity = l.identity /\ [l EXCEPT !.leases = a].leases = a
         /\ LV!Shown([l EXCEPT !.leases = a]) = LV!Shown(l)
         /\ LV!Workers([l EXCEPT !.leases = a]) = LV!Workers(l)
<1>1. PICK k : k = [l EXCEPT !.leases = a] OBVIOUS
<1>2. /\ LiveFields \subseteq DOMAIN k /\ k.leases = a
      /\ k.identity = l.identity /\ k.bound = l.bound /\ k.revision = l.revision
      /\ k.shown = l.shown /\ k.worker = l.worker /\ k.deadline = l.deadline
      /\ k.records = l.records /\ k.samples = l.samples /\ k.sequence = l.sequence /\ k.minimum = l.minimum
  BY <1>1 DEF ViewSound, LiveFields
<1>3. LV!Shown(k) = LV!Shown(l) /\ LV!Workers(k) = LV!Workers(l) BY <1>2 DEF LV!Shown, LV!Workers
<1>4. LeasesFit(k) BY <1>1
<1>5. ConnectionsFit(k) BY <1>2, <1>3 DEF ViewSound, ConnectionsFit
<1>6. RecordsFit(k) BY <1>2 DEF ViewSound, RecordsFit
<1>7. Numbered(k) BY <1>2 DEF ViewSound, Numbered, LiveFields
<1>8. IdentityFits(k) BY <1>2, <1>3 DEF ViewSound, IdentityFits, Meant
<1>9. Succeeds(l, k) BY <1>2 DEF ViewSound, Numbered, Succeeds
<1>10. ViewSound(k) BY <1>2, <1>4, <1>5, <1>6, <1>7, <1>8 DEF ViewSound
<1> QED BY <1>1, <1>2, <1>3, <1>9, <1>10

\* Leases end.
LEMMA ExpiredSound ==
  ASSUME NEW l, ViewSound(l), clock \in 0 .. MaxClock
  PROVE  /\ ViewSound(LV!Expired(l)) /\ Succeeds(l, LV!Expired(l)) /\ LV!Expired(l).identity = l.identity
         /\ LV!Held(LV!Expired(l)) \subseteq LV!Held(l)
<1> DEFINE a == [v \in Lease |-> IF l.leases[v].until > clock THEN l.leases[v] ELSE LV!NoLease]
           k == [l EXCEPT !.leases = a]
<1>1. LV!Expired(l) = k BY DEF LV!Expired
<1>2. k.leases = a BY DEF ViewSound, LiveFields
<1>3. LV!NoLease \in [scope : SUBSET Stream, until : 0 .. MaxClock + LeaseTime] /\ LV!NoLease.scope = {} /\ LV!NoLease.until = 0
  BY ViewSizes DEF LV!NoLease
<1>4. \A v \in Lease : a[v] = l.leases[v] \/ a[v] = LV!NoLease OBVIOUS
<1>5. a \in [Lease -> [scope : SUBSET Stream, until : 0 .. MaxClock + LeaseTime]]
  BY <1>3 DEF ViewSound, LeasesFit
<1>6. /\ \A v \in Lease : a[v] = LV!NoLease \/ a[v].until > 0
      /\ l.identity # 0 => \A v \in Lease : a[v].scope \subseteq Document[l.identity]
  BY <1>3, <1>4 DEF ViewSound, LeasesFit, IdentityFits, Meant
<1> HIDE DEF a, k
<1>7. LV!Held(k) \subseteq LV!Held(l) /\ LV!Desired(k) \subseteq LV!Desired(l)
  <2>1. LV!Held(k) \subseteq LV!Held(l) BY <1>2, <1>3, <1>4 DEF LV!Held
  <2>2. ASSUME NEW x \in LV!Desired(k) PROVE x \in LV!Desired(l)
    <3>1. PICK v \in LV!Held(k) : x \in k.leases[v].scope BY DEF LV!Desired
    <3>2. v \in LV!Held(l) /\ v \in Lease BY <2>1, <3>1 DEF LV!Held
    <3>3. a[v] = l.leases[v] \/ a[v].scope = {} BY <1>3, <1>4, <3>2
    <3>4. x \in l.leases[v].scope BY <1>2, <3>1, <3>3
    <3> QED BY <3>2, <3>4 DEF LV!Desired
  <2> QED BY <2>1, <2>2
<1>8. LeasesFit(k)
  <2>1. IsFiniteSet(LV!Desired(l)) /\ Cardinality(LV!Desired(l)) \in Nat /\ Cardinality(LV!Desired(l)) <= MaxStreams
    BY DesiredFinite DEF ViewSound, LeasesFit
  <2>2. Cardinality(LV!Desired(k)) <= Cardinality(LV!Desired(l)) /\ Cardinality(LV!Desired(k)) \in Nat
    BY <2>1, <1>7, FS_Subset, FS_CardinalityType
  <2>3. Cardinality(LV!Desired(k)) <= MaxStreams BY <2>1, <2>2, ViewSizes
  <2> QED BY <2>3, <1>2, <1>5, <1>6 DEF LeasesFit
<1>9. LeasesFit([l EXCEPT !.leases = a]) BY <1>8 DEF k
<1>10. ViewSound(k) /\ Succeeds(l, k) /\ k.identity = l.identity BY <1>6, <1>9, LeasesChange DEF k
<1> QED BY <1>1, <1>7, <1>10

\* Everything is cleared: no cursor is valid, no worker is left.
LEMMA ClearedSound ==
  ASSUME NEW l, ViewSound(l)
  PROVE  LET k == LV!Cleared(l)
         IN  /\ ViewSound(k) /\ Succeeds(l, k) /\ k.identity = 0 /\ k.leases = l.leases /\ k.revision = l.revision
             /\ LV!Shown(k) = {} /\ LV!Workers(k) = {}
<1>1. PICK m : m = LV!Moved(l) OBVIOUS
<1>2. PICK k : k = LV!Cleared(l) OBVIOUS
<1>3. /\ LiveFields \subseteq DOMAIN m /\ m.leases = l.leases /\ m.revision = l.revision
      /\ m.sequence = l.sequence + 1 /\ m.minimum = l.sequence + 1
  BY <1>1 DEF LV!Moved, ViewSound, LiveFields
<1>4. k = LV!NoWorkers(m) BY <1>1, <1>2 DEF LV!Cleared
<1> DEFINE bound == [b \in Brokers |-> {}]
           shown == [b \in Brokers |-> "none"]
           worker == [b \in Brokers |-> "none"]
           deadline == [b \in Brokers |-> LV!Never]
           records == [s \in Stream |-> 0]
<1>5. /\ LiveFields \subseteq DOMAIN k /\ k.leases = l.leases /\ k.identity = 0 /\ k.revision = l.revision
      /\ k.bound = bound /\ k.shown = shown /\ k.worker = worker /\ k.deadline = deadline /\ k.records = records
      /\ k.samples = {} /\ k.sequence = l.sequence + 1 /\ k.minimum = l.sequence + 1
  <2>1. k = [m EXCEPT !.identity = 0, !.bound = bound, !.shown = shown, !.worker = worker,
                      !.deadline = deadline, !.records = records, !.samples = {}] BY <1>4 DEF LV!NoWorkers
  <2> HIDE DEF bound, shown, worker, deadline, records
  <2> QED BY <2>1, <1>3 DEF LiveFields
<1>6. Numbered(k) BY <1>5 DEF ViewSound, Numbered, LiveFields
<1>7. LeasesFit(k)
  <2>1. LV!Desired(k) = LV!Desired(l) BY <1>5 DEF LV!Desired, LV!Held
  <2> QED BY <2>1, <1>5 DEF ViewSound, LeasesFit
<1>8. LV!Workers(k) = {} /\ LV!Shown(k) = {} BY <1>5 DEF LV!Workers, LV!Shown
<1>9. Cardinality({}) = 0 /\ IsFiniteSet({}) BY FS_EmptySet
<1>10. ConnectionsFit(k)
  <2>1. LV!Never \in 0 .. LV!Never BY ViewSizes DEF LV!Never
  <2>2. Cardinality(LV!Workers(k)) <= MaxConnections BY <1>8, <1>9, ViewSizes
  <2> QED BY <2>1, <2>2, <1>5 DEF ConnectionsFit
<1>11. RecordsFit(k)
  <2>1. l.sequence \in Nat BY DEF ViewSound, Numbered
  <2>2. Cardinality(k.samples) <= MaxSamples /\ IsFiniteSet(k.samples) BY <1>5, <1>9, ViewSizes
  <2> QED BY <2>1, <2>2, <1>5 DEF RecordsFit
<1>12. IdentityFits(k) BY <1>5, <1>8 DEF IdentityFits
<1>13. Succeeds(l, k)
  <2>1. l.sequence \in Nat /\ l.minimum \in Nat /\ l.minimum <= l.sequence BY DEF ViewSound, Numbered
  <2> QED BY <2>1, <1>5 DEF Succeeds
<1>14. ViewSound(k) BY <1>5, <1>6, <1>7, <1>10, <1>11, <1>12 DEF ViewSound
<1> QED BY <1>2, <1>5, <1>8, <1>13, <1>14

\* Everything stops.
LEMMA StoppedSound ==
  ASSUME NEW l, ViewSound(l)
  PROVE  LET k == LV!Stopped(l)
         IN  ViewSound(k) /\ Succeeds(l, k) /\ k.identity = 0 /\ LV!Held(k) = {} /\ LV!Shown(k) = {} /\ LV!Workers(k) = {}
<1>1. PICK c : c = LV!Cleared(l) OBVIOUS
<1>2. ViewSound(c) /\ Succeeds(l, c) /\ c.identity = 0 /\ LV!Shown(c) = {} /\ LV!Workers(c) = {}
  BY <1>1, ClearedSound
<1>3. PICK a : a = [v \in Lease |-> LV!NoLease] OBVIOUS
<1>4. PICK k : k = [c EXCEPT !.leases = a] OBVIOUS
<1>5. LV!Stopped(l) = k BY <1>1, <1>3, <1>4 DEF LV!Stopped
<1>6. k.leases = a BY <1>2, <1>4 DEF ViewSound, LiveFields
<1>7. LV!NoLease \in [scope : SUBSET Stream, until : 0 .. MaxClock + LeaseTime] /\ LV!NoLease.until = 0
  BY ViewSizes DEF LV!NoLease
<1>8. LV!Held(k) = {} /\ LV!Desired(k) = {}
  <2>1. LV!Held(k) = {} BY <1>3, <1>6, <1>7 DEF LV!Held
  <2> QED BY <2>1 DEF LV!Desired
<1>9. LeasesFit(k)
  <2>1. Cardinality(LV!Desired(k)) <= MaxStreams BY <1>8, FS_EmptySet, ViewSizes
  <2> QED BY <2>1, <1>3, <1>6, <1>7 DEF LeasesFit
<1>10. ViewSound(k) /\ Succeeds(c, k) /\ k.identity = 0 /\ LV!Shown(k) = {} /\ LV!Workers(k) = {}
  BY <1>2, <1>4, <1>9, LeasesChange
<1>11. Succeeds(l, k)
  <2>1. LV!Shown(k) \subseteq Stream BY <1>10
  <2> QED BY <2>1, <1>2, <1>10, FollowsOn DEF ViewSound
<1> QED BY <1>5, <1>8, <1>10, <1>11

\* What the brokers have to read of what leases ask for is all of it, when the document holds it.
LEMMA NeededIsAll ==
  ASSUME NEW l, LeasesFit(l), NEW r \in LV!Revisions, Meant(l, r)
  PROVE  /\ LV!Needed(l, r) \in [Brokers -> SUBSET Stream]
         /\ UNION {LV!Needed(l, r)[b] : b \in Brokers} = LV!Desired(l)
<1>1. LV!Desired(l) \subseteq Stream BY DesiredFinite DEF LeasesFit
<1>2. LV!Desired(l) \subseteq Document[r] BY DEF LV!Desired, LV!Held, Meant
<1>3. LV!Needed(l, r) \in [Brokers -> SUBSET Stream] BY <1>1 DEF LV!Needed
<1>4. \A b \in Brokers : LV!Needed(l, r)[b] = {s \in LV!Desired(l) \cap Document[r] : Home[s] = b} BY DEF LV!Needed
<1>5. UNION {LV!Needed(l, r)[b] : b \in Brokers} \subseteq LV!Desired(l) BY <1>4
<1>6. ASSUME NEW s \in LV!Desired(l) PROVE s \in UNION {LV!Needed(l, r)[b] : b \in Brokers}
  <2>1. Home[s] \in Brokers BY <1>1, ViewSizes
  <2>2. s \in LV!Needed(l, r)[Home[s]] BY <1>2, <1>4, <2>1
  <2> QED BY <2>1, <2>2
<1> QED BY <1>3, <1>5, <1>6

\* Records are begun for what is asked for.
LEMMA AddedRecords ==
  ASSUME NEW l, NEW W, W \subseteq Stream, l.sequence \in Nat, l.sequence > 0,
         l.records \in [Stream -> Nat], \A s \in Stream : l.records[s] <= l.sequence /\ (l.records[s] > 0 => s \in W)
  PROVE  LET a == LV!Added(l, W)
         IN  /\ a \in [Stream -> Nat] /\ \A s \in Stream : a[s] <= l.sequence
             /\ \A s \in Stream : a[s] > 0 <=> s \in W
             /\ \A s \in Stream : a[s] = l.records[s] \/ a[s] = l.sequence
<1>1. \A s \in Stream : LV!Added(l, W)[s] = IF s \in W /\ l.records[s] = 0 THEN l.sequence ELSE l.records[s]
  BY DEF LV!Added
<1>2. LV!Added(l, W) \in [Stream -> Nat] BY DEF LV!Added
<1>3. \A s \in Stream : l.records[s] \in Nat OBVIOUS
<1> QED BY <1>1, <1>2, <1>3

\* A session is brought to what its leases ask for; what is shown is that, and no old cursor stays valid.
LEMMA ScopedSound ==
  ASSUME NEW l, ViewSound(l), l.identity # 0, clock \in 0 .. MaxClock, NEW outcome, NEW refuses
  PROVE  LET k == LV!Scoped(l, l.identity, outcome, refuses)
         IN  /\ ViewSound(k) /\ Succeeds(l, k) /\ k.identity = l.identity /\ k.leases = l.leases
             /\ LV!Desired(k) \subseteq LV!Shown(k)
<1>1. CASE LV!Desired(l) = LV!Shown(l)
  <2>1. LV!Scoped(l, l.identity, outcome, refuses) = l BY <1>1 DEF LV!Scoped
  <2>2. Succeeds(l, l) BY DEF Succeeds, ViewSound, Numbered
  <2> QED BY <1>1, <2>1, <2>2
<1>2. CASE LV!Desired(l) # LV!Shown(l)
  <2>1. PICK revision \in LV!Revisions : revision = l.identity BY DEF ViewSound, IdentityFits
  <2> DEFINE num == LV!Needed(l, revision)
             wanted == UNION {num[b] : b \in Brokers}
             gone == {b \in Brokers : l.shown[b] # "none" /\ ~ LV!Kept(l, num, b)}
             records == [s \in Stream |-> IF s \in wanted THEN l.records[s] ELSE 0]
             samples == {x \in l.samples : x.stream \in wanted}
  <2> DEFINE dd == LV!Dropped(l, gone)
             mm == LV!Moved(dd)
             kk == [mm EXCEPT !.bound = num,
                       !.records = [s \in Stream |-> IF s \in wanted THEN @[s] ELSE 0],
                       !.samples = samples]
             rr == [kk EXCEPT !.records = LV!Added(kk, wanted)]
             idle == {b \in Brokers : num[b] # {} /\ kk.shown[b] = "none"}
             aa == LV!Connect(rr, idle, outcome)
             told == {b \in LV!Workers(l) : num[b] # {} /\ l.bound[b] # num[b]}
             lost == {b \in told \cap LV!Workers(mm) : aa.worker[b] # "off" /\ b \in refuses}
             ff == LV!Dropped(aa, lost)
             jj == LV!Connect(ff, lost, outcome)
  <2>2. LV!Scoped(l, revision, outcome, refuses) = jj BY <1>2 DEF LV!Scoped
  <2>3. PICK due : due = dd OBVIOUS
  <2>4. PICK m : m = mm OBVIOUS
  <2>5. PICK k : k = kk OBVIOUS
  <2>6. PICK r : r = rr OBVIOUS
  <2>7. PICK a : a = aa OBVIOUS
  <2>8. PICK f : f = ff OBVIOUS
  <2>9. PICK j : j = jj OBVIOUS
  <2>a. /\ due = LV!Dropped(l, gone) /\ m = LV!Moved(due)
        /\ k = [m EXCEPT !.bound = num,
                    !.records = [s \in Stream |-> IF s \in wanted THEN @[s] ELSE 0],
                    !.samples = samples]
    <3> HIDE DEF num, wanted, gone, samples
    <3> QED BY <2>3, <2>4, <2>5
  <2>b. r = [k EXCEPT !.records = LV!Added(k, wanted)]
    <3> HIDE DEF num, wanted, gone, samples, kk
    <3> QED BY <2>5, <2>6
  <2>c. a = LV!Connect(r, idle, outcome) /\ f = LV!Dropped(a, lost) /\ j = LV!Connect(f, lost, outcome)
    <3> HIDE DEF num, wanted, gone, samples, kk, rr, idle, lost
    <3> QED BY <2>6, <2>7, <2>8, <2>9
  <2>d. \A b \in idle : k.shown[b] = "none"
    <3> HIDE DEF kk
    <3> QED BY <2>5
  <2>10. num \in [Brokers -> SUBSET Stream] /\ wanted = LV!Desired(l)
    BY <2>1, NeededIsAll DEF ViewSound, IdentityFits
  <2>11. wanted \subseteq Stream BY <2>10, DesiredFinite DEF ViewSound, LeasesFit
  <2>12. gone \subseteq Brokers /\ idle \subseteq Brokers /\ lost \subseteq Brokers
    <3> HIDE DEF kk, aa, mm
    <3> QED BY DEF LV!Workers
  <2>14. /\ records \in [Stream -> Nat]
         /\ \A s \in Stream : records[s] <= l.sequence /\ (records[s] > 0 => s \in wanted)
    BY DEF ViewSound, RecordsFit, Numbered
  <2>15. samples \subseteq l.samples OBVIOUS
  <2> HIDE DEF num, wanted, gone, samples, dd, mm, kk, rr, idle, aa, told, lost, ff, jj
  <2>16. Wired(l, due) /\ ConnectionsFit(due) BY <2>a, DropFits DEF ViewSound
  <2>17. /\ LiveFields \subseteq DOMAIN m /\ m.sequence = l.sequence + 1 /\ m.minimum = l.sequence + 1
         /\ m.identity = l.identity /\ m.leases = l.leases /\ m.revision = l.revision /\ m.records = l.records
         /\ m.shown = due.shown /\ m.worker = due.worker /\ m.deadline = due.deadline
    BY <2>a, <2>16 DEF LV!Moved, Wired, LiveFields
  <2>18. k = [m EXCEPT !.bound = num, !.records = records, !.samples = samples] BY <2>a, <2>17 DEF LiveFields
  <2> HIDE DEF records
  <2>19. /\ LiveFields \subseteq DOMAIN k /\ k.sequence = l.sequence + 1 /\ k.minimum = l.sequence + 1
         /\ k.identity = l.identity /\ k.leases = l.leases /\ k.revision = l.revision /\ k.records = records
         /\ k.shown = due.shown /\ k.worker = due.worker /\ k.deadline = due.deadline /\ k.bound = num /\ k.samples = samples
    BY <2>17, <2>18 DEF LiveFields
  <2>20. l.sequence \in Nat /\ l.minimum \in Nat /\ l.minimum <= l.sequence BY DEF ViewSound, Numbered
  <2>21. PICK added : added = LV!Added(k, wanted) OBVIOUS
  <2>22. /\ added \in [Stream -> Nat] /\ \A s \in Stream : added[s] <= l.sequence + 1
         /\ \A s \in Stream : added[s] > 0 <=> s \in wanted
    <3>1. k.sequence \in Nat /\ k.sequence > 0 /\ k.records \in [Stream -> Nat] BY <2>14, <2>19, <2>20
    <3>2. \A s \in Stream : k.records[s] <= k.sequence /\ (k.records[s] > 0 => s \in wanted)
      BY <2>14, <2>19, <2>20
    <3> QED BY <2>11, <2>19, <2>21, <3>1, <3>2, AddedRecords
  <2>23. /\ LiveFields \subseteq DOMAIN r /\ r.sequence = l.sequence + 1 /\ r.minimum = l.sequence + 1
         /\ r.identity = l.identity /\ r.leases = l.leases /\ r.revision = l.revision /\ r.records = added
         /\ r.shown = due.shown /\ r.worker = due.worker /\ r.deadline = due.deadline /\ r.bound = num /\ r.samples = samples
    <3>1. r = [k EXCEPT !.records = added] BY <2>b, <2>21
    <3> QED BY <2>19, <3>1 DEF LiveFields
  <2>24. ConnectionsFit(r)
    <3>1. LV!Workers(r) = LV!Workers(due) BY <2>23 DEF LV!Workers
    <3> QED BY <2>10, <2>16, <2>23, <3>1 DEF ConnectionsFit
  <2>25. RecordsFit(r)
    <3>1. IsFiniteSet(samples) /\ Cardinality(samples) <= Cardinality(l.samples)
          /\ Cardinality(l.samples) \in Nat /\ Cardinality(samples) \in Nat /\ Cardinality(l.samples) <= MaxSamples
      BY <2>15, FS_Subset, FS_CardinalityType DEF ViewSound, RecordsFit
    <3>2. Cardinality(samples) <= MaxSamples BY <3>1, ViewSizes
    <3>3. \A x \in samples : x.at > 0 BY <2>15 DEF ViewSound, RecordsFit
    <3> QED BY <2>22, <2>23, <3>1, <3>2, <3>3 DEF RecordsFit
  <2>26. Numbered(r)
    <3>1. \A x \in samples : x.at \in Nat /\ x.at <= l.sequence + 1 BY <2>15, <2>20 DEF ViewSound, Numbered
    <3> QED BY <2>20, <2>23, <3>1 DEF Numbered, LiveFields
  <2>27. LV!Desired(r) = wanted /\ LV!Shown(r) = wanted
    <3>1. LV!Desired(r) = LV!Desired(l) BY <2>23 DEF LV!Desired, LV!Held
    <3>2. LV!Shown(r) = wanted BY <2>11, <2>22, <2>23 DEF LV!Shown
    <3> QED BY <2>10, <3>1, <3>2
  <2>28. LeasesFit(r) BY <2>10, <2>23, <2>27 DEF ViewSound, LeasesFit
  <2>29. IdentityFits(r) BY <2>1, <2>23 DEF ViewSound, IdentityFits, Meant
  <2>30. ViewSound(r) /\ r.identity # 0 BY <2>23, <2>24, <2>25, <2>26, <2>28, <2>29 DEF ViewSound
  <2>31. \A b \in idle : r.worker[b] = "none"
    <3> SUFFICES ASSUME NEW b \in idle PROVE r.worker[b] = "none" OBVIOUS
    <3>1. due.shown[b] = "none" /\ b \in Brokers BY <2>12, <2>d, <2>19
    <3> QED BY <2>16, <2>23, <3>1 DEF ConnectionsFit
  <2>32. Wired(r, a) /\ ConnectionsFit(a) BY <2>c, <2>12, <2>30, <2>31, ConnectFits DEF ViewSound
  <2>33. ViewSound(a) /\ a.identity = r.identity BY <2>30, <2>32, WiredSound DEF Wired
  <2>34. Wired(a, f) /\ ConnectionsFit(f) /\ \A b \in Brokers : b \in lost => f.worker[b] = "none"
    BY <2>c, <2>33, DropFits DEF ViewSound
  <2>35. ViewSound(f) /\ f.identity = r.identity BY <2>30, <2>33, <2>34, WiredSound DEF Wired
  <2>36. Wired(f, j) /\ ConnectionsFit(j) BY <2>c, <2>12, <2>34, <2>35, ConnectFits DEF ViewSound
  <2>37. ViewSound(j) BY <2>30, <2>35, <2>36, WiredSound
  <2>38. Wired(r, j) BY <2>32, <2>34, <2>36 DEF Wired
  <2>39. LV!Desired(j) \subseteq LV!Shown(j) BY <2>27, <2>38, WiredSame
  <2>40. Succeeds(l, j)
    <3>1. j.sequence = l.sequence + 1 /\ j.minimum = l.sequence + 1 BY <2>23, <2>38 DEF Wired
    <3> QED BY <2>20, <3>1 DEF Succeeds
  <2> QED BY <2>1, <2>2, <2>9, <2>23, <2>37, <2>38, <2>39, <2>40 DEF Wired
<1> QED BY <1>1, <1>2

\* What every operation does before its own: what it leaves is settled, and of this revision or nothing.
LEMMA ReconciledSound ==
  ASSUME NEW l, ViewSound(l), SessionFits(l), clock \in 0 .. MaxClock, NEW revision \in LV!Revisions, NEW outcome, NEW refuses
  PROVE  LET k == LV!Reconciled(l, revision, outcome, refuses)
         IN  /\ ViewSound(k) /\ SessionFits(k) /\ Succeeds(l, k) /\ (k.identity # 0 => k.identity = revision)
             /\ k.revision = revision
<1>1. PICK e : e = LV!Expired(l) OBVIOUS
<1>2. PICK s : s = IF e.identity = 0 THEN e
                   ELSE IF LV!Held(e) = {} \/ revision # e.identity THEN LV!Stopped(e)
                   ELSE LV!Scoped(e, revision, outcome, refuses) OBVIOUS
<1>3. PICK r : r = [s EXCEPT !.revision = revision] OBVIOUS
<1>4. PICK k : k = LV!Retired(r) OBVIOUS
<1>5. LV!Reconciled(l, revision, outcome, refuses) = k BY <1>1, <1>2, <1>3, <1>4 DEF LV!Reconciled
<1>6. ViewSound(e) /\ Succeeds(l, e) /\ e.identity = l.identity /\ LV!Held(e) \subseteq LV!Held(l)
  BY <1>1, ExpiredSound
<1>7. ViewSound(s) /\ Succeeds(e, s) /\ SessionFits(s) /\ (s.identity # 0 => s.identity = revision)
  <2>1. CASE e.identity = 0
    <3>1. s = e /\ LV!Held(s) = {} BY <1>2, <1>6, <2>1 DEF SessionFits
    <3>2. Succeeds(e, e) BY <1>6 DEF Succeeds, ViewSound, Numbered
    <3> QED BY <1>6, <2>1, <3>1, <3>2 DEF SessionFits
  <2>2. CASE e.identity # 0 /\ (LV!Held(e) = {} \/ revision # e.identity)
    <3>1. s = LV!Stopped(e) BY <1>2, <2>2
    <3>2. ViewSound(s) /\ Succeeds(e, s) /\ s.identity = 0 /\ LV!Held(s) = {} BY <1>6, <3>1, StoppedSound
    <3> QED BY <3>2 DEF SessionFits
  <2>3. CASE e.identity # 0 /\ LV!Held(e) # {} /\ revision = e.identity
    <3>1. s = LV!Scoped(e, e.identity, outcome, refuses) BY <1>2, <2>3
    <3>2. /\ ViewSound(s) /\ Succeeds(e, s) /\ s.identity = e.identity /\ s.leases = e.leases
          /\ LV!Desired(s) \subseteq LV!Shown(s) BY <1>6, <2>3, <3>1, ScopedSound
    <3>3. LV!Held(s) = LV!Held(e) BY <3>2 DEF LV!Held
    <3> QED BY <2>3, <3>2, <3>3 DEF SessionFits
  <2> QED BY <2>1, <2>2, <2>3
<1>8. /\ LiveFields \subseteq DOMAIN r /\ r.revision = revision
      /\ r.identity = s.identity /\ r.bound = s.bound /\ r.leases = s.leases
      /\ r.shown = s.shown /\ r.worker = s.worker /\ r.deadline = s.deadline
      /\ r.records = s.records /\ r.samples = s.samples /\ r.sequence = s.sequence /\ r.minimum = s.minimum
  BY <1>3, <1>7 DEF ViewSound, LiveFields
<1>9. LV!Held(r) = LV!Held(s) /\ LV!Desired(r) = LV!Desired(s) /\ LV!Shown(r) = LV!Shown(s) /\ LV!Workers(r) = LV!Workers(s)
  BY <1>8 DEF LV!Held, LV!Desired, LV!Shown, LV!Workers
<1>10. ViewSound(r) /\ SessionFits(r)
  <2>1. LeasesFit(r) BY <1>7, <1>8, <1>9 DEF ViewSound, LeasesFit
  <2>2. ConnectionsFit(r) BY <1>7, <1>8, <1>9 DEF ViewSound, ConnectionsFit
  <2>3. RecordsFit(r) BY <1>7, <1>8 DEF ViewSound, RecordsFit
  <2>4. Numbered(r) BY <1>7, <1>8 DEF ViewSound, Numbered, LiveFields
  <2>5. IdentityFits(r) BY <1>7, <1>8, <1>9 DEF ViewSound, IdentityFits, Meant
  <2>6. SessionFits(r) BY <1>7, <1>8, <1>9 DEF SessionFits
  <2> QED BY <1>8, <2>1, <2>2, <2>3, <2>4, <2>5, <2>6 DEF ViewSound
<1>11. Succeeds(s, r)
  <2>1. s.sequence \in Nat /\ s.minimum \in Nat BY <1>7 DEF ViewSound, Numbered
  <2>2. CASE s.identity = 0
    <3>1. LV!Shown(r) = {} /\ r.samples = {} BY <1>7, <1>8, <1>9, <2>2 DEF ViewSound, IdentityFits
    <3> QED BY <1>8, <2>1, <3>1 DEF Succeeds
  <2>3. CASE s.identity # 0
    <3>1. r.revision = s.revision BY <1>7, <1>8, <2>3 DEF ViewSound, IdentityFits
    <3> QED BY <1>8, <2>1, <3>1 DEF Succeeds
  <2> QED BY <2>2, <2>3
<1>12. Wired(r, k) /\ ConnectionsFit(k) /\ LV!Workers(k) \subseteq LV!Workers(r)
  BY <1>4, <1>10, RetireFits DEF ViewSound
<1>13. r.identity = 0 => LV!Workers(k) = {} BY <1>10, <1>12 DEF ViewSound, IdentityFits
<1>14. ViewSound(k) /\ Succeeds(r, k) BY <1>10, <1>12, <1>13, WiredSound
<1>15. SessionFits(k)
  <2>1. LV!Held(k) = LV!Held(r) /\ LV!Desired(k) = LV!Desired(r) /\ LV!Shown(k) = LV!Shown(r) BY <1>12, WiredSame
  <2> QED BY <1>10, <1>12, <2>1 DEF Wired, SessionFits
<1>16. Succeeds(l, k)
  <2>1. \A x : LV!Shown(x) \subseteq Stream BY DEF LV!Shown
  <2>2. Succeeds(l, s) BY <1>6, <1>7, <2>1, FollowsOn DEF ViewSound
  <2>3. Succeeds(l, r) BY <1>7, <1>10, <1>11, <2>1, <2>2, FollowsOn DEF ViewSound
  <2> QED BY <1>10, <1>14, <2>1, <2>3, FollowsOn DEF ViewSound
<1> QED BY <1>5, <1>7, <1>8, <1>12, <1>14, <1>15, <1>16 DEF Wired

\* Any state follows itself.
LEMMA FollowsItself ==
  ASSUME NEW l, ViewSound(l)
  PROVE  Succeeds(l, l)
BY DEF Succeeds, ViewSound, Numbered

\* One thing that goes on after another, soundly.
LEMMA SoundFollows ==
  ASSUME NEW l, NEW k, NEW j, ViewSound(l), ViewSound(k), ViewSound(j), Succeeds(l, k), Succeeds(k, j)
  PROVE  Succeeds(l, j)
<1>1. LV!Shown(j) \subseteq Stream BY DEF LV!Shown
<1> QED BY <1>1, FollowsOn DEF ViewSound

\* A session begins for the leases there are.
LEMMA InitializedSound ==
  ASSUME NEW l, ViewSound(l), l.identity = 0, clock \in 0 .. MaxClock, NEW revision \in LV!Revisions,
         Meant(l, revision), NEW outcome
  PROVE  LET k == LV!Initialized(l, revision, outcome)
         IN  /\ ViewSound(k) /\ Succeeds(l, k) /\ k.identity = revision /\ k.leases = l.leases
             /\ LV!Desired(k) \subseteq LV!Shown(k)
<1> DEFINE num == LV!Needed(l, revision)
           wanted == UNION {num[b] : b \in Brokers}
           mm == [l EXCEPT !.identity = revision, !.revision = revision, !.sequence = @ + 1, !.bound = num]
           rr == [mm EXCEPT !.records = LV!Added(mm, wanted)]
           bs == {b \in Brokers : num[b] # {}}
           jj == LV!Connect(rr, bs, outcome)
<1>1. LV!Initialized(l, revision, outcome) = jj BY DEF LV!Initialized
<1>2. PICK m : m = mm OBVIOUS
<1>3. PICK r : r = rr OBVIOUS
<1>4. PICK j : j = jj OBVIOUS
<1>5. r = [m EXCEPT !.records = LV!Added(m, wanted)]
  <2> HIDE DEF num, wanted, mm
  <2> QED BY <1>2, <1>3
<1>6. j = LV!Connect(r, bs, outcome)
  <2> HIDE DEF num, wanted, mm, rr, bs
  <2> QED BY <1>3, <1>4
<1>7. num \in [Brokers -> SUBSET Stream] /\ wanted = LV!Desired(l) /\ wanted \subseteq Stream
  BY NeededIsAll, DesiredFinite DEF ViewSound, LeasesFit
<1>8. bs \subseteq Brokers OBVIOUS
<1> HIDE DEF num, wanted, rr, bs, jj
<1>9. /\ LiveFields \subseteq DOMAIN m /\ m.sequence = l.sequence + 1 /\ m.minimum = l.minimum
      /\ m.identity = revision /\ m.leases = l.leases /\ m.revision = revision /\ m.records = l.records
      /\ m.shown = l.shown /\ m.worker = l.worker /\ m.deadline = l.deadline /\ m.bound = num /\ m.samples = l.samples
  BY <1>2 DEF ViewSound, LiveFields
<1> HIDE DEF mm
<1>10. LV!Shown(l) = {} /\ LV!Workers(l) = {} /\ l.samples = {} BY DEF ViewSound, IdentityFits
<1>11. l.sequence \in Nat /\ l.minimum \in Nat /\ l.minimum <= l.sequence BY DEF ViewSound, Numbered
<1>12. PICK added : added = LV!Added(m, wanted) OBVIOUS
<1>13. l.records \in [Stream -> Nat] /\ \A s \in Stream : l.records[s] = 0
  BY <1>10 DEF ViewSound, RecordsFit, LV!Shown
<1>14. /\ added \in [Stream -> Nat] /\ \A s \in Stream : added[s] <= l.sequence + 1
       /\ \A s \in Stream : added[s] > 0 <=> s \in wanted
       /\ \A s \in Stream : added[s] = 0 \/ added[s] = l.sequence + 1
  <2>1. m.sequence \in Nat /\ m.sequence > 0 /\ m.records \in [Stream -> Nat] BY <1>9, <1>11, <1>13
  <2>2. \A s \in Stream : m.records[s] <= m.sequence /\ (m.records[s] > 0 => s \in wanted)
    BY <1>9, <1>11, <1>13
  <2>3. /\ added \in [Stream -> Nat] /\ \A s \in Stream : added[s] <= m.sequence
        /\ \A s \in Stream : added[s] > 0 <=> s \in wanted
        /\ \A s \in Stream : added[s] = m.records[s] \/ added[s] = m.sequence
    BY <1>7, <1>12, <2>1, <2>2, AddedRecords
  <2> QED BY <1>9, <1>13, <2>3
<1>15. /\ LiveFields \subseteq DOMAIN r /\ r.sequence = l.sequence + 1 /\ r.minimum = l.minimum
       /\ r.identity = revision /\ r.leases = l.leases /\ r.revision = revision /\ r.records = added
       /\ r.shown = l.shown /\ r.worker = l.worker /\ r.deadline = l.deadline /\ r.bound = num /\ r.samples = {}
  <2>1. r = [m EXCEPT !.records = added] BY <1>5, <1>12
  <2> QED BY <1>9, <1>10, <2>1 DEF LiveFields
<1>16. LV!Workers(r) = {} /\ \A b \in bs : r.worker[b] = "none" BY <1>8, <1>10, <1>15 DEF LV!Workers
<1>17. ConnectionsFit(r)
  <2>1. LV!Workers(r) = LV!Workers(l) BY <1>10, <1>16
  <2> QED BY <1>7, <1>15, <2>1 DEF ViewSound, ConnectionsFit
<1>18. RecordsFit(r)
  <2>1. IsFiniteSet({}) /\ Cardinality({}) <= MaxSamples BY FS_EmptySet, ViewSizes
  <2> QED BY <1>14, <1>15, <2>1 DEF RecordsFit
<1>19. Numbered(r) BY <1>11, <1>15 DEF Numbered, LiveFields
<1>20. LV!Desired(r) = wanted /\ LV!Shown(r) = wanted
  <2>1. LV!Desired(r) = LV!Desired(l) BY <1>15 DEF LV!Desired, LV!Held
  <2>2. LV!Shown(r) = wanted BY <1>7, <1>14, <1>15 DEF LV!Shown
  <2> QED BY <1>7, <2>1, <2>2
<1>21. LeasesFit(r) BY <1>7, <1>15, <1>20 DEF ViewSound, LeasesFit
<1>22. IdentityFits(r)
  <2>1. revision # 0 BY ViewSizes
  <2> QED BY <2>1, <1>15 DEF IdentityFits, Meant
<1>23. ViewSound(r) /\ r.identity # 0 BY <1>15, <1>17, <1>18, <1>19, <1>21, <1>22, ViewSizes DEF ViewSound
<1>24. Wired(r, j) /\ ConnectionsFit(j) BY <1>6, <1>8, <1>16, <1>23, ConnectFits DEF ViewSound
<1>25. ViewSound(j) BY <1>23, <1>24, WiredSound
<1>26. LV!Desired(j) \subseteq LV!Shown(j) /\ LV!Shown(j) = wanted BY <1>20, <1>24, WiredSame
<1>27. Succeeds(l, j)
  <2>1. j.sequence = l.sequence + 1 /\ j.minimum = l.minimum /\ j.samples = {} /\ j.records = added
    BY <1>15, <1>24 DEF Wired
  <2>2. \A s \in LV!Shown(j) : j.records[s] > l.sequence
    <3> SUFFICES ASSUME NEW s \in LV!Shown(j) PROVE j.records[s] > l.sequence OBVIOUS
    <3>1. s \in Stream /\ added[s] > 0 BY <1>7, <1>14, <1>26
    <3>2. added[s] = l.sequence + 1 BY <3>1, <1>14
    <3> QED BY <2>1, <3>2, <1>11
  <2> QED BY <1>11, <2>1, <2>2 DEF Succeeds
<1> QED BY <1>1, <1>4, <1>15, <1>24, <1>25, <1>26, <1>27 DEF Wired

\* Old samples go.
LEMMA PrunedSound ==
  ASSUME NEW l, ViewSound(l)
  PROVE  LET k == LV!Pruned(l)
         IN  /\ ViewSound(k) /\ Succeeds(l, k) /\ (SessionFits(l) => SessionFits(k))
             /\ k.identity = l.identity /\ k.revision = l.revision /\ k.sequence = l.sequence
<1> DEFINE old == {x \in l.samples : \A y \in l.samples : y.at <= x.at => y.second < clock - History}
           max == LV!Max({l.minimum} \cup {x.at : x \in old})
           kept == l.samples \ old
<1>1. PICK k : k = LV!Pruned(l) OBVIOUS
<1>2. k = [l EXCEPT !.samples = kept, !.minimum = max] BY <1>1 DEF LV!Pruned
<1>3. Covers(l, k) BY <1>1, PrunedCovers DEF ViewSound
<1>4. kept \subseteq l.samples OBVIOUS
<1> HIDE DEF old, max, kept
<1>5. /\ LiveFields \subseteq DOMAIN k /\ k.sequence = l.sequence
      /\ k.identity = l.identity /\ k.leases = l.leases /\ k.revision = l.revision /\ k.records = l.records
      /\ k.shown = l.shown /\ k.worker = l.worker /\ k.deadline = l.deadline /\ k.bound = l.bound /\ k.samples = kept
  BY <1>2 DEF ViewSound, LiveFields
<1>6. Numbered(k) /\ l.minimum <= k.minimum BY <1>3 DEF Covers
<1>7. LV!Held(k) = LV!Held(l) /\ LV!Desired(k) = LV!Desired(l) /\ LV!Shown(k) = LV!Shown(l) /\ LV!Workers(k) = LV!Workers(l)
  BY <1>5 DEF LV!Held, LV!Desired, LV!Shown, LV!Workers
<1>8. LeasesFit(k) BY <1>5, <1>7 DEF ViewSound, LeasesFit
<1>9. ConnectionsFit(k) BY <1>5, <1>7 DEF ViewSound, ConnectionsFit
<1>10. RecordsFit(k)
  <2>1. IsFiniteSet(kept) /\ Cardinality(kept) <= Cardinality(l.samples)
        /\ Cardinality(l.samples) \in Nat /\ Cardinality(kept) \in Nat /\ Cardinality(l.samples) <= MaxSamples
    BY <1>4, FS_Subset, FS_CardinalityType DEF ViewSound, RecordsFit
  <2>2. Cardinality(kept) <= MaxSamples BY <2>1, ViewSizes
  <2> QED BY <1>4, <1>5, <2>1, <2>2 DEF ViewSound, RecordsFit
<1>11. IdentityFits(k)
  <2>1. l.identity = 0 => k.samples = {} BY <1>4, <1>5 DEF ViewSound, IdentityFits
  <2> QED BY <1>5, <1>7, <2>1 DEF ViewSound, IdentityFits, Meant
<1>12. Succeeds(l, k)
  <2>1. l.sequence \in Nat /\ l.sequence <= k.sequence BY <1>5 DEF ViewSound, Numbered
  <2> QED BY <1>4, <1>5, <1>6, <2>1 DEF Succeeds
<1>13. SessionFits(l) => SessionFits(k) BY <1>5, <1>7 DEF SessionFits
<1> QED BY <1>1, <1>5, <1>6, <1>8, <1>9, <1>10, <1>11, <1>12, <1>13 DEF ViewSound

\* Rates that changed are new to every page.
LEMMA RatedSound ==
  ASSUME NEW l, ViewSound(l), NEW changed, changed \subseteq LV!Shown(l)
  PROVE  LET k == LV!Rated(l, changed)
         IN  ViewSound(k) /\ Succeeds(l, k) /\ (SessionFits(l) => SessionFits(k)) /\ k.revision = l.revision
<1> DEFINE place == CHOOSE p \in [changed -> 1 .. LV!Cardinality(changed)] : LV!IsInjective(p)
           records == [s \in Stream |-> IF s \in changed THEN l.sequence + place[s] ELSE l.records[s]]
           sequence == l.sequence + LV!Cardinality(changed)
<1>1. PICK k : k = LV!Rated(l, changed) OBVIOUS
<1>2. k = [l EXCEPT !.sequence = sequence, !.records = records] BY <1>1 DEF LV!Rated
<1>3. IsFiniteSet(changed) BY ShownFinite
<1>4. PICK num \in Nat : num = Cardinality(changed) /\ num = LV!Cardinality(changed)
  BY <1>3, FS_CardinalityType, CountedAlike
<1>5. \E p \in [changed -> 1 .. num] : LV!IsInjective(p)
  <2>1. ExistsBijection(1 .. num, changed) BY <1>3, <1>4, FS_CardinalityType
  <2>2. PICK f : f \in Bijection(1 .. num, changed) BY <2>1 DEF ExistsBijection
  <2>3. f \in [1 .. num -> changed] /\ \A s \in changed : \E i \in 1 .. num : f[i] = s
    BY <2>2 DEF Bijection, Surjection
  <2> DEFINE p == [s \in changed |-> CHOOSE i \in 1 .. num : f[i] = s]
  <2>4. \A s \in changed : p[s] \in 1 .. num /\ f[p[s]] = s BY <2>3
  <2>5. DOMAIN p = changed /\ p = [s \in changed |-> p[s]] OBVIOUS
  <2> HIDE DEF p
  <2>6. p \in [changed -> 1 .. num] BY <2>4, <2>5
  <2>7. LV!IsInjective(p) BY <2>4, <2>5 DEF LV!IsInjective
  <2> QED BY <2>6, <2>7
<1>6. place \in [changed -> 1 .. num] BY <1>4, <1>5
<1>7. l.sequence \in Nat /\ sequence = l.sequence + num BY <1>4 DEF ViewSound, Numbered
<1> HIDE DEF place
<1>8. \A s \in changed : place[s] \in 1 .. num BY <1>6
<1>9. /\ records \in [Stream -> Nat]
      /\ \A s \in Stream : /\ records[s] <= sequence
                           /\ records[s] > l.sequence \/ records[s] = l.records[s]
                           /\ records[s] > 0 <=> l.records[s] > 0
  <2>1. ASSUME NEW s \in Stream
        PROVE  /\ records[s] \in Nat /\ records[s] <= sequence
               /\ records[s] > l.sequence \/ records[s] = l.records[s]
               /\ records[s] > 0 <=> l.records[s] > 0
    <3>1. l.records[s] \in Nat /\ l.records[s] <= l.sequence BY DEF ViewSound, RecordsFit
    <3>2. CASE s \in changed
      <4>1. records[s] = l.sequence + place[s] /\ place[s] \in 1 .. num /\ l.records[s] > 0
        BY <3>2, <1>8 DEF LV!Shown
      <4> HIDE DEF records, sequence
      <4> QED BY <4>1, <1>7, <3>1
    <3>3. CASE s \notin changed
      <4>1. records[s] = l.records[s] BY <3>3
      <4> HIDE DEF records, sequence
      <4> QED BY <4>1, <1>7, <3>1
    <3> QED BY <3>2, <3>3
  <2>2. DOMAIN records = Stream /\ records = [s \in Stream |-> records[s]] OBVIOUS
  <2> HIDE DEF records, sequence
  <2> QED BY <2>1, <2>2
<1> HIDE DEF records, sequence
<1>10. /\ LiveFields \subseteq DOMAIN k /\ k.sequence = sequence /\ k.minimum = l.minimum
       /\ k.identity = l.identity /\ k.leases = l.leases /\ k.revision = l.revision /\ k.records = records
       /\ k.shown = l.shown /\ k.worker = l.worker /\ k.deadline = l.deadline /\ k.bound = l.bound /\ k.samples = l.samples
  BY <1>2 DEF ViewSound, LiveFields
<1>11. LV!Shown(k) = LV!Shown(l) BY <1>9, <1>10 DEF LV!Shown
<1>12. LV!Held(k) = LV!Held(l) /\ LV!Desired(k) = LV!Desired(l) /\ LV!Workers(k) = LV!Workers(l)
  BY <1>10 DEF LV!Held, LV!Desired, LV!Workers
<1>13. LeasesFit(k) BY <1>10, <1>12 DEF ViewSound, LeasesFit
<1>14. ConnectionsFit(k) BY <1>10, <1>12 DEF ViewSound, ConnectionsFit
<1>15. RecordsFit(k) BY <1>9, <1>10 DEF ViewSound, RecordsFit
<1>16. IdentityFits(k) BY <1>10, <1>11, <1>12 DEF ViewSound, IdentityFits, Meant
<1>17. l.minimum \in Nat /\ l.minimum <= l.sequence /\ sequence \in Nat /\ l.sequence <= sequence
  BY <1>7 DEF ViewSound, Numbered
<1>18. Numbered(k)
  <2>1. \A x \in l.samples : x.at \in Nat /\ x.at <= sequence BY <1>7, <1>17 DEF ViewSound, Numbered
  <2> QED BY <1>7, <1>10, <1>17, <2>1 DEF Numbered, LiveFields
<1>19. Succeeds(l, k)
  <2>1. \A s \in LV!Shown(k) : k.records[s] > l.sequence \/ (k.records[s] = l.records[s] /\ k.revision = l.revision)
    BY <1>9, <1>10 DEF LV!Shown
  <2>2. \A x \in k.samples : x \in l.samples /\ k.revision = l.revision BY <1>10
  <2>3. l.sequence <= k.sequence /\ l.minimum <= k.minimum BY <1>10, <1>17
  <2> QED BY <2>1, <2>2, <2>3 DEF Succeeds
<1>20. SessionFits(l) => SessionFits(k) BY <1>10, <1>11, <1>12 DEF SessionFits
<1> QED BY <1>1, <1>10, <1>13, <1>14, <1>15, <1>16, <1>18, <1>19, <1>20 DEF ViewSound

\* A page that is answered has all there is.
LEMMA AnswerCompletes ==
  ASSUME NEW l, ViewSound(l), PageFits(l, view), NEW cursor, cursor = 0 \/ cursor = view.cursor, LV!Answer(l, cursor)
  PROVE  live' = l /\ PageFits(l, view')
<1> DEFINE old == IF l.revision # view.revision
                  THEN [view EXCEPT !.records = [s \in Stream |-> 0], !.samples = {}] ELSE view
           g == LV!Given(l, cursor)
           records == [s \in Stream |-> IF s \in g.records THEN l.records[s] ELSE old.records[s]]
           samples == (old.samples \cup g.samples) \cap LV!Sequences(l)
<1>1. live' = l /\ view' = [cursor |-> l.sequence, revision |-> l.revision, records |-> records, samples |-> samples]
  BY DEF LV!Answer
<1>2. l.sequence \in Nat /\ l.minimum \in Nat /\ l.minimum <= l.sequence BY DEF ViewSound, Numbered
<1>3. view.cursor \in Nat /\ view.cursor <= l.sequence /\ cursor \in Nat /\ cursor <= l.sequence
  BY <1>2 DEF PageFits
<1>4. /\ g.records = {s \in LV!Shown(l) : LV!Reset(l, cursor) \/ l.records[s] > cursor}
      /\ g.samples = {q \in LV!Sequences(l) : LV!Reset(l, cursor) \/ q > cursor} BY DEF LV!Given
<1>5. ~LV!Reset(l, cursor) => cursor = view.cursor /\ view.cursor # 0 /\ l.minimum <= view.cursor
  BY <1>2, <1>3 DEF LV!Reset
<1>6. l.revision = view.revision => old = view OBVIOUS
<1> HIDE DEF g, old
<1>7. ASSUME NEW s \in LV!Shown(l) PROVE records[s] = l.records[s]
  <2>1. s \in Stream /\ l.records[s] \in Nat BY DEF LV!Shown, ViewSound, RecordsFit
  <2>2. CASE s \in g.records BY <2>1, <2>2
  <2>3. CASE s \notin g.records
    <3>1. ~LV!Reset(l, cursor) /\ ~(l.records[s] > cursor) BY <2>3, <1>4
    <3>2. cursor = view.cursor /\ view.cursor # 0 /\ l.minimum <= view.cursor /\ l.records[s] <= view.cursor
      BY <3>1, <2>1, <1>3, <1>5
    <3>3. view.records[s] = l.records[s] /\ view.revision = l.revision BY <3>2 DEF PageFits
    <3> QED BY <2>1, <2>3, <3>3, <1>6
  <2> QED BY <2>2, <2>3
<1>8. ASSUME NEW x \in l.samples PROVE x.at \in samples
  <2>1. x.at \in LV!Sequences(l) /\ x.at \in Nat BY DEF LV!Sequences, ViewSound, Numbered
  <2>2. CASE x.at \in g.samples BY <2>1, <2>2
  <2>3. CASE x.at \notin g.samples
    <3>1. ~LV!Reset(l, cursor) /\ ~(x.at > cursor) BY <2>1, <2>3, <1>4
    <3>2. cursor = view.cursor /\ view.cursor # 0 /\ l.minimum <= view.cursor /\ x.at <= view.cursor
      BY <3>1, <2>1, <1>3, <1>5
    <3>3. x.at \in view.samples /\ view.revision = l.revision BY <3>2 DEF PageFits
    <3> QED BY <2>1, <3>3, <1>6
  <2> QED BY <2>2, <2>3
<1> HIDE DEF records, samples
<1>9. /\ {"cursor", "revision", "records", "samples"} \subseteq DOMAIN view'
      /\ view'.cursor = l.sequence /\ view'.revision = l.revision /\ view'.records = records /\ view'.samples = samples
  BY <1>1
<1> QED BY <1>1, <1>2, <1>7, <1>8, <1>9 DEF PageFits

\* What leases ask for is in the document a session is about, or to be about.
LEMMA LeasesMeant ==
  ASSUME NEW l, ViewSound(l), SessionFits(l), NEW r, l.identity # 0 => l.identity = r
  PROVE  Meant(l, r)
<1>1. CASE l.identity # 0 BY <1>1 DEF ViewSound, IdentityFits
<1>2. CASE l.identity = 0
  <2>1. LV!Held(l) = {} BY <1>2 DEF SessionFits
  <2>2. \A v \in Lease : l.leases[v] = LV!NoLease BY <2>1 DEF LV!Held, ViewSound, LeasesFit
  <2>3. \A v \in Lease : l.leases[v].scope = {} BY <2>2 DEF LV!NoLease
  <2> QED BY <2>3 DEF Meant
<1> QED BY <1>1, <1>2

\* A lease is given within the limit, for what is in the document.
LEMMA LeaseGiven ==
  ASSUME NEW l, ViewSound(l), clock \in 0 .. MaxClock, NEW v \in Lease, NEW scope, NEW r \in LV!Revisions,
         LV!Valid(l, v, scope, r), Meant(l, r), l.identity # 0 => l.identity = r
  PROVE  LET k == [l EXCEPT !.leases[v] = [scope |-> scope, until |-> clock + LeaseTime]]
         IN  /\ ViewSound(k) /\ Succeeds(l, k) /\ k.identity = l.identity /\ Meant(k, r) /\ v \in LV!Held(k)
<1> DEFINE x == [scope |-> scope, until |-> clock + LeaseTime]
           a == [l.leases EXCEPT ![v] = x]
           k == [l EXCEPT !.leases = a]
<1>1. l.leases \in [Lease -> [scope : SUBSET Stream, until : 0 .. MaxClock + LeaseTime]]
  BY DEF ViewSound, LeasesFit
<1>2. scope \subseteq Document[r] /\ scope \subseteq Stream BY ViewSizes DEF LV!Valid
<1>3. x \in [scope : SUBSET Stream, until : 0 .. MaxClock + LeaseTime] /\ x.scope = scope /\ x.until > 0
  BY <1>2, ViewSizes
<1> HIDE DEF x
<1>4. /\ a \in [Lease -> [scope : SUBSET Stream, until : 0 .. MaxClock + LeaseTime]]
      /\ a[v] = x /\ \A w \in Lease : w # v => a[w] = l.leases[w] BY <1>1, <1>3
<1>5. k.leases = a BY DEF ViewSound, LiveFields
<1>6. k = [l EXCEPT !.leases[v] = x] OBVIOUS
<1> HIDE DEF a, k
<1>7. LV!Held(k) = LV!Held(l) \cup {v} BY <1>3, <1>4, <1>5 DEF LV!Held
<1>8. LV!Desired(k) = scope \cup LV!Streams(l, v)
  <2>1. ASSUME NEW y \in LV!Desired(k) PROVE y \in scope \cup LV!Streams(l, v)
    <3>1. PICK w \in LV!Held(k) : y \in k.leases[w].scope BY DEF LV!Desired
    <3>2. w \in Lease BY <3>1 DEF LV!Held
    <3>3. CASE w = v BY <3>1, <3>3, <1>3, <1>4, <1>5
    <3>4. CASE w # v
      <4>1. w \in LV!Held(l) \ {v} /\ y \in l.leases[w].scope BY <3>1, <3>2, <3>4, <1>4, <1>5, <1>7
      <4> QED BY <4>1 DEF LV!Streams
    <3> QED BY <3>3, <3>4
  <2>2. ASSUME NEW y \in scope PROVE y \in LV!Desired(k) BY <2>2, <1>3, <1>4, <1>5, <1>7 DEF LV!Desired
  <2>3. ASSUME NEW y \in LV!Streams(l, v) PROVE y \in LV!Desired(k)
    <3>1. PICK w \in LV!Held(l) \ {v} : y \in l.leases[w].scope BY <2>3 DEF LV!Streams
    <3>2. w \in Lease /\ w \in LV!Held(k) BY <3>1, <1>7 DEF LV!Held
    <3>3. y \in k.leases[w].scope BY <3>1, <3>2, <1>4, <1>5
    <3> QED BY <3>2, <3>3 DEF LV!Desired
  <2> QED BY <2>1, <2>2, <2>3
<1>9. Cardinality(LV!Desired(k)) <= MaxStreams BY <1>8, CountedAlike DEF LV!Valid
<1>10. LeasesFit(k)
  <2>1. \A w \in Lease : a[w] = LV!NoLease \/ a[w].until > 0 BY <1>3, <1>4 DEF ViewSound, LeasesFit
  <2> QED BY <2>1, <1>4, <1>5, <1>9 DEF LeasesFit
<1>11. \A w \in Lease : a[w].scope \subseteq Document[r] BY <1>2, <1>3, <1>4 DEF Meant
<1>12. ViewSound(k) /\ Succeeds(l, k) /\ k.identity = l.identity BY <1>10, <1>11, LeasesChange DEF k
<1>13. Meant(k, r) BY <1>5, <1>11 DEF Meant
<1>14. v \in LV!Held(k) BY <1>7
<1> QED BY <1>6, <1>12, <1>13, <1>14 DEF x

\* A lease is given back.
LEMMA LeaseBack ==
  ASSUME NEW l, ViewSound(l), SessionFits(l), NEW v \in Lease
  PROVE  LET k == [l EXCEPT !.leases[v] = LV!NoLease]
         IN  ViewSound(k) /\ Succeeds(l, k) /\ (LV!Held(k) # {} => SessionFits(k))
<1> DEFINE a == [l.leases EXCEPT ![v] = LV!NoLease]
           k == [l EXCEPT !.leases = a]
<1>1. l.leases \in [Lease -> [scope : SUBSET Stream, until : 0 .. MaxClock + LeaseTime]]
  BY DEF ViewSound, LeasesFit
<1>2. LV!NoLease \in [scope : SUBSET Stream, until : 0 .. MaxClock + LeaseTime] /\ LV!NoLease.scope = {} /\ LV!NoLease.until = 0
  BY ViewSizes DEF LV!NoLease
<1>3. /\ a \in [Lease -> [scope : SUBSET Stream, until : 0 .. MaxClock + LeaseTime]]
      /\ \A w \in Lease : a[w] = l.leases[w] \/ a[w] = LV!NoLease BY <1>1, <1>2
<1>4. k.leases = a BY DEF ViewSound, LiveFields
<1>5. k = [l EXCEPT !.leases[v] = LV!NoLease] OBVIOUS
<1> HIDE DEF a, k
<1>6. LV!Held(k) \subseteq LV!Held(l) /\ LV!Desired(k) \subseteq LV!Desired(l)
  <2>1. LV!Held(k) \subseteq LV!Held(l) BY <1>2, <1>3, <1>4 DEF LV!Held
  <2>2. ASSUME NEW x \in LV!Desired(k) PROVE x \in LV!Desired(l)
    <3>1. PICK w \in LV!Held(k) : x \in k.leases[w].scope BY DEF LV!Desired
    <3>2. w \in LV!Held(l) /\ w \in Lease BY <2>1, <3>1 DEF LV!Held
    <3>3. x \in l.leases[w].scope BY <1>2, <1>3, <1>4, <3>1, <3>2
    <3> QED BY <3>2, <3>3 DEF LV!Desired
  <2> QED BY <2>1, <2>2
<1>7. LeasesFit(k)
  <2>1. IsFiniteSet(LV!Desired(l)) /\ Cardinality(LV!Desired(l)) \in Nat /\ Cardinality(LV!Desired(l)) <= MaxStreams
    BY DesiredFinite DEF ViewSound, LeasesFit
  <2>2. Cardinality(LV!Desired(k)) <= Cardinality(LV!Desired(l)) /\ Cardinality(LV!Desired(k)) \in Nat
    BY <2>1, <1>6, FS_Subset, FS_CardinalityType
  <2>3. Cardinality(LV!Desired(k)) <= MaxStreams BY <2>1, <2>2, ViewSizes
  <2>4. \A w \in Lease : a[w] = LV!NoLease \/ a[w].until > 0 BY <1>3 DEF ViewSound, LeasesFit
  <2> QED BY <2>3, <2>4, <1>3, <1>4 DEF LeasesFit
<1>8. l.identity # 0 => \A w \in Lease : a[w].scope \subseteq Document[l.identity]
  BY <1>2, <1>3 DEF ViewSound, IdentityFits, Meant
<1>9. ViewSound(k) /\ Succeeds(l, k) /\ k.identity = l.identity /\ LV!Shown(k) = LV!Shown(l)
  BY <1>7, <1>8, LeasesChange DEF k
<1>10. LV!Held(k) # {} => SessionFits(k)
  <2> SUFFICES ASSUME LV!Held(k) # {} PROVE SessionFits(k) OBVIOUS
  <2>1. l.identity # 0 /\ LV!Desired(l) \subseteq LV!Shown(l) BY <1>6 DEF SessionFits
  <2>2. k.identity # 0 /\ LV!Desired(k) \subseteq LV!Shown(k) BY <2>1, <1>6, <1>9
  <2> QED BY <2>2 DEF SessionFits
<1> QED BY <1>5, <1>9, <1>10

\* Time and the saved system go on, or the service does, and a page keeps what it has.
LEMMA ViewGoesOn ==
  ASSUME ViewWhole, clock' \in 0 .. MaxClock, system' \in LV!Revisions, ViewSound(live'), SessionFits(live'),
         Succeeds(live, live'), view' = view
  PROVE  ViewWhole'
<1>1. Numbered(live) /\ Numbered(live') /\ RecordsFit(live') /\ PageFits(live, view)
  BY DEF ViewWhole, ViewSound
<1>2. PageFits(live', view') BY <1>1, PageGoesOn
<1> QED BY <1>2 DEF ViewWhole

\* A page is answered.
LEMMA ViewAnswers ==
  ASSUME ViewWhole, clock' = clock, system' = system, NEW l, ViewSound(l), SessionFits(l), Succeeds(live, l),
         NEW cursor, cursor = 0 \/ cursor = view.cursor, LV!Answer(l, cursor)
  PROVE  ViewWhole'
<1>1. Numbered(live) /\ Numbered(l) /\ RecordsFit(l) /\ PageFits(live, view) BY DEF ViewWhole, ViewSound
<1>2. PageFits(l, view) BY <1>1, PageGoesOn
<1>3. live' = l /\ PageFits(l, view') BY <1>2, AnswerCompletes
<1>4. clock' \in 0 .. MaxClock /\ system' \in LV!Revisions BY DEF ViewWhole
<1>5. ViewSound(live') /\ SessionFits(live') /\ PageFits(live', view') BY <1>3
<1> QED BY <1>4, <1>5 DEF ViewWhole

\* A member comes.
LEMMA AcquireWhole ==
  ASSUME ViewWhole, NEW v \in Lease, LV!Acquire(v)
  PROVE  ViewWhole'
<1>1. PICK r \in LV!Revisions, o \in LV!Outcomes, scope \in Scopes, refuses \in {{}, Brokers} :
        /\ LV!Read(r)
        /\ LET l == LV!Reconciled(live, r, o, refuses)
               c == IF l.identity # 0 /\ LV!Workers(l) = {} THEN LV!Cleared(l) ELSE l
               h == [c EXCEPT !.leases[v] = [scope |-> scope, until |-> clock + LeaseTime]]
           IN  IF LV!Valid(l, v, scope, r) /\ LV!Cardinality(LV!Held(l)) < MaxLeases
               THEN LV!Answer(LV!Pruned(IF h.identity = 0 THEN LV!Initialized(h, r, o)
                                        ELSE LV!Scoped(h, r, o, refuses)), 0)
               ELSE live' = l /\ UNCHANGED view BY DEF LV!Acquire
<1>2. clock' = clock /\ system' = system /\ clock \in 0 .. MaxClock /\ system \in LV!Revisions
  BY DEF LV!Acquire, ViewWhole
<1> DEFINE ll == LV!Reconciled(live, r, o, refuses)
           cc == IF ll.identity # 0 /\ LV!Workers(ll) = {} THEN LV!Cleared(ll) ELSE ll
           hh == [cc EXCEPT !.leases[v] = [scope |-> scope, until |-> clock + LeaseTime]]
           ii == IF hh.identity = 0 THEN LV!Initialized(hh, r, o) ELSE LV!Scoped(hh, r, o, refuses)
<1>3. \/ LV!Valid(ll, v, scope, r) /\ LV!Answer(LV!Pruned(ii), 0)
      \/ live' = ll /\ view' = view BY <1>1
<1>4. PICK l : l = ll OBVIOUS
<1>5. ViewSound(l) /\ SessionFits(l) /\ Succeeds(live, l) /\ (l.identity # 0 => l.identity = r)
  BY <1>2, <1>4, ReconciledSound DEF ViewWhole
<1>6. ViewSound(live) BY DEF ViewWhole
<1>7. CASE live' = ll /\ view' = view
  <2>1. live' = l BY <1>4, <1>7
  <2> QED BY <2>1, <1>2, <1>5, <1>7, ViewGoesOn
<1>8. CASE LV!Valid(ll, v, scope, r) /\ LV!Answer(LV!Pruned(ii), 0)
  <2>1. PICK c : c = cc OBVIOUS
  <2>2. PICK h : h = hh OBVIOUS
  <2>3. PICK i : i = ii OBVIOUS
  <2>4. LV!Valid(l, v, scope, r) BY <1>4, <1>8
  <2>5. LV!Answer(LV!Pruned(i), 0) BY <1>8, <2>3
  <2>6. i = IF h.identity = 0 THEN LV!Initialized(h, r, o) ELSE LV!Scoped(h, r, o, refuses)
    <3> HIDE DEF hh
    <3> QED BY <2>2, <2>3
  <2>7. h = [c EXCEPT !.leases[v] = [scope |-> scope, until |-> clock + LeaseTime]]
    <3> HIDE DEF cc
    <3> QED BY <2>1, <2>2
  <2>8. c = IF l.identity # 0 /\ LV!Workers(l) = {} THEN LV!Cleared(l) ELSE l
    <3> HIDE DEF ll
    <3> QED BY <1>4, <2>1
  <2> HIDE DEF ll, cc, hh, ii
  <2>9. /\ ViewSound(c) /\ Succeeds(l, c) /\ c.leases = l.leases /\ (c.identity # 0 => c.identity = r)
    BY <1>5, <2>8, ClearedSound, FollowsItself
  <2>10. Meant(l, r) BY <1>5, LeasesMeant
  <2>11. Meant(c, r) BY <2>9, <2>10 DEF Meant
  <2>12. LV!Valid(c, v, scope, r)
    <3>1. LV!Streams(c, v) = LV!Streams(l, v) BY <2>9 DEF LV!Streams, LV!Held
    <3> QED BY <2>4, <3>1 DEF LV!Valid
  <2>13. /\ ViewSound(h) /\ Succeeds(c, h) /\ h.identity = c.identity /\ Meant(h, r) /\ v \in LV!Held(h)
    BY <1>2, <2>7, <2>9, <2>11, <2>12, LeaseGiven
  <2>14. /\ ViewSound(i) /\ Succeeds(h, i) /\ i.identity = r /\ i.leases = h.leases
         /\ LV!Desired(i) \subseteq LV!Shown(i)
    <3>1. CASE h.identity = 0
      <4>1. i = LV!Initialized(h, r, o) BY <2>6, <3>1
      <4> QED BY <4>1, <3>1, <1>2, <2>13, InitializedSound
    <3>2. CASE h.identity # 0
      <4>1. i = LV!Scoped(h, r, o, refuses) /\ h.identity = r BY <2>6, <2>9, <2>13, <3>2
      <4>2. PICK k : k = LV!Scoped(h, h.identity, o, refuses) OBVIOUS
      <4>3. /\ ViewSound(k) /\ Succeeds(h, k) /\ k.identity = h.identity /\ k.leases = h.leases
            /\ LV!Desired(k) \subseteq LV!Shown(k) BY <4>2, <3>2, <1>2, <2>13, ScopedSound
      <4>4. i = k BY <4>1, <4>2
      <4> QED BY <4>1, <4>3, <4>4
    <3> QED BY <3>1, <3>2
  <2>15. SessionFits(i)
    <3>1. LV!Held(i) = LV!Held(h) /\ i.identity # 0 BY <2>14, ViewSizes DEF LV!Held
    <3> QED BY <3>1, <2>13, <2>14 DEF SessionFits
  <2>16. Succeeds(live, i)
    <3>1. Succeeds(live, c) BY <1>5, <1>6, <2>9, SoundFollows
    <3>2. Succeeds(live, h) BY <3>1, <1>6, <2>9, <2>13, SoundFollows
    <3> QED BY <3>2, <1>6, <2>13, <2>14, SoundFollows
  <2>17. PICK p : p = LV!Pruned(i) OBVIOUS
  <2>18. ViewSound(p) /\ Succeeds(i, p) /\ SessionFits(p) BY <2>14, <2>15, <2>17, PrunedSound
  <2>19. Succeeds(live, p) BY <1>6, <2>14, <2>16, <2>18, SoundFollows
  <2>20. LV!Answer(p, 0) BY <2>5, <2>17
  <2> QED BY <1>2, <2>18, <2>19, <2>20, ViewAnswers
<1> QED BY <1>3, <1>7, <1>8

\* A member stays.
LEMMA RenewWhole ==
  ASSUME ViewWhole, NEW v \in Lease, LV!Renew(v)
  PROVE  ViewWhole'
<1>1. PICK r \in LV!Revisions, o \in LV!Outcomes, scope \in Scopes, refuses \in {{}, Brokers} :
        /\ LV!Read(r)
        /\ LET l == LV!Reconciled(live, r, o, refuses)
               lease == [scope |-> scope, until |-> clock + LeaseTime]
           IN  live' = IF l.leases[v] = LV!NoLease \/ ~LV!Valid(l, v, scope, r) THEN l
                       ELSE LV!Pruned(LV!Scoped([l EXCEPT !.leases[v] = lease], r, o, refuses))
  BY DEF LV!Renew
<1>2. clock' = clock /\ system' = system /\ view' = view /\ clock \in 0 .. MaxClock /\ system \in LV!Revisions
  BY DEF LV!Renew, ViewWhole
<1> DEFINE ll == LV!Reconciled(live, r, o, refuses)
           hh == [ll EXCEPT !.leases[v] = [scope |-> scope, until |-> clock + LeaseTime]]
           ii == LV!Scoped(hh, r, o, refuses)
<1>3. \/ ll.leases[v] # LV!NoLease /\ LV!Valid(ll, v, scope, r) /\ live' = LV!Pruned(ii)
      \/ live' = ll BY <1>1
<1>4. PICK l : l = ll OBVIOUS
<1>5. ViewSound(l) /\ SessionFits(l) /\ Succeeds(live, l) /\ (l.identity # 0 => l.identity = r)
  BY <1>2, <1>4, ReconciledSound DEF ViewWhole
<1>6. ViewSound(live) BY DEF ViewWhole
<1>7. CASE live' = ll
  <2>1. live' = l BY <1>4, <1>7
  <2> QED BY <2>1, <1>2, <1>5, ViewGoesOn
<1>8. CASE ll.leases[v] # LV!NoLease /\ LV!Valid(ll, v, scope, r) /\ live' = LV!Pruned(ii)
  <2>1. PICK h : h = hh OBVIOUS
  <2>2. PICK i : i = ii OBVIOUS
  <2>3. LV!Valid(l, v, scope, r) /\ l.leases[v] # LV!NoLease BY <1>4, <1>8
  <2>4. live' = LV!Pruned(i) BY <1>8, <2>2
  <2>5. i = LV!Scoped(h, r, o, refuses)
    <3> HIDE DEF hh
    <3> QED BY <2>1, <2>2
  <2>6. h = [l EXCEPT !.leases[v] = [scope |-> scope, until |-> clock + LeaseTime]]
    <3> HIDE DEF ll
    <3> QED BY <1>4, <2>1
  <2> HIDE DEF ll, hh, ii
  <2>7. v \in LV!Held(l) BY <2>3, <1>5 DEF ViewSound, LeasesFit, LV!Held
  <2>8. l.identity # 0 /\ l.identity = r BY <2>7, <1>5 DEF SessionFits
  <2>9. Meant(l, r) BY <1>5, LeasesMeant
  <2>10. /\ ViewSound(h) /\ Succeeds(l, h) /\ h.identity = r /\ h.identity # 0 /\ v \in LV!Held(h)
    BY <1>2, <1>5, <2>3, <2>6, <2>8, <2>9, LeaseGiven
  <2>11. PICK k : k = LV!Scoped(h, h.identity, o, refuses) OBVIOUS
  <2>12. /\ ViewSound(k) /\ Succeeds(h, k) /\ k.identity = h.identity /\ k.leases = h.leases
         /\ LV!Desired(k) \subseteq LV!Shown(k) BY <2>10, <2>11, <1>2, ScopedSound
  <2>13. i = k BY <2>5, <2>10, <2>11
  <2>14. SessionFits(k)
    <3>1. LV!Held(k) = LV!Held(h) /\ k.identity # 0 BY <2>10, <2>12 DEF LV!Held
    <3> QED BY <3>1, <2>10, <2>12 DEF SessionFits
  <2>15. Succeeds(live, k)
    <3>1. Succeeds(live, h) BY <1>5, <1>6, <2>10, SoundFollows
    <3> QED BY <3>1, <1>6, <2>10, <2>12, SoundFollows
  <2>16. live' = LV!Pruned(k) BY <2>4, <2>13
  <2>17. ViewSound(live') /\ Succeeds(k, live') /\ SessionFits(live') BY <2>12, <2>14, <2>16, PrunedSound
  <2>18. Succeeds(live, live') BY <1>6, <2>12, <2>15, <2>17, SoundFollows
  <2> QED BY <1>2, <2>17, <2>18, ViewGoesOn
<1> QED BY <1>3, <1>7, <1>8

\* A member goes, and with the last one everything.
LEMMA LeaseGoes ==
  ASSUME ViewWhole, NEW v \in Lease, LV!Release(v)
  PROVE  ViewWhole'
<1>1. PICK l : l = [live EXCEPT !.leases[v] = LV!NoLease] OBVIOUS
<1>2. live' = IF LV!Held(l) = {} THEN LV!Stopped(l) ELSE l BY <1>1 DEF LV!Release
<1>3. clock' = clock /\ system' = system /\ view' = view /\ clock \in 0 .. MaxClock /\ system \in LV!Revisions
  BY DEF LV!Release, ViewWhole
<1>4. ViewSound(live) /\ SessionFits(live) BY DEF ViewWhole
<1>5. ViewSound(l) /\ Succeeds(live, l) /\ (LV!Held(l) # {} => SessionFits(l)) BY <1>1, <1>4, LeaseBack
<1>6. CASE LV!Held(l) # {} BY <1>2, <1>3, <1>5, <1>6, ViewGoesOn
<1>7. CASE LV!Held(l) = {}
  <2>1. live' = LV!Stopped(l) BY <1>2, <1>7
  <2>2. ViewSound(live') /\ Succeeds(l, live') /\ live'.identity = 0 /\ LV!Held(live') = {}
    BY <2>1, <1>5, StoppedSound
  <2>3. SessionFits(live') BY <2>2 DEF SessionFits
  <2>4. Succeeds(live, live') BY <1>4, <1>5, <2>2, SoundFollows
  <2> QED BY <1>3, <2>2, <2>3, <2>4, ViewGoesOn
<1> QED BY <1>6, <1>7

\* A page polls.
LEMMA PollWhole ==
  ASSUME ViewWhole, LV!Poll
  PROVE  ViewWhole'
<1>1. PICK r \in LV!Revisions, o \in LV!Outcomes, refuses \in {{}, Brokers} :
        LET l == LV!Pruned(LV!Reconciled(live, r, o, refuses))
        IN  \E changed \in {{}, {s \in LV!Shown(l) : l.records[s] <= view.cursor}} :
              LV!Answer(LV!Rated(l, changed), view.cursor) BY DEF LV!Poll
<1>2. clock' = clock /\ system' = system /\ clock \in 0 .. MaxClock /\ system \in LV!Revisions
  BY DEF LV!Poll, ViewWhole
<1>3. ViewSound(live) /\ SessionFits(live) BY DEF ViewWhole
<1>4. PICK k : k = LV!Reconciled(live, r, o, refuses) OBVIOUS
<1>5. PICK l : l = LV!Pruned(k) OBVIOUS
<1>6. PICK changed \in {{}, {s \in LV!Shown(l) : l.records[s] <= view.cursor}} :
        LV!Answer(LV!Rated(l, changed), view.cursor) BY <1>1, <1>4, <1>5
<1>7. changed \subseteq LV!Shown(l) BY <1>6
<1>8. PICK j : j = LV!Rated(l, changed) OBVIOUS
<1>9. LV!Answer(j, view.cursor) BY <1>6, <1>8
<1>10. ViewSound(k) /\ SessionFits(k) /\ Succeeds(live, k) BY <1>2, <1>3, <1>4, ReconciledSound
<1>11. ViewSound(l) /\ SessionFits(l) /\ Succeeds(k, l) BY <1>5, <1>10, PrunedSound
<1>12. ViewSound(j) /\ SessionFits(j) /\ Succeeds(l, j) BY <1>7, <1>8, <1>11, RatedSound
<1>13. Succeeds(live, l) BY <1>3, <1>10, <1>11, SoundFollows
<1>14. Succeeds(live, j) BY <1>3, <1>11, <1>12, <1>13, SoundFollows
<1> QED BY <1>2, <1>9, <1>12, <1>14, ViewAnswers

\* The supervisor looks after the workers.
LEMMA SuperviseWhole ==
  ASSUME ViewWhole, LV!Supervise
  PROVE  ViewWhole'
<1>1. \/ live' = LV!Stopped(live)
      \/ \E o \in LV!Outcomes, refuses \in {{}, Brokers} : live' = LV!Reconciled(live, system, o, refuses)
  BY DEF LV!Supervise
<1>2. clock' = clock /\ system' = system /\ view' = view /\ clock \in 0 .. MaxClock /\ system \in LV!Revisions
  BY DEF LV!Supervise, ViewWhole
<1>3. ViewSound(live) /\ SessionFits(live) BY DEF ViewWhole
<1>4. CASE live' = LV!Stopped(live)
  <2>1. ViewSound(live') /\ Succeeds(live, live') /\ live'.identity = 0 /\ LV!Held(live') = {}
    BY <1>3, <1>4, StoppedSound
  <2>2. SessionFits(live') BY <2>1 DEF SessionFits
  <2> QED BY <1>2, <2>1, <2>2, ViewGoesOn
<1>5. CASE \E o \in LV!Outcomes, refuses \in {{}, Brokers} : live' = LV!Reconciled(live, system, o, refuses)
  <2>1. ViewSound(live') /\ SessionFits(live') /\ Succeeds(live, live') BY <1>2, <1>3, <1>5, ReconciledSound
  <2> QED BY <1>2, <2>1, ViewGoesOn
<1> QED BY <1>1, <1>4, <1>5

\* The system is saved again, or time goes on.
LEMMA ClockWhole ==
  ASSUME ViewWhole, LV!Edit \/ LV!Tick
  PROVE  ViewWhole'
<1>1. live' = live /\ view' = view BY DEF LV!Edit, LV!Tick
<1>2. system' \in LV!Revisions BY DEF LV!Edit, LV!Tick, ViewWhole
<1>3. clock' \in 0 .. MaxClock
  <2>1. clock \in 0 .. MaxClock /\ MaxClock \in Nat BY ViewSizes DEF ViewWhole
  <2>2. clock' = clock \/ (clock < MaxClock /\ clock' = clock + 1) BY DEF LV!Edit, LV!Tick
  <2> QED BY <2>1, <2>2
<1>4. ViewSound(live') /\ SessionFits(live') /\ Succeeds(live, live') BY <1>1, FollowsItself DEF ViewWhole
<1> QED BY <1>1, <1>2, <1>3, <1>4, ViewGoesOn

\* A worker tells how its connection is.
LEMMA ToldFits ==
  ASSUME ViewWhole, NEW b \in Brokers, NEW state, NEW status, LV!Told(b, state, status), live.worker[b] # "none",
         state \in {"off", "subscribing", "up", "denied"}, status \in {"connecting", "connected", "reconnecting", "error"},
         status = "connected" => state = "up"
  PROVE  ViewSound(live') /\ SessionFits(live') /\ Succeeds(live, live')
<1>1. ViewSound(live) /\ SessionFits(live) /\ ConnectionsFit(live) /\ LiveFields \subseteq DOMAIN live
  BY DEF ViewWhole, ViewSound
<1> DEFINE worker == [live.worker EXCEPT ![b] = state]
<1>2. /\ worker \in [Brokers -> {"none", "off", "subscribing", "up", "denied"}]
      /\ worker[b] = state /\ \A c \in Brokers : c # b => worker[c] = live.worker[c]
  BY <1>1 DEF ConnectionsFit
<1>3. PICK deadline, shown :
        /\ live' = [live EXCEPT !.worker = worker, !.shown = shown, !.deadline = deadline]
        /\ shown \in [Brokers -> {"none", "connecting", "connected", "reconnecting", "error", "blocked"}]
        /\ deadline \in [Brokers -> 0 .. LV!Never]
        /\ \A c \in Brokers : c # b => shown[c] = live.shown[c] /\ deadline[c] = live.deadline[c]
        /\ shown[b] # "none" /\ (shown[b] = "connected" => state = "up")
        /\ shown[b] \in {"connecting", "reconnecting"} => deadline[b] # LV!Never
  <2>1. CASE live.shown[b] = "error"
    <3>1. live' = [live EXCEPT !.worker[b] = state] BY <2>1 DEF LV!Told
    <3>2. live' = [live EXCEPT !.worker = worker, !.shown = live.shown, !.deadline = live.deadline]
      BY <3>1, <1>1 DEF LiveFields
    <3>3. /\ live.shown \in [Brokers -> {"none", "connecting", "connected", "reconnecting", "error", "blocked"}]
          /\ live.deadline \in [Brokers -> 0 .. LV!Never] BY <1>1 DEF ConnectionsFit
    <3> HIDE DEF worker
    <3> QED BY <3>2, <3>3, <2>1
  <2>2. CASE live.shown[b] # "error"
    <3> DEFINE due == IF status \in {"connected", "error"} THEN LV!Never
                    ELSE IF live.deadline[b] = LV!Never THEN clock + ConnectTimeout ELSE live.deadline[b]
               shows == [live.shown EXCEPT ![b] = status]
               ends == [live.deadline EXCEPT ![b] = due]
    <3>1. live' = [live EXCEPT !.worker = worker, !.shown = shows, !.deadline = ends] BY <2>2 DEF LV!Told
    <3>2. due \in 0 .. LV!Never /\ (status \in {"connecting", "reconnecting"} => due # LV!Never)
      <4>1. clock \in 0 .. MaxClock /\ MaxClock \in Nat /\ ConnectTimeout \in Nat BY ViewSizes DEF ViewWhole
      <4>2. live.deadline[b] \in 0 .. LV!Never BY <1>1 DEF ConnectionsFit
      <4>3. LV!Never = MaxClock + ConnectTimeout + 1 BY DEF LV!Never
      <4>4. LV!Never \in Nat /\ clock + ConnectTimeout \in 0 .. LV!Never /\ clock + ConnectTimeout # LV!Never
        BY <4>1, <4>3
      <4> QED BY <4>2, <4>4
    <3> HIDE DEF due, worker
    <3>3. /\ shows \in [Brokers -> {"none", "connecting", "connected", "reconnecting", "error", "blocked"}]
          /\ shows[b] = status /\ \A c \in Brokers : c # b => shows[c] = live.shown[c]
      BY <1>1 DEF ConnectionsFit
    <3>4. /\ ends \in [Brokers -> 0 .. LV!Never]
          /\ ends[b] = due /\ \A c \in Brokers : c # b => ends[c] = live.deadline[c]
      BY <1>1, <3>2 DEF ConnectionsFit
    <3> HIDE DEF shows, ends
    <3>5. shows[b] # "none" /\ (shows[b] = "connected" => state = "up") BY <3>3
    <3>6. shows[b] \in {"connecting", "reconnecting"} => ends[b] # LV!Never BY <3>2, <3>3, <3>4
    <3>7. \A c \in Brokers : c # b => shows[c] = live.shown[c] /\ ends[c] = live.deadline[c] BY <3>3, <3>4
    <3>8. /\ shows \in [Brokers -> {"none", "connecting", "connected", "reconnecting", "error", "blocked"}]
          /\ ends \in [Brokers -> 0 .. LV!Never] BY <3>3, <3>4
    <3> QED BY <3>1, <3>5, <3>6, <3>7, <3>8
  <2> QED BY <2>1, <2>2
<1> HIDE DEF worker
<1>4. /\ Wired(live, live') /\ live'.worker = worker /\ live'.shown = shown /\ live'.deadline = deadline
      /\ live'.bound = live.bound BY <1>1, <1>3 DEF Wired, LiveFields
<1>5. LV!Workers(live') = LV!Workers(live)
  <2>1. \A c \in Brokers : worker[c] # "none" <=> live.worker[c] # "none" BY <1>2
  <2> QED BY <2>1, <1>4 DEF LV!Workers
<1>6. ConnectionsFit(live')
  <2>1. ASSUME NEW c \in Brokers
        PROVE  /\ worker[c] # "none" => shown[c] # "none"
               /\ shown[c] = "connected" => worker[c] = "up"
               /\ worker[c] # "none" /\ shown[c] \in {"connecting", "reconnecting"} => deadline[c] # LV!Never
    <3>1. CASE c = b BY <3>1, <1>2, <1>3
    <3>2. CASE c # b BY <3>2, <1>1, <1>2, <1>3 DEF ConnectionsFit
    <3> QED BY <3>1, <3>2
  <2>2. Cardinality(LV!Workers(live')) <= MaxConnections BY <1>1, <1>5 DEF ConnectionsFit
  <2>3. live.bound \in [Brokers -> SUBSET Stream] BY <1>1 DEF ConnectionsFit
  <2> QED BY <2>1, <2>2, <2>3, <1>2, <1>3, <1>4 DEF ConnectionsFit
<1>7. live.identity = 0 => LV!Workers(live') = {} BY <1>1, <1>5 DEF ViewSound, IdentityFits
<1>8. ViewSound(live') /\ Succeeds(live, live') BY <1>1, <1>4, <1>6, <1>7, WiredSound
<1>9. SessionFits(live')
  <2>1. /\ LV!Held(live') = LV!Held(live) /\ LV!Desired(live') = LV!Desired(live) /\ LV!Shown(live') = LV!Shown(live)
        /\ live'.identity = live.identity BY <1>4, WiredSame DEF Wired
  <2> QED BY <2>1, <1>1 DEF SessionFits
<1> QED BY <1>8, <1>9

\* A connection comes up, or goes down.
LEMMA CallbackWhole ==
  ASSUME ViewWhole, NEW b \in Brokers, LV!Callback(b)
  PROVE  ViewWhole'
<1>1. clock' = clock /\ system' = system /\ view' = view /\ clock \in 0 .. MaxClock /\ system \in LV!Revisions
  BY DEF LV!Callback, ViewWhole
<1>2. PICK state \in {"off", "subscribing", "up", "denied"}, status \in {"connecting", "connected", "reconnecting", "error"} :
        LV!Told(b, state, status) /\ live.worker[b] # "none" /\ (status = "connected" => state = "up")
  BY DEF LV!Callback
<1>3. ViewSound(live') /\ SessionFits(live') /\ Succeeds(live, live') BY <1>2, ToldFits
<1> QED BY <1>1, <1>3, ViewGoesOn

\* The memory of samples stays within its limit.
LEMMA KeptFits ==
  ASSUME NEW S, IsFiniteSet(S), Cardinality(S) <= MaxSamples, NEW R, R \subseteq S, NEW new, \A x \in S : x.at \in Nat, new.at \in Nat
  PROVE  LET all == R \cup {new}
             kept == IF LV!Cardinality(all) > MaxSamples THEN all \ {LV!Oldest(all)} ELSE all
         IN  IsFiniteSet(kept) /\ Cardinality(kept) <= MaxSamples /\ kept \subseteq all
<1> DEFINE all == R \cup {new}
<1>1. IsFiniteSet(R) /\ Cardinality(R) <= Cardinality(S) /\ Cardinality(S) \in Nat /\ Cardinality(R) \in Nat
  BY FS_Subset, FS_CardinalityType
<1>2. IsFiniteSet(all) /\ Cardinality(all) \in Nat /\ Cardinality(all) <= Cardinality(R) + 1
  <2>1. IsFiniteSet(all) /\ (Cardinality(all) = Cardinality(R) \/ Cardinality(all) = Cardinality(R) + 1)
    BY <1>1, FS_AddElement
  <2>2. Cardinality(all) \in Nat BY <2>1, FS_CardinalityType
  <2> HIDE DEF all
  <2> QED BY <1>1, <2>1, <2>2
<1>3. Cardinality(all) <= MaxSamples + 1 /\ MaxSamples \in Nat BY <1>1, <1>2, ViewSizes
<1>4. LV!Cardinality(all) = Cardinality(all) BY CountedAlike
<1>5. LV!Oldest(all) \in all
  <2>1. all # {} /\ \A x \in all : x.at \in Nat OBVIOUS
  <2> QED BY <2>1, OldestThere
<1> HIDE DEF all
<1>6. IsFiniteSet(all \ {LV!Oldest(all)}) /\ Cardinality(all \ {LV!Oldest(all)}) = Cardinality(all) - 1
  BY <1>2, <1>5, FS_RemoveElement
<1>7. CASE Cardinality(all) > MaxSamples
  <2>1. Cardinality(all) - 1 <= MaxSamples BY <1>2, <1>3
  <2>2. Cardinality(all \ {LV!Oldest(all)}) <= MaxSamples BY <1>6, <2>1
  <2> QED BY <1>4, <1>6, <1>7, <2>2 DEF all
<1>8. CASE ~(Cardinality(all) > MaxSamples)
  <2>1. Cardinality(all) <= MaxSamples BY <1>2, <1>3, <1>8
  <2> QED BY <1>2, <1>4, <1>8, <2>1 DEF all
<1> QED BY <1>7, <1>8

\* A message comes and is counted.
LEMMA CountedSound ==
  ASSUME NEW o, ViewSound(o), SessionFits(o), o.identity # 0, NEW s \in Stream
  PROVE  LET l == [o EXCEPT !.sequence = @ + 1, !.records[s] = o.sequence + 1]
         IN  /\ ViewSound(l) /\ SessionFits(l) /\ Succeeds(o, l) /\ l.identity = o.identity
             /\ l.samples = o.samples /\ l.minimum = o.minimum /\ l.sequence = o.sequence + 1
<1> DEFINE records == [o.records EXCEPT ![s] = o.sequence + 1]
           l == [o EXCEPT !.sequence = o.sequence + 1, !.records = records]
<1>1. l = [o EXCEPT !.sequence = @ + 1, !.records[s] = o.sequence + 1] BY DEF ViewSound, LiveFields
<1>2. /\ o.sequence \in Nat /\ o.records \in [Stream -> Nat] /\ \A t \in Stream : o.records[t] <= o.sequence
      /\ o.minimum \in Nat /\ o.minimum <= o.sequence BY DEF ViewSound, Numbered, RecordsFit
<1>3. /\ records \in [Stream -> Nat] /\ \A t \in Stream : records[t] <= o.sequence + 1
      /\ \A t \in Stream : records[t] > o.sequence \/ records[t] = o.records[t]
      /\ \A t \in Stream : o.records[t] > 0 => records[t] > 0
  <2>1. /\ records \in [Stream -> Nat] /\ records[s] = o.sequence + 1
        /\ \A t \in Stream : t # s => records[t] = o.records[t] BY <1>2
  <2> HIDE DEF records
  <2>2. ASSUME NEW t \in Stream
        PROVE  records[t] <= o.sequence + 1 /\ (records[t] > o.sequence \/ records[t] = o.records[t])
               /\ (o.records[t] > 0 => records[t] > 0)
    <3>1. CASE t = s BY <3>1, <2>1, <1>2
    <3>2. CASE t # s
      <4>1. records[t] = o.records[t] /\ o.records[t] \in Nat /\ o.records[t] <= o.sequence BY <3>2, <2>1, <1>2
      <4> QED BY <4>1, <1>2
    <3> QED BY <3>1, <3>2
  <2> QED BY <2>1, <2>2
<1> HIDE DEF records
<1>4. /\ LiveFields \subseteq DOMAIN l /\ l.sequence = o.sequence + 1 /\ l.minimum = o.minimum
      /\ l.identity = o.identity /\ l.leases = o.leases /\ l.revision = o.revision /\ l.records = records
      /\ l.shown = o.shown /\ l.worker = o.worker /\ l.deadline = o.deadline /\ l.bound = o.bound /\ l.samples = o.samples
  BY DEF ViewSound, LiveFields
<1> HIDE DEF l
<1>5. LV!Shown(o) \subseteq LV!Shown(l) BY <1>3, <1>4 DEF LV!Shown
<1>6. LV!Held(l) = LV!Held(o) /\ LV!Desired(l) = LV!Desired(o) /\ LV!Workers(l) = LV!Workers(o)
  BY <1>4 DEF LV!Held, LV!Desired, LV!Workers
<1>7. LeasesFit(l) BY <1>4, <1>6 DEF ViewSound, LeasesFit
<1>8. ConnectionsFit(l) BY <1>4, <1>6 DEF ViewSound, ConnectionsFit
<1>9. RecordsFit(l) BY <1>3, <1>4 DEF ViewSound, RecordsFit
<1>10. IdentityFits(l) BY <1>4 DEF ViewSound, IdentityFits, Meant
<1>11. Numbered(l)
  <2>1. \A x \in o.samples : x.at \in Nat /\ x.at <= o.sequence BY DEF ViewSound, Numbered
  <2>2. \A x \in o.samples : x.at \in Nat /\ x.at <= o.sequence + 1 BY <2>1, <1>2
  <2> QED BY <1>2, <1>4, <2>2 DEF Numbered, LiveFields
<1>12. Succeeds(o, l)
  <2>1. \A t \in LV!Shown(l) : l.records[t] > o.sequence \/ (l.records[t] = o.records[t] /\ l.revision = o.revision)
    BY <1>3, <1>4 DEF LV!Shown
  <2>2. o.sequence <= l.sequence /\ o.minimum <= l.minimum BY <1>2, <1>4
  <2>3. \A x \in l.samples : x \in o.samples /\ l.revision = o.revision BY <1>4
  <2> QED BY <2>1, <2>2, <2>3 DEF Succeeds
<1>13. SessionFits(l) BY <1>4, <1>5, <1>6 DEF SessionFits
<1> QED BY <1>1, <1>4, <1>7, <1>8, <1>9, <1>10, <1>11, <1>12, <1>13 DEF ViewSound

\* And it is kept, in the place of that of its second, with the oldest gone when there are too many.
LEMMA SampledSound ==
  ASSUME NEW o, ViewSound(o), NEW l, ViewSound(l), SessionFits(l), Succeeds(o, l), l.identity # 0,
         l.samples = o.samples, l.minimum = o.minimum, l.sequence = o.sequence + 1, NEW s \in Stream
  PROVE  LET k == LV!Sampled(l, s)
         IN  ViewSound(k) /\ SessionFits(k) /\ Succeeds(o, k)
<1> DEFINE new == [stream |-> s, second |-> clock, at |-> l.sequence]
           others == {x \in l.samples : ~(x.stream = s /\ x.second = clock)}
           all == others \cup {new}
           over == LV!Cardinality(all) > MaxSamples
           kept == IF over THEN all \ {LV!Oldest(all)} ELSE all
           min == IF over THEN LV!Max({l.minimum, LV!Oldest(all).at}) ELSE l.minimum
<1>1. PICK k : k = LV!Sampled(l, s) OBVIOUS
<1>2. k = [l EXCEPT !.samples = kept, !.minimum = min] BY <1>1 DEF LV!Sampled
<1>3. o.sequence \in Nat /\ l.sequence \in Nat /\ l.minimum \in Nat /\ l.minimum <= l.sequence
      /\ \A x \in l.samples : x.at \in Nat /\ x.at <= l.sequence /\ x.at > 0
  BY DEF ViewSound, Numbered, RecordsFit
<1>4. new.at = l.sequence /\ new.at \in Nat /\ new.at > 0 /\ new.at > o.sequence BY <1>3
<1>5. others \subseteq l.samples OBVIOUS
<1> HIDE DEF new, others
<1>6. IsFiniteSet(kept) /\ Cardinality(kept) <= MaxSamples /\ kept \subseteq all
  <2>1. IsFiniteSet(l.samples) /\ Cardinality(l.samples) <= MaxSamples BY DEF ViewSound, RecordsFit
  <2> QED BY <1>3, <1>4, <1>5, <2>1, KeptFits
<1>7. \A x \in all : x.at \in Nat /\ x.at <= l.sequence /\ x.at > 0 /\ (x \in l.samples \/ x.at > o.sequence)
  BY <1>3, <1>4, <1>5
<1>8. min \in Nat /\ l.minimum <= min /\ min <= l.sequence
  <2>1. CASE over
    <3>1. all # {} OBVIOUS
    <3>2. LV!Oldest(all) \in all BY <3>1, <1>7, OldestThere
    <3>3. LV!Oldest(all).at \in Nat /\ LV!Oldest(all).at <= l.sequence BY <3>2, <1>7
    <3> DEFINE T == {l.minimum, LV!Oldest(all).at}
    <3> HIDE DEF all
    <3>4. T \subseteq Nat /\ T # {} /\ \A y \in T : y <= l.sequence BY <3>3, <1>3
    <3>5. l.minimum \in T OBVIOUS
    <3>6. min = LV!Max(T) BY <2>1
    <3> HIDE DEF T, min
    <3>7. LV!Max(T) \in T /\ \A y \in T : y <= LV!Max(T) BY <3>4, <1>3, GreatestOf
    <3> QED BY <3>4, <3>5, <3>6, <3>7
  <2>2. CASE ~over BY <2>2, <1>3
  <2> QED BY <2>1, <2>2
<1> HIDE DEF all, over, kept, min
<1>9. /\ LiveFields \subseteq DOMAIN k /\ k.sequence = l.sequence /\ k.minimum = min
      /\ k.identity = l.identity /\ k.leases = l.leases /\ k.revision = l.revision /\ k.records = l.records
      /\ k.shown = l.shown /\ k.worker = l.worker /\ k.deadline = l.deadline /\ k.bound = l.bound /\ k.samples = kept
  BY <1>2 DEF ViewSound, LiveFields
<1>10. LV!Held(k) = LV!Held(l) /\ LV!Desired(k) = LV!Desired(l) /\ LV!Workers(k) = LV!Workers(l) /\ LV!Shown(k) = LV!Shown(l)
  BY <1>9 DEF LV!Held, LV!Desired, LV!Workers, LV!Shown
<1>11. LeasesFit(k) BY <1>9, <1>10 DEF ViewSound, LeasesFit
<1>12. ConnectionsFit(k) BY <1>9, <1>10 DEF ViewSound, ConnectionsFit
<1>13. RecordsFit(k) BY <1>6, <1>7, <1>9 DEF ViewSound, RecordsFit
<1>14. IdentityFits(k) BY <1>9 DEF ViewSound, IdentityFits, Meant
<1>15. Numbered(k) BY <1>3, <1>6, <1>7, <1>8, <1>9 DEF Numbered, LiveFields
<1>16. Succeeds(o, k)
  <2>1. o.sequence <= k.sequence /\ o.minimum <= k.minimum BY <1>3, <1>8, <1>9
  <2>2. CASE o.sequence < l.minimum
    <3>1. o.sequence < k.minimum BY <2>2, <1>3, <1>8, <1>9
    <3> QED BY <2>1, <3>1 DEF Succeeds
  <2>3. CASE /\ \A t \in LV!Shown(l) : l.records[t] > o.sequence \/ (l.records[t] = o.records[t] /\ l.revision = o.revision)
             /\ \A x \in l.samples : x.at > o.sequence \/ (x \in o.samples /\ l.revision = o.revision)
    <3>1. \A t \in LV!Shown(k) : k.records[t] > o.sequence \/ (k.records[t] = o.records[t] /\ k.revision = o.revision)
      BY <2>3, <1>9, <1>10
    <3>2. \A x \in k.samples : x.at > o.sequence \/ (x \in o.samples /\ k.revision = o.revision)
      BY <2>3, <1>6, <1>7, <1>9
    <3> QED BY <2>1, <3>1, <3>2 DEF Succeeds
  <2> QED BY <2>2, <2>3 DEF Succeeds
<1>17. SessionFits(k) BY <1>9, <1>10 DEF SessionFits
<1> QED BY <1>1, <1>9, <1>11, <1>12, <1>13, <1>14, <1>15, <1>16, <1>17 DEF ViewSound

\* A message comes.
LEMMA ReceiveWhole ==
  ASSUME ViewWhole, NEW s \in Stream, NEW decodes \in BOOLEAN, LV!Receive(s, decodes)
  PROVE  ViewWhole'
<1>1. PICK l : l = [live EXCEPT !.sequence = @ + 1, !.records[s] = live.sequence + 1] OBVIOUS
<1>2. live' = LV!Sampled(l, s) \/ live' = l BY <1>1 DEF LV!Receive
<1>3. clock' = clock /\ system' = system /\ view' = view /\ clock \in 0 .. MaxClock /\ system \in LV!Revisions
  BY DEF LV!Receive, ViewWhole
<1>4. ViewSound(live) /\ SessionFits(live) BY DEF ViewWhole
<1>5. live.identity # 0
  <2>1. Home[s] \in Brokers /\ live.worker[Home[s]] # "none" BY ViewSizes DEF LV!Receive
  <2>2. LV!Workers(live) # {} BY <2>1 DEF LV!Workers
  <2> QED BY <2>2, <1>4 DEF ViewSound, IdentityFits
<1>6. /\ ViewSound(l) /\ SessionFits(l) /\ Succeeds(live, l) /\ l.identity # 0
      /\ l.samples = live.samples /\ l.minimum = live.minimum /\ l.sequence = live.sequence + 1
  BY <1>1, <1>4, <1>5, CountedSound
<1>7. ViewSound(live') /\ SessionFits(live') /\ Succeeds(live, live')
  <2>1. CASE live' = l BY <2>1, <1>6
  <2>2. CASE live' = LV!Sampled(l, s)
    <3>1. PICK k : k = LV!Sampled(l, s) OBVIOUS
    <3>2. ViewSound(k) /\ SessionFits(k) /\ Succeeds(live, k) BY <3>1, <1>4, <1>6, SampledSound
    <3> QED BY <2>2, <3>1, <3>2
  <2> QED BY <1>2, <2>1, <2>2
<1> QED BY <1>3, <1>7, ViewGoesOn

\* The service starts with nothing, and so does a page.
LEMMA ViewStarts ==
  ASSUME LV!Init
  PROVE  ViewWhole
<1> DEFINE first == [identity |-> 0, leases |-> [v \in Lease |-> LV!NoLease], bound |-> <<>>,
                     shown |-> <<>>, worker |-> <<>>, deadline |-> <<>>, records |-> <<>>,
                     samples |-> {}, sequence |-> 0, minimum |-> 0, revision |-> 0]
<1>1. /\ LiveFields \subseteq DOMAIN live /\ live.identity = 0 /\ live.leases = [v \in Lease |-> LV!NoLease]
      /\ live.bound = [b \in Brokers |-> {}] /\ live.shown = [b \in Brokers |-> "none"]
      /\ live.worker = [b \in Brokers |-> "none"] /\ live.deadline = [b \in Brokers |-> LV!Never]
      /\ live.records = [s \in Stream |-> 0] /\ live.samples = {} /\ live.sequence = 0 /\ live.minimum = 0
  <2>1. live = LV!NoWorkers(first) BY DEF LV!Init
  <2>2. PICK f : f = first OBVIOUS
  <2>3. /\ LiveFields \subseteq DOMAIN f /\ f.leases = [v \in Lease |-> LV!NoLease]
        /\ f.sequence = 0 /\ f.minimum = 0 BY <2>2 DEF LiveFields
  <2>4. live = LV!NoWorkers(f) BY <2>1, <2>2
  <2> HIDE DEF first
  <2> QED BY <2>3, <2>4 DEF LV!NoWorkers, LiveFields
<1>2. LV!NoLease \in [scope : SUBSET Stream, until : 0 .. MaxClock + LeaseTime] /\ LV!NoLease.scope = {} /\ LV!NoLease.until = 0
  BY ViewSizes DEF LV!NoLease
<1>3. LV!Held(live) = {} /\ LV!Desired(live) = {} /\ LV!Shown(live) = {} /\ LV!Workers(live) = {}
  BY <1>1, <1>2 DEF LV!Held, LV!Desired, LV!Shown, LV!Workers
<1>4. IsFiniteSet({}) /\ Cardinality({}) = 0 BY FS_EmptySet
<1>5. Cardinality({}) <= MaxStreams /\ Cardinality({}) <= MaxConnections /\ Cardinality({}) <= MaxSamples
  BY <1>4, ViewSizes
<1>6. LeasesFit(live) BY <1>1, <1>2, <1>3, <1>5 DEF LeasesFit
<1>7. LV!Never \in 0 .. LV!Never BY ViewSizes DEF LV!Never
<1>8. ConnectionsFit(live) BY <1>1, <1>3, <1>5, <1>7 DEF ConnectionsFit
<1>9. RecordsFit(live) BY <1>1, <1>4, <1>5 DEF RecordsFit
<1>10. IdentityFits(live) BY <1>1, <1>3 DEF IdentityFits
<1>11. Numbered(live) BY <1>1 DEF Numbered, LiveFields
<1>12. SessionFits(live) BY <1>1, <1>3 DEF SessionFits
<1>13. PageFits(live, view)
  <2>1. /\ {"cursor", "revision", "records", "samples"} \subseteq DOMAIN view /\ view.cursor = 0
    BY DEF LV!Init
  <2> QED BY <1>1, <2>1 DEF PageFits
<1>14. clock \in 0 .. MaxClock /\ system \in LV!Revisions BY ViewSizes DEF LV!Init
<1> QED BY <1>1, <1>6, <1>8, <1>9, <1>10, <1>11, <1>12, <1>13, <1>14 DEF ViewWhole, ViewSound

\* Every step keeps the invariant.
LEMMA ViewSteps ==
  ASSUME ViewWhole, LV!Next \/ UNCHANGED LV!liveVars
  PROVE  ViewWhole'
<1>1. CASE \E v \in Lease : LV!Acquire(v) \/ LV!Renew(v) \/ LV!Release(v)
  BY <1>1, AcquireWhole, RenewWhole, LeaseGoes
<1>2. CASE LV!Poll \/ LV!Supervise BY <1>2, PollWhole, SuperviseWhole
<1>3. CASE LV!Edit \/ LV!Tick BY <1>3, ClockWhole
<1>4. CASE \E b \in Brokers : LV!Callback(b) BY <1>4, CallbackWhole
<1>5. CASE \E s \in Stream, decodes \in BOOLEAN : LV!Receive(s, decodes) BY <1>5, ReceiveWhole
<1>6. CASE UNCHANGED LV!liveVars
  <2>1. clock' = clock /\ system' = system /\ live' = live /\ view' = view BY <1>6 DEF LV!liveVars
  <2>2. clock' \in 0 .. MaxClock /\ system' \in LV!Revisions BY <2>1 DEF ViewWhole
  <2>3. ViewSound(live') /\ SessionFits(live') /\ Succeeds(live, live') BY <2>1, FollowsItself DEF ViewWhole
  <2> QED BY <2>1, <2>2, <2>3, ViewGoesOn
<1> QED BY <1>1, <1>2, <1>3, <1>4, <1>5, <1>6 DEF LV!Next

\* What the invariant promises.
LEMMA ViewPromise ==
  ASSUME ViewWhole
  PROVE  LV!LiveTypeOK /\ LV!ViewComplete /\ LV!LiveTruly /\ LV!WorkersLeased
<1>1. ViewSound(live) /\ SessionFits(live) /\ PageFits(live, view) /\ clock \in 0 .. MaxClock /\ system \in LV!Revisions
  BY DEF ViewWhole
<1>2. live.sequence \in Nat /\ live.minimum \in Nat /\ live.minimum <= live.sequence
      /\ \A x \in live.samples : x.at \in Nat /\ x.at <= live.sequence /\ x.at > 0
  BY <1>1 DEF ViewSound, Numbered, RecordsFit
<1>3. LV!LiveTypeOK
  <2>1. live.minimum \in 0 .. live.sequence BY <1>2
  <2> QED BY <1>1, <2>1 DEF LV!LiveTypeOK, ViewSound, LeasesFit, ConnectionsFit, RecordsFit, IdentityFits
<1>4. LV!ViewComplete
  <2> SUFFICES ASSUME view.cursor = live.sequence
               PROVE  /\ \A s \in LV!Shown(live) : view.records[s] = live.records[s]
                      /\ LV!Sequences(live) \subseteq view.samples BY DEF LV!ViewComplete
  <2>1. \A s \in LV!Shown(live) : live.records[s] \in Nat /\ live.records[s] > 0 /\ live.records[s] <= live.sequence
    BY <1>1 DEF LV!Shown, ViewSound, RecordsFit
  <2>2. CASE view.cursor = 0
    <3>1. LV!Shown(live) = {} /\ live.samples = {} BY <2>1, <2>2, <1>2
    <3> QED BY <3>1 DEF LV!Sequences
  <2>3. CASE view.cursor # 0
    <3>1. live.minimum <= view.cursor BY <1>2
    <3>2. \A s \in LV!Shown(live) : view.records[s] = live.records[s] BY <2>1, <2>3, <3>1, <1>1 DEF PageFits
    <3>3. \A x \in live.samples : x.at \in view.samples BY <2>3, <3>1, <1>1, <1>2 DEF PageFits
    <3> QED BY <3>2, <3>3 DEF LV!Sequences
  <2> QED BY <2>2, <2>3
<1>5. LV!LiveTruly
  <2>1. \A b \in LV!Workers(live) : b \in Brokers /\ live.worker[b] # "none" BY DEF LV!Workers
  <2> QED BY <2>1, <1>1 DEF LV!LiveTruly, ViewSound, ConnectionsFit, SessionFits
<1>6. LV!WorkersLeased
  <2>1. LV!Workers(live) # {} => LV!Held(live) # {} /\ live.identity # 0
    BY <1>1 DEF ViewSound, IdentityFits, SessionFits
  <2>2. /\ LV!Cardinality(LV!Workers(live)) <= MaxConnections /\ LV!Cardinality(live.samples) <= MaxSamples
        /\ LV!Cardinality(LV!Desired(live)) <= MaxStreams
    BY <1>1, CountedAlike DEF ViewSound, ConnectionsFit, RecordsFit, LeasesFit
  <2> QED BY <2>1, <2>2 DEF LV!WorkersLeased
<1> QED BY <1>3, <1>4, <1>5, <1>6
=============================================================================
