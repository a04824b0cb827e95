----------------------------- MODULE DatasetLabels -----------------------------
(***************************************************************************)
(* Members mark the known problems of a dataset as intervals, at the same  *)
(* time, under the lock of the dataset's row; and a finished run is scored *)
(* against them when its metrics are read.                                 *)
(***************************************************************************)
EXTENDS Integers, Sequences, FiniteSets, SequencesExt

CONSTANTS
  Author,       \* members who label
  Instants,     \* where a label starts or ends
  Span,         \* the first and last instant of the dataset
  MaxLabels     \* labels of a dataset

LabelsAssumption ==
  Instants \subseteq Int /\ Span \in Int \X Int /\ Span[1] <= Span[2] /\ MaxLabels \in Nat \ {0}

VARIABLES
  labels,     \* the stored labels, by id
  labelling,  \* the transaction of each author
  results     \* the results of the run, once it has finished, in order

labelVars == <<labels, labelling, results>>

Interval == {i \in [start : Instants, end : Instants] : i.start < i.end}
Least(S) == CHOOSE x \in S : \A y \in S : x <= y
Most(S) == CHOOSE x \in S : \A y \in S : x >= y
Unused == Least({id \in 1 .. MaxLabels + 1 : id \notin DOMAIN labels})
Idle == [phase |-> "idle", id |-> 0, interval |-> [start |-> 0, end |-> 0]]

-----------------------------------------------------------------------------
(* Labelling.                                                              *)
Overlap(i, j) == i.start < j.end /\ i.end > j.start
Touches(i) == i.end >= Span[1] /\ i.start <= Span[2]

Accepted(id, i) ==
  /\ i.end > i.start /\ Touches(i)
  /\ \A other \in DOMAIN labels \ {id} : ~Overlap(labels[other], i)

\* as mutated: the row of the dataset is read without a lock
LockUnneeded(a) == labelling[a].phase = "idle"

\* the lock of the dataset's row is taken, and what is asked for checked under it
LockFree(a) == \A b \in Author : labelling[b].phase = "idle"

Asked(a, phase, id, i) ==
  labelling' = [labelling EXCEPT ![a] = [phase |-> phase, id |-> id, interval |-> i]]

Create(a) ==
  /\ LockFree(a) /\ Cardinality(DOMAIN labels) < MaxLabels
  /\ \E i \in Interval : Accepted(0, i) /\ Asked(a, "create", 0, i)
  /\ UNCHANGED <<labels, results>>

\* either end may be left as it is
Change(a) ==
  /\ LockFree(a)
  /\ \E id \in DOMAIN labels, start, end \in Instants :
       LET i == [start |-> start, end |-> end]
       IN  Accepted(id, i) /\ Asked(a, "change", id, i)
  /\ UNCHANGED <<labels, results>>

RemoveLabel(a) ==
  /\ LockFree(a)
  /\ \E id \in DOMAIN labels : Asked(a, "remove", id, labels[id])
  /\ UNCHANGED <<labels, results>>

Commit(a) ==
  LET t == labelling[a]
      id == IF t.phase = "create" THEN Unused ELSE t.id
  IN  /\ t.phase # "idle"
      /\ labels' = IF t.phase = "remove" THEN [other \in DOMAIN labels \ {id} |-> labels[other]]
                   ELSE [other \in DOMAIN labels \cup {id} |->
                           IF other = id THEN t.interval ELSE labels[other]]
      /\ labelling' = [labelling EXCEPT ![a] = Idle]
      /\ UNCHANGED results

-----------------------------------------------------------------------------
(* A run over the dataset finishes: at an instant there is no result, one  *)
(* without a score, or one that did or did not alarm.                      *)
RunFinishes ==
  /\ results = << >> /\ \A a \in Author : labelling[a].phase = "idle"
  /\ \E shown \in [Span[1] .. Span[2] -> {"none", "unscored", "quiet", "alarm"}] :
       results' = SelectSeq([k \in 1 .. Span[2] - Span[1] + 1 |->
                               <<Span[1] + k - 1, shown[Span[1] + k - 1]>>],
                            LAMBDA r : r[2] # "none")
  /\ UNCHANGED <<labels, labelling>>

-----------------------------------------------------------------------------
(* Metrics.                                                                *)
InOrder == SetToSortSeq(DOMAIN labels, LAMBDA a, b : labels[a].start < labels[b].start)

\* as mutated: an alarm that lasts is counted wherever it goes on
AlarmsEverywhere ==
  LET is == SelectSeq(results, LAMBDA r : r[2] = "alarm")
  IN  [n \in DOMAIN is |-> [at |-> is[n][1], onset |-> TRUE]]

\* the alarms of the run, and whether each begins one: the result before it did not alarm
Alarms ==
  LET is == SelectSeq([k \in DOMAIN results |-> k], LAMBDA k : results[k][2] = "alarm")
  IN  [n \in DOMAIN is |-> [at |-> results[is[n]][1],
                            onset |-> is[n] = 1 \/ results[is[n] - 1][2] # "alarm"]]

ScoredAt == {results[k][1] : k \in {k \in DOMAIN results : results[k][2] # "unscored"}}
ResultAt == {results[k][1] : k \in DOMAIN results}
NoInstant == Least(Instants) - 1
ScoredFrom == IF ScoredAt = {} THEN NoInstant ELSE Least(ScoredAt)
ScoredTo == IF ResultAt = {} THEN NoInstant ELSE Most(ResultAt)

\* as mutated: a label that starts with the alarm has not started yet
LabelBefore(t) == Cardinality({n \in DOMAIN InOrder : labels[InOrder[n]].start < t})

\* the last label that had started
LabelAt(t) == Cardinality({n \in DOMAIN InOrder : labels[InOrder[n]].start <= t})

Outcomes ==
  LET Step(acc, alarm) ==
        LET n == LabelAt(alarm.at)
        IN  IF n > 0 /\ alarm.at <= labels[InOrder[n]].end
            THEN [acc EXCEPT !.first[n] = IF @ = NoInstant THEN alarm.at ELSE @]
            ELSE [acc EXCEPT !.false = IF alarm.onset THEN @ + 1 ELSE @]
  IN  FoldLeft(Step, [first |-> [n \in DOMAIN InOrder |-> NoInstant], false |-> 0], Alarms)

OverlapOf(i) ==
  IF ScoredFrom = NoInstant \/ ScoredTo = NoInstant THEN 0
  ELSE LET over == Least({i.end, ScoredTo}) - Most({i.start, ScoredFrom})
       IN  Most({over, 0})

Outcome(n) ==
  LET i == labels[InOrder[n]]
  IN  CASE Outcomes.first[n] # NoInstant -> "detected"
        [] Outcomes.first[n] = NoInstant /\ ScoredFrom # NoInstant /\ ScoredTo # NoInstant
             /\ i.end >= ScoredFrom /\ i.start <= ScoredTo -> "missed"
        [] OTHER -> "unscored"

Evaluated ==
  LET span == IF ScoredFrom = NoInstant \/ ScoredTo = NoInstant THEN 0 ELSE ScoredTo - ScoredFrom
      covered == FoldSet(LAMBDA id, sum : sum + OverlapOf(labels[id]), 0, DOMAIN labels)
  IN  Most({span - covered, 0})

-----------------------------------------------------------------------------
Init ==
  labels = [id \in {} |-> Idle.interval] /\ labelling = [a \in Author |-> Idle] /\ results = << >>

Next ==
  \/ \E a \in Author : Create(a) \/ Change(a) \/ RemoveLabel(a) \/ Commit(a)
  \/ RunFinishes

Spec == Init /\ [][Next]_labelVars

-----------------------------------------------------------------------------
(* No two labels of a dataset overlap, however many members label it at    *)
(* once, none is empty or outside of the dataset, and there are not too    *)
(* many of them (labels.py: create, change, _check).                       *)
LabelsApart ==
  /\ DOMAIN labels \subseteq 1 .. MaxLabels
  /\ \A id \in DOMAIN labels :
       /\ labels[id] \in Interval /\ Touches(labels[id])
       /\ \A other \in DOMAIN labels \ {id} : ~Overlap(labels[id], labels[other])

(* A label counts as detected exactly when the run alarmed within it, from *)
(* the first such alarm on; a false alarm is one that began outside of all *)
(* labels; and the time evaluated is that between the first score and the  *)
(* last result which no label covers.  Of two labels that touch, an alarm  *)
(* where they meet belongs to the later one (metrics.py: evaluate).        *)
MetricsTrue ==
  LET alarmed == {t \in ResultAt : \E k \in DOMAIN results : results[k] = <<t, "alarm">>}
      Within(t, i) == i.start <= t /\ t <= i.end
      Meet(t) == \E id \in DOMAIN labels : labels[id].start = t
      began == {k \in DOMAIN results : results[k][2] = "alarm" /\ (k > 1 => results[k - 1][2] # "alarm")}
  IN  /\ \A n \in DOMAIN InOrder :
           LET i == labels[InOrder[n]]
               own == {t \in alarmed : Within(t, i) /\ ~(t = i.end /\ Meet(t))}
           IN  /\ Outcomes.first[n] = IF own = {} THEN NoInstant ELSE Least(own)
               /\ own # {} => Outcome(n) = "detected"
               /\ Outcome(n) = "unscored" => \A t \in ScoredAt : ~Within(t, i)
      /\ Outcomes.false =
           Cardinality({k \in began : \A id \in DOMAIN labels : ~Within(results[k][1], labels[id])})
      /\ Evaluated =
           IF ScoredFrom = NoInstant THEN 0
           ELSE Cardinality({t \in ScoredFrom .. ScoredTo - 1 :
                  \A id \in DOMAIN labels : ~(labels[id].start <= t /\ t + 1 <= labels[id].end)})
=============================================================================
