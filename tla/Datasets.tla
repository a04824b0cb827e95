------------------------------- MODULE Datasets -------------------------------
(***************************************************************************)
(* How a dataset of the Dojo is made: from the lines of a CSV file, whose  *)
(* points are copied in batches, or from the telemetry of chosen readings, *)
(* which goes on being recorded and dropped while it is copied.  Either    *)
(* way everything happens in one transaction: what is refused leaves       *)
(* nothing behind.                                                         *)
(***************************************************************************)
EXTENDS Integers, Sequences, FiniteSets, SequencesExt

CONSTANTS
  Headers,       \* the header lines of files: sequences of column names
  Long,          \* the series names of files with one value per line
  Catalogues,    \* the labels of the numeric readings: functions from readings to names
  MaxStamp,      \* instants of points
  MaxPoints, MaxSeries,
  CopyBatch,     \* points copied at a time
  MaxLines,      \* lines of a file
  MaxChanges     \* telemetry recorded or dropped during a copy

DatasetsAssumption ==
  MaxStamp \in Nat \ {0} /\ MaxPoints \in Nat /\ CopyBatch \in Nat \ {0} /\ MaxSeries \in Nat

VARIABLES
  catalogue,  \* the label of every reading
  telemetry,  \* what is recorded: readings and instants
  job,        \* the import
  file,       \* the points of the lines that were read
  dataset,    \* the dataset, once the transaction has committed
  changes

datasetVars == <<catalogue, telemetry, job, file, dataset, changes>>

Stamps == 1 .. MaxStamp
Offered == DOMAIN catalogue

Series(name) == [name |-> name, count |-> 0, first |-> 0, last |-> 0, stored |-> FALSE]
Idle == [phase |-> "idle", layout |-> "none", columns |-> << >>, chosen |-> << >>,
         series |-> << >>, batch |-> << >>, copied |-> {}, total |-> 0, lines |-> 0, at |-> 0]
NoDataset == [series |-> << >>, points |-> {}, count |-> 0, first |-> 0, last |-> 0]
Refused(j) == [Idle EXCEPT !.phase = "refused"]

-----------------------------------------------------------------------------
(* Names.  A name is a label, or a label and a number behind it.           *)
Numbered(label, k) == Append(label, k)

\* as mutated: what other readings are called is not looked at
NamesByLabel(labels) ==
  [i \in 1 .. Len(labels) |->
     LET before == Cardinality({j \in 1 .. i - 1 : labels[j] = labels[i]})
     IN  IF before = 0 THEN labels[i] ELSE Numbered(labels[i], before + 1)]

\* names of their own for labels that repeat: what is taken as a label is not made up
UniqueNames(labels) ==
  LET Named(acc, label) ==
        LET from == IF label \in DOMAIN acc.next THEN acc.next[label] ELSE 2
            k == CHOOSE k \in from .. from + 2 * Len(labels) :
                   /\ Numbered(label, k) \notin ToSet(labels) \cup acc.used
                   /\ \A i \in from .. k - 1 :
                        Numbered(label, i) \in ToSet(labels) \cup acc.used
            name == IF label \in acc.used THEN Numbered(label, k) ELSE label
        IN  [used |-> acc.used \cup {name}, names |-> Append(acc.names, name),
             next |-> [l \in DOMAIN acc.next \cup (IF label \in acc.used THEN {label} ELSE {}) |->
                         IF l = label THEN k + 1 ELSE acc.next[l]]]
  IN  FoldLeft(Named, [used |-> {}, names |-> << >>, next |-> [l \in {} |-> 0]], labels).names

-----------------------------------------------------------------------------
(* What both ways of importing share.                                      *)
\* a series takes a point
Counted(s, t) ==
  [s EXCEPT !.count = @ + 1,
            !.first = IF @ = 0 \/ t < @ THEN t ELSE @,
            !.last = IF t > @ THEN t ELSE @]

StoreSeries(j) == [j EXCEPT !.series = [p \in DOMAIN @ |-> [@[p] EXCEPT !.stored = TRUE]]]

\* as mutated: a second value for an instant is let through
CopyAnyway(j) == [j EXCEPT !.copied = @ \cup ToSet(j.batch), !.batch = << >>]

\* one COPY: no series has two values for an instant
Copy(j) ==
  IF Cardinality(ToSet(j.batch)) < Len(j.batch) \/ ToSet(j.batch) \cap j.copied # {}
  THEN Refused(j)
  ELSE [j EXCEPT !.copied = @ \cup ToSet(j.batch), !.batch = << >>]

Filled(j) == {p \in DOMAIN j.series : j.series[p].stored /\ j.series[p].count > 0}
Least(S) == CHOOSE x \in S : \A y \in S : x <= y
Most(S) == CHOOSE x \in S : \A y \in S : x >= y

\* the rows that are left: a series that was declared and never filled goes
Result(j) ==
  [series |-> [p \in Filled(j) |-> j.series[p]], points |-> j.copied,
   count |-> FoldSet(LAMBDA p, sum : sum + j.series[p].count, 0, Filled(j)),
   first |-> Least({j.series[p].first : p \in Filled(j)}),
   last |-> Most({j.series[p].last : p \in Filled(j)})]

Finish ==
  /\ job.phase = "finish"
  /\ IF Filled(job) = {} \/ Result(job).count > MaxPoints
     THEN job' = Refused(job) /\ UNCHANGED dataset
     ELSE dataset' = Result(job) /\ job' = [Idle EXCEPT !.phase = "done"]
  /\ UNCHANGED <<catalogue, telemetry, file, changes>>

-----------------------------------------------------------------------------
(* A file.                                                                 *)
\* the value columns of a header, when it can be read
Columns(header, time) == SelectSeq([i \in 1 .. Len(header) |-> <<header[i], i>>],
                                   LAMBDA c : c[2] # time)
WideReads(header, time) ==
  LET names == [i \in DOMAIN Columns(header, time) |-> Columns(header, time)[i][1]]
  IN  /\ names # << >> /\ "" \notin ToSet(names)
      /\ Cardinality(ToSet(names)) = Len(names)

\* a file that names each series in its header, or one that names it on each line
Upload ==
  /\ job.phase = "idle"
  /\ \/ \E header \in Headers : \E time \in 1 .. Len(header) :
          /\ WideReads(header, time)
          /\ LET columns == Columns(header, time)
             IN  job' = IF Len(columns) > MaxSeries THEN Refused(job)
                        ELSE [Idle EXCEPT !.phase = "read", !.layout = "wide", !.columns = columns,
                                          !.series = [i \in DOMAIN columns |-> Series(<<columns[i][1]>>)]]
     \/ job' = [Idle EXCEPT !.phase = "read", !.layout = "long"]
  /\ UNCHANGED <<catalogue, telemetry, file, dataset, changes>>

Cell == {"empty", "number", "bad"}

\* the names and cells of a line, in order; its other columns do not matter
Lines ==
  IF job.layout = "wide"
  THEN {[i \in DOMAIN job.columns |-> <<<<job.columns[i][1]>>, c[i]>>] :
          c \in [DOMAIN job.columns -> Cell]}
  ELSE {<<<<name, c>>>> : name \in Long, c \in Cell}

LineReads(line, t) ==
  /\ t \in Stamps
  /\ \A i \in DOMAIN line : line[i][2] # "empty" => line[i][2] = "number" /\ line[i][1] # <<"">>

PositionOf(j, name) == CHOOSE p \in DOMAIN j.series : j.series[p].name = name

\* a point goes to its series, and the batch to the database when it is full
Taken(j, name, t) ==
  IF j.phase = "refused" THEN j
  ELSE LET known == \E p \in DOMAIN j.series : j.series[p].name = name
           s == IF known THEN j.series ELSE Append(j.series, Series(name))
           p == PositionOf([j EXCEPT !.series = s], name)
           more == [j EXCEPT !.series = [s EXCEPT ![p] = Counted(@, t)],
                             !.total = @ + 1, !.batch = Append(@, <<p, t>>)]
       IN  IF Len(s) > MaxSeries \/ more.total > MaxPoints THEN Refused(j)
           ELSE IF Len(more.batch) >= CopyBatch THEN Copy(StoreSeries(more))
           ELSE more

ReadLine ==
  /\ job.phase = "read" /\ job.lines < MaxLines
  /\ \E line \in Lines, t \in 0 .. MaxStamp :
       LET points == SelectSeq(line, LAMBDA c : c[2] # "empty")
       IN  IF ~LineReads(line, t) THEN job' = Refused(job) /\ UNCHANGED file
           ELSE /\ job' = [FoldLeft(LAMBDA j, c : Taken(j, c[1], t), job, points) EXCEPT !.lines = @ + 1]
                /\ file' = file \cup {<<points[i][1], t>> : i \in DOMAIN points}
  /\ UNCHANGED <<catalogue, telemetry, dataset, changes>>

\* the file ends: what is left of the batch is copied
EndOfFile ==
  /\ job.phase = "read"
  /\ LET last == Copy(StoreSeries(job))
     IN  job' = IF job.total = 0 THEN Refused(job)
                ELSE IF last.phase = "refused" THEN last
                ELSE [last EXCEPT !.phase = "finish"]
  /\ UNCHANGED <<catalogue, telemetry, file, dataset, changes>>

-----------------------------------------------------------------------------
(* The history of readings: counted first, then copied, one at a time.     *)
Recorded(r) == {t \in Stamps : <<r, t>> \in telemetry}

Choose ==
  /\ job.phase = "idle"
  /\ \E chosen \in SetToSeqs(Offered) :
       job' = [Idle EXCEPT !.phase = "count", !.layout = "history", !.chosen = chosen, !.at = 1]
  /\ UNCHANGED <<catalogue, telemetry, file, dataset, changes>>

Count ==
  /\ job.phase = "count"
  /\ LET total == job.total + Cardinality(Recorded(job.chosen[job.at]))
         names == UniqueNames([i \in DOMAIN job.chosen |-> catalogue[job.chosen[i]]])
     IN  job' = IF total > MaxPoints THEN Refused(job)
                ELSE IF job.at < Len(job.chosen) THEN [job EXCEPT !.total = total, !.at = @ + 1]
                ELSE IF total = 0 THEN Refused(job)
                ELSE StoreSeries([job EXCEPT !.phase = "copy", !.total = 0, !.at = 1,
                                             !.series = [i \in DOMAIN names |-> Series(names[i])]])
  /\ UNCHANGED <<catalogue, telemetry, file, dataset, changes>>

\* as mutated: the tally is what was counted before
CopyWhatWasCounted(p, stamps) ==
  [Series(job.series[p].name) EXCEPT !.stored = TRUE, !.count = 1, !.first = Least(Stamps),
                                     !.last = Most(Stamps)]

\* what a series holds, counted where it was copied to
Tally(p, stamps) ==
  [Series(job.series[p].name) EXCEPT
     !.stored = TRUE, !.count = Cardinality(stamps),
     !.first = IF stamps = {} THEN 0 ELSE Least(stamps),
     !.last = IF stamps = {} THEN 0 ELSE Most(stamps)]

CopyReading ==
  /\ job.phase = "copy"
  /\ LET p == job.at
         limit == MaxPoints - job.total + 1
         there == Recorded(job.chosen[p])
     IN  \E stamps \in SUBSET there :
           /\ Cardinality(stamps) = Least({Cardinality(there), limit})
           /\ LET total == job.total + Cardinality(stamps)
              IN  job' = IF total > MaxPoints THEN Refused(job)
                         ELSE [job EXCEPT !.series[p] = Tally(p, stamps), !.total = total,
                                          !.copied = @ \cup {<<p, t>> : t \in stamps},
                                          !.at = p + 1,
                                          !.phase = IF p = Len(job.chosen) THEN "finish" ELSE @]
  /\ UNCHANGED <<catalogue, telemetry, file, dataset, changes>>

\* readings are recorded, or dropped by retention, meanwhile
Meanwhile ==
  /\ job.layout = "history" /\ changes < MaxChanges
  /\ changes' = changes + 1
  /\ \E r \in Offered, t \in Stamps :
       telemetry' = IF <<r, t>> \in telemetry THEN telemetry \ {<<r, t>>} ELSE telemetry \cup {<<r, t>>}
  /\ UNCHANGED <<catalogue, job, file, dataset>>

Init ==
  /\ catalogue \in Catalogues
  /\ telemetry = {<<r, 1>> : r \in DOMAIN catalogue}
  /\ job = Idle /\ file = {} /\ dataset = NoDataset /\ changes = 0

Next ==
  \/ Upload \/ ReadLine \/ EndOfFile \/ Choose \/ Count \/ CopyReading \/ Meanwhile \/ Finish

Spec == Init /\ [][Next]_datasetVars

-----------------------------------------------------------------------------
(* An import works on series of its own within the limits, and nothing of  *)
(* it is a dataset before it is done (import_csv, import_history).         *)
DatasetsTypeOK ==
  /\ job.phase \in {"idle", "read", "count", "copy", "finish", "refused", "done"}
  /\ job.copied \subseteq (1 .. MaxSeries) \X Stamps
  /\ job.phase # "done" => dataset = NoDataset

(* A dataset is what it says of itself: every series has its points, its   *)
(* number of them and its span, no series is empty, none has the name of   *)
(* another, no point is without a series, and the limits hold (_finish,    *)
(* _unique_names).                                                         *)
DatasetTrue ==
  LET of(p) == {x[2] : x \in {x \in dataset.points : x[1] = p}}
  IN  job.phase = "done" =>
        /\ \A p \in DOMAIN dataset.series :
             LET s == dataset.series[p]
             IN  /\ of(p) # {} /\ s.count = Cardinality(of(p))
                 /\ s.first = Least(of(p)) /\ s.last = Most(of(p))
                 /\ s.first >= dataset.first /\ s.last <= dataset.last
        /\ \A x \in dataset.points : x[1] \in DOMAIN dataset.series
        /\ \A p, q \in DOMAIN dataset.series :
             dataset.series[p].name = dataset.series[q].name => p = q
        /\ dataset.count = Cardinality(dataset.points) /\ dataset.count \in 1 .. MaxPoints
        /\ {dataset.first, dataset.last} \subseteq {x[2] : x \in dataset.points}
        /\ Cardinality(DOMAIN dataset.series) <= MaxSeries

(* A file becomes a dataset whole: every value on every line, in the       *)
(* series of its column or its name (read_points, _copy).                  *)
WholeFile ==
  job.phase = "done" /\ file # {} =>
    {<<dataset.series[x[1]].name, x[2]>> : x \in dataset.points} = file
=============================================================================
