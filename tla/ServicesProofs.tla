---------------------------- MODULE ServicesProofs ----------------------------
(***************************************************************************)
(* What the parts promise, proved of the parts side by side: each keeps    *)
(* its own inductive invariant while it is its turn.  Those of a worker    *)
(* and of what is shown of its readings are in WorkerModelProofs, those of *)
(* what operators and members change in AdministrationProofs; that of the  *)
(* labels is here.                                                         *)
(***************************************************************************)
EXTENDS Services, WorkerModelProofs, AdministrationProofs

(* Labels.                                                                 *)

\* A label that may be stored under an id.
Fits(id, i) ==
  /\ i \in DL!Interval /\ DL!Touches(i)
  /\ \A other \in DOMAIN labels \ {id} : ~DL!Overlap(labels[other], i)

\* What the transaction of an author is about holds until it commits.
AskedSoundly(t) ==
  /\ {"phase", "id", "interval"} \subseteq DOMAIN t
  /\ t.phase \in {"idle", "create", "change", "remove"}
  /\ t.phase = "create" => DL!Cardinality(DOMAIN labels) < MaxLabels /\ Fits(0, t.interval)
  /\ t.phase = "change" => t.id \in DOMAIN labels /\ Fits(t.id, t.interval)

\* The inductive invariant of the labels: one author at a time holds the lock of the row.
LabelsWhole ==
  /\ DL!LabelsApart
  /\ labelling = [a \in Author |-> labelling[a]] /\ (\A a \in Author : AskedSoundly(labelling[a]))
  /\ \A a, b \in Author : labelling[a].phase # "idle" /\ labelling[b].phase # "idle" => a = b

\* The bounds of the labels.
LEMMA LabelSizes == Instants \subseteq Int /\ MaxLabels \in Nat \ {0}
BY PartsAssumption DEF DL!LabelsAssumption

\* An interval has two ends.
LEMMA Ends == \A i \in DL!Interval : i.start \in Int /\ i.end \in Int /\ i.start < i.end
BY LabelSizes DEF DL!Interval

\* Of two intervals each overlaps the other, or neither.
LEMMA OverlapBoth == \A i, j \in DL!Interval : DL!Overlap(i, j) <=> DL!Overlap(j, i)
BY Ends DEF DL!Overlap

\* An id is left.
LEMMA OneIsLeft ==
  ASSUME DL!LabelsApart, DL!Cardinality(DOMAIN labels) < MaxLabels
  PROVE  DL!Unused \in 1 .. MaxLabels /\ DL!Unused \notin DOMAIN labels
<1> DEFINE free == {id \in 1 .. MaxLabels + 1 : id \notin DOMAIN labels}
<1>1. DOMAIN labels \subseteq 1 .. MaxLabels BY DEF DL!LabelsApart
<1>2. IsFiniteSet(1 .. MaxLabels) /\ Cardinality(1 .. MaxLabels) = MaxLabels
  <2>1. 1 \in Int /\ MaxLabels \in Int /\ 1 <= MaxLabels BY LabelSizes
  <2>2. IsFiniteSet(1 .. MaxLabels) /\ Cardinality(1 .. MaxLabels) = MaxLabels - 1 + 1 BY <2>1, FS_Interval
  <2> QED BY <2>1, <2>2
<1>3. DOMAIN labels # 1 .. MaxLabels
  <2>1. DL!Cardinality(DOMAIN labels) = Cardinality(DOMAIN labels) BY DEF DL!Cardinality, Cardinality
  <2> QED BY <1>2, <2>1, LabelSizes
<1>4. PICK id \in 1 .. MaxLabels : id \notin DOMAIN labels BY <1>1, <1>3
<1>5. id \in free /\ free \subseteq Nat BY <1>4, LabelSizes
<1>6. PICK x \in free : \A y \in free : x <= y BY <1>5, LeastOf
<1>7. DL!Least(free) \in free /\ DL!Least(free) <= id BY <1>5, <1>6 DEF DL!Least
<1>8. DL!Unused = DL!Least(free) BY DEF DL!Unused
<1> HIDE DEF free
<1>9. PICK u : u = DL!Unused OBVIOUS
<1>10. u \in 1 .. MaxLabels + 1 /\ u \notin DOMAIN labels /\ u <= id BY <1>7, <1>8, <1>9 DEF free
<1>11. u \in 1 .. MaxLabels BY <1>4, <1>10, LabelSizes
<1> QED BY <1>9, <1>10, <1>11

\* It begins without labels.
LEMMA LabelsStart ==
  ASSUME DL!Init
  PROVE  LabelsWhole
<1>1. DOMAIN labels = {} /\ labelling = [a \in Author |-> DL!Idle] BY DEF DL!Init
<1>2. DL!Idle.phase = "idle" /\ {"phase", "id", "interval"} \subseteq DOMAIN DL!Idle BY DEF DL!Idle
<1>3. AskedSoundly(DL!Idle) BY <1>2 DEF AskedSoundly
<1> QED BY <1>1, <1>2, <1>3 DEF LabelsWhole, DL!LabelsApart

\* Who takes the lock is the only one.
LEMMA LockKeeps ==
  ASSUME LabelsWhole, NEW a \in Author, DL!LockFree(a), NEW t, AskedSoundly(t),
         labelling' = [labelling EXCEPT ![a] = t], labels' = labels
  PROVE  LabelsWhole'
<1>1. /\ labelling' = [b \in Author |-> labelling'[b]] /\ labelling'[a] = t
      /\ \A b \in Author : b # a => labelling'[b] = labelling[b] BY DEF LabelsWhole
<1>2. \A b \in Author : b # a => labelling'[b].phase = "idle" BY <1>1 DEF DL!LockFree
<1>4. \A b \in Author : AskedSoundly(labelling'[b]) BY <1>1 DEF LabelsWhole
<1>5. DL!LabelsApart' BY DEF LabelsWhole, DL!LabelsApart
<1>6. \A b \in Author : AskedSoundly(labelling[b])' BY <1>4 DEF AskedSoundly, Fits
<1> QED BY <1>1, <1>2, <1>5, <1>6 DEF LabelsWhole

\* What is asked for is checked under the lock.
LEMMA AskKeeps ==
  ASSUME LabelsWhole, NEW a \in Author, DL!Create(a) \/ DL!Change(a) \/ DL!RemoveLabel(a)
  PROVE  LabelsWhole'
<1>1. DL!LockFree(a) /\ labels' = labels BY DEF DL!Create, DL!Change, DL!RemoveLabel
<1>2. ASSUME NEW phase, NEW id, NEW i, DL!Asked(a, phase, id, i),
             AskedSoundly([phase |-> phase, id |-> id, interval |-> i])
      PROVE  LabelsWhole' BY <1>1, <1>2, LockKeeps DEF DL!Asked
<1>3. CASE DL!Create(a)
  <2>1. PICK i \in DL!Interval : DL!Accepted(0, i) /\ DL!Asked(a, "create", 0, i) BY <1>3 DEF DL!Create
  <2>2. DL!Cardinality(DOMAIN labels) < MaxLabels BY <1>3 DEF DL!Create
  <2>3. AskedSoundly([phase |-> "create", id |-> 0, interval |-> i])
    BY <2>1, <2>2 DEF AskedSoundly, Fits, DL!Accepted
  <2> QED BY <1>2, <2>1, <2>3
<1>4. CASE DL!Change(a)
  <2>1. PICK id \in DOMAIN labels, start \in Instants, end \in Instants :
          DL!Accepted(id, [start |-> start, end |-> end]) /\ DL!Asked(a, "change", id, [start |-> start, end |-> end])
    BY <1>4 DEF DL!Change
  <2>2. PICK i : i = [start |-> start, end |-> end] OBVIOUS
  <2>3. DL!Accepted(id, i) /\ DL!Asked(a, "change", id, i) BY <2>1, <2>2
  <2>4. i \in DL!Interval
    <3>1. i \in [start : Instants, end : Instants] /\ i.start = start /\ i.end = end BY <2>2
    <3>2. i.end > i.start BY <2>3 DEF DL!Accepted
    <3>3. i.start < i.end BY <3>1, <3>2, LabelSizes
    <3> QED BY <3>1, <3>3 DEF DL!Interval
  <2>5. AskedSoundly([phase |-> "change", id |-> id, interval |-> i])
    BY <2>1, <2>3, <2>4 DEF AskedSoundly, Fits, DL!Accepted
  <2> QED BY <1>2, <2>3, <2>5
<1>5. CASE DL!RemoveLabel(a)
  <2>1. PICK id \in DOMAIN labels : DL!Asked(a, "remove", id, labels[id]) BY <1>5 DEF DL!RemoveLabel
  <2>2. AskedSoundly([phase |-> "remove", id |-> id, interval |-> labels[id]]) BY DEF AskedSoundly
  <2> QED BY <1>2, <2>1, <2>2
<1> QED BY <1>3, <1>4, <1>5

\* What is committed lies apart from the rest.
LEMMA LabelStored ==
  ASSUME DL!LabelsApart, NEW id \in 1 .. MaxLabels, NEW i, Fits(id, i),
         labels' = [other \in DOMAIN labels \cup {id} |-> IF other = id THEN i ELSE labels[other]]
  PROVE  DL!LabelsApart'
<1>1. DOMAIN labels' = DOMAIN labels \cup {id} /\ labels'[id] = i
      /\ \A other \in DOMAIN labels \ {id} : labels'[other] = labels[other] OBVIOUS
<1>2. \A other \in DOMAIN labels : labels[other] \in DL!Interval /\ DL!Touches(labels[other])
  BY DEF DL!LabelsApart
<1>3. i \in DL!Interval /\ DL!Touches(i) BY DEF Fits
<1>4. \A other \in DOMAIN labels \ {id} : ~DL!Overlap(labels[other], i) /\ ~DL!Overlap(i, labels[other])
  BY <1>2, <1>3, OverlapBoth DEF Fits
<1>5. DOMAIN labels' \subseteq 1 .. MaxLabels BY <1>1 DEF DL!LabelsApart
<1>6. ASSUME NEW o \in DOMAIN labels'
      PROVE  /\ labels'[o] \in DL!Interval /\ DL!Touches(labels'[o])
             /\ \A other \in DOMAIN labels' \ {o} : ~DL!Overlap(labels'[o], labels'[other])
  <2>1. CASE o = id BY <1>1, <1>3, <1>4, <2>1
  <2>2. CASE o # id
    <3>1. o \in DOMAIN labels \ {id} /\ labels'[o] = labels[o] BY <1>1, <2>2
    <3>2. \A other \in DOMAIN labels \ {o} : ~DL!Overlap(labels[o], labels[other]) BY <3>1 DEF DL!LabelsApart
    <3> QED BY <1>1, <1>2, <1>4, <3>1, <3>2
  <2> QED BY <2>1, <2>2
<1> QED BY <1>5, <1>6 DEF DL!LabelsApart, DL!Interval, DL!Touches, DL!Overlap

\* A commit stores what was checked, and gives the lock back.
LEMMA CommitKeepsLabels ==
  ASSUME LabelsWhole, NEW a \in Author, DL!Commit(a)
  PROVE  LabelsWhole'
<1> DEFINE t == labelling[a]
           id == IF t.phase = "create" THEN DL!Unused ELSE t.id
<1>1. /\ t.phase # "idle" /\ labelling' = [labelling EXCEPT ![a] = DL!Idle]
      /\ labels' = IF t.phase = "remove" THEN [other \in DOMAIN labels \ {id} |-> labels[other]]
                   ELSE [other \in DOMAIN labels \cup {id} |-> IF other = id THEN t.interval ELSE labels[other]]
  BY DEF DL!Commit
<1>2. AskedSoundly(t) /\ DL!LabelsApart BY DEF LabelsWhole
<1>3. DL!LabelsApart'
  <2>1. CASE t.phase = "remove"
    <3>1. labels' = [other \in DOMAIN labels \ {id} |-> labels[other]] BY <1>1, <2>1
    <3>2. DOMAIN labels' \subseteq DOMAIN labels /\ \A o \in DOMAIN labels' : labels'[o] = labels[o] BY <3>1
    <3> QED BY <1>2, <3>2 DEF DL!LabelsApart
  <2>2. CASE t.phase \in {"create", "change"}
    <3>1. id \in 1 .. MaxLabels /\ Fits(id, t.interval)
      <4>1. CASE t.phase = "create"
        <5>1. DL!Cardinality(DOMAIN labels) < MaxLabels /\ Fits(0, t.interval) BY <1>2, <4>1 DEF AskedSoundly
        <5>2. id = DL!Unused BY <4>1
        <5>3. id \in 1 .. MaxLabels /\ id \notin DOMAIN labels BY <1>2, <5>1, <5>2, OneIsLeft
        <5>4. 0 \notin DOMAIN labels BY <1>2 DEF DL!LabelsApart
        <5>5. Fits(id, t.interval) BY <5>1, <5>3, <5>4 DEF Fits
        <5> QED BY <5>3, <5>5
      <4>2. CASE t.phase = "change" BY <1>2, <4>2 DEF AskedSoundly, DL!LabelsApart
      <4> QED BY <2>2, <4>1, <4>2
    <3>2. labels' = [other \in DOMAIN labels \cup {id} |-> IF other = id THEN t.interval ELSE labels[other]]
      BY <1>1, <2>2
    <3> HIDE DEF id, t
    <3> QED BY <1>2, <3>1, <3>2, LabelStored
  <2> QED BY <1>1, <1>2, <2>1, <2>2 DEF AskedSoundly
<1>4. /\ labelling' = [b \in Author |-> labelling'[b]] /\ labelling'[a] = DL!Idle
      /\ \A b \in Author : b # a => labelling'[b] = labelling[b] BY <1>1 DEF LabelsWhole
<1>5. \A b \in Author : b # a => labelling[b].phase = "idle" BY <1>1 DEF LabelsWhole
<1>6. DL!Idle.phase = "idle" /\ {"phase", "id", "interval"} \subseteq DOMAIN DL!Idle BY DEF DL!Idle
<1>7. \A b \in Author : labelling'[b].phase = "idle" /\ {"phase", "id", "interval"} \subseteq DOMAIN labelling'[b]
  BY <1>2, <1>4, <1>5, <1>6 DEF LabelsWhole, AskedSoundly
<1>8. \A b \in Author : AskedSoundly(labelling[b])' BY <1>7 DEF AskedSoundly
<1> QED BY <1>3, <1>4, <1>7, <1>8 DEF LabelsWhole

\* Every step of the labels keeps it.
LEMMA LabelsStep ==
  ASSUME LabelsWhole, DL!Next \/ UNCHANGED DL!labelVars
  PROVE  LabelsWhole'
<1>1. CASE UNCHANGED <<labels, labelling>> BY <1>1 DEF LabelsWhole, DL!LabelsApart, AskedSoundly, Fits
<1>2. CASE DL!RunFinishes BY <1>1, <1>2 DEF DL!RunFinishes
<1>3. CASE UNCHANGED DL!labelVars BY <1>1, <1>3 DEF DL!labelVars
<1> QED BY <1>2, <1>3, AskKeeps, CommitKeepsLabels DEF DL!Next

(* Turns.                                                                  *)

\* A turn lasts.
LEMMA TurnLasts ==
  ASSUME [Next]_vars
  PROVE  turn' = turn
BY DEF Next, Alone, vars

\* When it is the turn of a detector, it makes the step.
LEMMA DetectorTurn ==
  ASSUME [Next]_vars, turn = "detector"
  PROVE  DR!Next \/ UNCHANGED DR!vars
BY DEF Next, Alone, vars, detectorVars, DR!vars

\* When it is the turn of the alignment, it makes the step; otherwise nothing happens to it.
LEMMA AlignmentTurn ==
  ASSUME [Next]_vars
  PROVE  /\ SA!Next \/ UNCHANGED SA!vars
         /\ turn # "alignment" => UNCHANGED SA!vars
BY DEF Next, Alone, vars, alignmentVars, SA!vars

\* When it is the turn of a release, it makes the step.
LEMMA ReleaseTurn ==
  ASSUME [Next]_vars, turn = "release"
  PROVE  RD!Next \/ UNCHANGED RD!vars
BY DEF Next, Alone, vars, releaseVars, RD!vars

\* When it is the turn of the members, they make the step; otherwise nothing happens to them.
LEMMA MembersTurn ==
  ASSUME [Next]_vars
  PROVE  ME!Next \/ UNCHANGED ME!memberVars
BY DEF Next, Alone, vars, membersVars, ME!memberVars

\* And so with the catalogue.
LEMMA CatalogueTurn ==
  ASSUME [Next]_vars
  PROVE  CA!Next \/ UNCHANGED CA!catalogueVars
BY DEF Next, Alone, vars, catalogueVars, CA!catalogueVars

\* And with retention.
LEMMA RetentionTurn ==
  ASSUME [Next]_vars
  PROVE  RT!Next \/ UNCHANGED RT!retentionVars
BY DEF Next, Alone, vars, retentionVars, RT!retentionVars

\* And with what is shown live.
LEMMA LiveTurn ==
  ASSUME [Next]_vars
  PROVE  LV!Next \/ UNCHANGED LV!liveVars
BY DEF Next, Alone, vars, liveVars, LV!liveVars

\* When it is the turn of the favorites, they make the step.
LEMMA FavoritesTurn ==
  ASSUME [Next]_vars, turn = "favorites"
  PROVE  FV!Next \/ UNCHANGED FV!favoritesVars
BY DEF Next, Alone, vars, favoritesVars, FV!favoritesVars

\* When it is the turn of a writer, it makes the step.
LEMMA WriterTurn ==
  ASSUME [Next]_vars, turn = "writer"
  PROVE  TW!Next \/ UNCHANGED TW!vars
BY DEF Next, Alone, vars, writerVars, TW!vars

\* When it is the turn of the brokers, it makes the step.
LEMMA BrokersTurn ==
  ASSUME [Next]_vars, turn = "brokers"
  PROVE  BS!Next \/ UNCHANGED BS!vars
BY DEF Next, Alone, vars, brokersVars, BS!vars

\* When it is the turn of a worker, it makes the step.
LEMMA WorkerTurn ==
  ASSUME [Next]_vars, turn = "worker"
  PROVE  RW!Next \/ UNCHANGED RW!vars
BY Zenon DEF Next, Alone, vars, workerVars, RW!vars, RW!link

\* When it is the turn of a run's events, it makes the step.
LEMMA EventsTurn ==
  ASSUME [Next]_vars, turn = "events"
  PROVE  RE!Next \/ UNCHANGED RE!vars
BY DEF Next, Alone, vars, eventsVars, RE!vars

\* When it is the turn of a chart, it makes the step.
LEMMA ChartsTurn ==
  ASSUME [Next]_vars, turn = "charts"
  PROVE  ER!Next \/ UNCHANGED ER!evidenceVars
BY DEF Next, Alone, vars, chartsVars, ER!evidenceVars

\* When it is the turn of the alarms, it makes the step.
LEMMA AlarmsTurn ==
  ASSUME [Next]_vars, turn = "alarms"
  PROVE  AL!Next \/ UNCHANGED AL!alarmsVars
BY DEF Next, Alone, vars, alarmsVars, AL!alarmsVars

\* When it is the turn of the labels, it makes the step.
LEMMA LabelsTurn ==
  ASSUME [Next]_vars, turn = "labels"
  PROVE  DL!Next \/ UNCHANGED DL!labelVars
BY DEF Next, Alone, vars, labelsVars, DL!labelVars

\* When it is the turn of a design, it makes the step.
LEMMA LibraryTurn ==
  ASSUME [Next]_vars, turn = "library"
  PROVE  PL!Next \/ UNCHANGED PL!libraryVars
BY DEF Next, Alone, vars, libraryVars, PL!libraryVars

\* When it is the turn of a migration, it makes the step.
LEMMA MigrationTurn ==
  ASSUME [Next]_vars, turn = "migration"
  PROVE  MI!Next \/ UNCHANGED MI!migrationVars
BY DEF Next, Alone, vars, migrationVars, MI!migrationVars

\* When it is the turn of the topics, it makes the step.
LEMMA TopicsTurn ==
  ASSUME [Next]_vars, turn = "topics"
  PROVE  TC!Next \/ UNCHANGED TC!topicVars
BY DEF Next, Alone, vars, topicsVars, TC!topicVars

\* When it is the turn of the collection's health, it makes the step.
LEMMA HealthTurn ==
  ASSUME [Next]_vars, turn = "health"
  PROVE  CH!Next \/ UNCHANGED CH!healthVars
BY DEF Next, Alone, vars, healthVars, CH!healthVars

(* The invariant.                                                          *)

\* The part whose turn it is keeps its invariant; members, the catalogue, retention and the live view
\* begin with theirs.
PartWhole ==
  /\ turn = "writer" => WriterWhole
  /\ turn = "brokers" => BrokersWhole
  /\ turn = "worker" => WorkerWhole
  /\ turn = "events" => EventsWhole
  /\ turn = "detector" => DetectorWhole /\ DetectorCounted
  /\ turn = "alignment" => AlignmentWhole
  /\ turn = "charts" => ChartsWhole
  /\ turn = "alarms" => AlarmsWhole
  /\ turn = "labels" => LabelsWhole
  /\ turn = "library" => LibraryWhole
  /\ turn = "migration" => MigrationWhole
  /\ turn = "topics" => ClaimsWhole
  /\ turn = "health" => HealthWhole
  /\ turn = "release" => ReleaseWhole
  /\ turn = "favorites" => FavoritesWhole
  /\ MembersWhole /\ CatalogueWhole /\ RetentionWhole /\ LiveWhole /\ ViewWhole

\* It is there at the beginning.
LEMMA PartStarts ==
  ASSUME Init
  PROVE  PartWhole
<1>0. RD!ReleaseAssumption BY AdministrationAssumption
<1>1. /\ turn = "writer" => TW!Init
      /\ turn = "brokers" => BS!Init
      /\ turn = "worker" => RW!Init
      /\ turn = "events" => RE!Init
      /\ turn = "detector" => DR!Init
      /\ turn = "charts" => ER!Init
      /\ turn = "alarms" => AL!Init BY DEF Init
<1>2. /\ turn = "labels" => DL!Init
      /\ turn = "library" => PL!Init
      /\ turn = "migration" => MI!Init
      /\ turn = "topics" => TC!Init
      /\ turn = "health" => CH!Init
      /\ turn = "release" => RD!Init
      /\ turn = "favorites" => FV!Init BY DEF Init
<1>3. SA!Init /\ ME!Init /\ CA!Init /\ RT!Init /\ LV!Init BY DEF Init
<1>4. turn = "writer" => WriterWhole BY <1>1, WriterStarts
<1>5. turn = "brokers" => BrokersWhole BY <1>1, BrokersStart
<1>6. turn = "worker" => WorkerWhole BY <1>1, WorkerStarts
<1>7. turn = "events" => EventsWhole BY <1>1, EventsStart
<1>8. turn = "detector" => DetectorWhole /\ DetectorCounted BY <1>1, DetectorStarts, CountersStart
<1>9. turn = "charts" => ChartsWhole BY <1>1, ChartsStart
<1>10. turn = "alarms" => AlarmsWhole BY <1>1, AlarmsStart
<1>11. turn = "labels" => LabelsWhole BY <1>2, LabelsStart
<1>12. turn = "library" => LibraryWhole BY <1>2, LibraryStarts
<1>13. turn = "migration" => MigrationWhole BY <1>2, MigrationStarts
<1>14. turn = "topics" => ClaimsWhole BY <1>2, TopicsStart
<1>15. turn = "health" => HealthWhole BY <1>2, HealthStarts
<1>16. turn = "release" => ReleaseWhole BY <1>0, <1>2, ReleaseStart
<1>17. turn = "favorites" => FavoritesWhole BY <1>2, FavoritesStart
<1>18. AlignmentWhole /\ MembersWhole /\ CatalogueWhole BY <1>3, AlignmentStarts, MembersStart, CatalogueStart
<1>19. RetentionWhole /\ LiveWhole /\ ViewWhole BY <1>3, RetentionStart, LiveStart, ViewStarts
<1> QED
  BY <1>4, <1>5, <1>6, <1>7, <1>8, <1>9, <1>10, <1>11, <1>12, <1>13, <1>14, <1>15, <1>16, <1>17,
     <1>18, <1>19 DEF PartWhole

\* Every step keeps it.
LEMMA PartSteps ==
  ASSUME PartWhole, [Next]_vars
  PROVE  PartWhole'
<1>0. RD!ReleaseAssumption BY AdministrationAssumption
<1>1. turn' = turn BY TurnLasts
<1>2. turn = "writer" => WriterWhole' BY WriterTurn, WriterSteps DEF PartWhole
<1>3. turn = "brokers" => BrokersWhole' BY BrokersTurn, BrokersStep DEF PartWhole
<1>4. turn = "worker" => WorkerWhole' BY WorkerTurn, WorkerSteps DEF PartWhole
<1>5. turn = "events" => EventsWhole' BY EventsTurn, EventsStep DEF PartWhole
<1>6. turn = "detector" => DetectorWhole' BY DetectorTurn, DetectorSteps DEF PartWhole
<1>7. turn = "detector" => DetectorCounted' BY DetectorTurn, DetectorCounts DEF PartWhole
<1>8. turn = "alignment" => AlignmentWhole' BY AlignmentTurn, AlignmentSteps DEF PartWhole
<1>9. turn = "charts" => ChartsWhole' BY ChartsTurn, ChartsStep DEF PartWhole
<1>10. turn = "alarms" => AlarmsWhole' BY AlarmsTurn, AlarmsStep DEF PartWhole
<1>11. turn = "labels" => LabelsWhole' BY LabelsTurn, LabelsStep DEF PartWhole
<1>12. turn = "library" => LibraryWhole' BY LibraryTurn, LibrarySteps DEF PartWhole
<1>13. turn = "migration" => MigrationWhole' BY MigrationTurn, MigrationSteps DEF PartWhole
<1>14. turn = "topics" => ClaimsWhole' BY TopicsTurn, TopicsStep DEF PartWhole
<1>15. turn = "health" => HealthWhole' BY HealthTurn, HealthStep DEF PartWhole
<1>16. turn = "release" => ReleaseWhole' BY <1>0, ReleaseTurn, ReleaseSteps DEF PartWhole
<1>17. turn = "favorites" => FavoritesWhole' BY FavoritesTurn, FavoritesSteps DEF PartWhole
<1>18. MembersWhole' BY MembersTurn, MembersSteps DEF PartWhole
<1>19. CatalogueWhole' BY CatalogueTurn, CatalogueSteps, CatalogueStays DEF PartWhole, CatalogueStep
<1>20. RetentionWhole' BY RetentionTurn, RetentionSteps, RetentionStays DEF PartWhole, RetentionStep
<1>21. LiveWhole' BY LiveTurn, LiveSteps, LiveStays DEF PartWhole, LiveStep, LV!liveVars
<1>22. ViewWhole' BY LiveTurn, ViewSteps DEF PartWhole
<1> QED BY <1>1, <1>2, <1>3, <1>4, <1>5, <1>6, <1>7, <1>8, <1>9, <1>10, <1>11, <1>12, <1>13, <1>14,
     <1>15, <1>16, <1>17, <1>18, <1>19, <1>20, <1>21, <1>22 DEF PartWhole

\* So it always holds.
LEMMA PartKept == Spec => []PartWhole
<1>1. Init => PartWhole BY PartStarts
<1>2. PartWhole /\ [Next]_vars => PartWhole' BY PartSteps
<1> QED BY <1>1, <1>2, PTL DEF Spec

(* The way of a reading.                                                   *)

(* What came in is accounted for: every row of the collector, message and  *)
(* observation of a worker and event of a run is held, stored, or counted  *)
(* among those given up, within the bounds of what holds it; a live page   *)
(* lacks nothing that is current; no row and no alarm falls between the    *)
(* pages of one who reads on; and no change of a design is lost to one who *)
(* has not seen it.                                                        *)
THEOREM NothingEverLost == Spec => []NothingLost
<1>1. PartWhole => NothingLost
  <2> SUFFICES ASSUME PartWhole PROVE NothingLost OBVIOUS
  <2>1. turn = "writer" => TW!WriterTypeOK /\ TW!Accounted /\ TW!Bounded BY WriterPromise DEF PartWhole
  <2>2. turn = "brokers" => BS!SupervisionTypeOK /\ BS!QueueCounted BY BrokersPromise DEF PartWhole
  <2>3. turn = "worker" => RW!WorkerTypeOK /\ RW!EveryMessage /\ RW!EvidenceFirst
    BY WorkerPromise DEF PartWhole
  <2>4. turn = "events" => RE!EventsTypeOK /\ RE!NoEventForgotten /\ RE!WaitingInOrder
    BY EventsPromise DEF PartWhole
  <2>5. turn = "detector" => DR!DetectorTypeOK /\ DR!EveryObservation BY CountsPromise DEF PartWhole
  <2>6. LV!LiveTypeOK /\ LV!ViewComplete BY ViewPromise DEF PartWhole
  <2>7. turn = "charts" => ER!ChartWhole BY ChartsPromise DEF PartWhole
  <2>8. turn = "alarms" => AL!AlarmsListed BY AlarmsPromise DEF PartWhole
  <2>9. turn = "library" => PL!OverWhatWasSeen /\ PL!VersionsTrue /\ PL!PublishedOnce
    BY LibraryPromise DEF PartWhole
  <2> QED BY <2>1, <2>2, <2>3, <2>4, <2>5, <2>6, <2>7, <2>8, <2>9 DEF NothingLost
<1> QED BY <1>1, PartKept, PTL

(* What is shown is true: a broker shown as connected is, none is left to  *)
(* itself, a worker that missed a message shows a gap, one that is shown   *)
(* as healthy has no alert, alarms are counted once, the live view         *)
(* observes what is leased and nothing else, the labels of a dataset lie   *)
(* apart, the pages of a design's revisions are whole, a database that is  *)
(* shown as ready is current, the verdict on the collection is about what  *)
(* is saved and about what is so now, and a reading that is offered has    *)
(* the alarms it is offered with.  What is written down is true as well:   *)
(* the ledger of a database tells its schema, and under the name of a      *)
(* topic a message finds the one reading, of the one monitor, that is      *)
(* meant.                                                                  *)
THEOREM AlwaysShownTruly == Spec => []ShownTruly
<1>1. PartWhole => ShownTruly
  <2> SUFFICES ASSUME PartWhole PROVE ShownTruly OBVIOUS
  <2>1. turn = "brokers" => BS!ShownTruly /\ BS!NoneForgotten BY BrokersPromise DEF PartWhole
  <2>2. turn = "worker" => RW!MissedIsShown BY WorkerPromise DEF PartWhole
  <2>3. RE!ShownHealthy BY HealthyIsShown
  <2>4. turn = "detector" => DR!AlarmsCounted BY CountsPromise DEF PartWhole
  <2>5. LV!LiveTruly /\ LV!WorkersLeased BY ViewPromise DEF PartWhole
  <2>6. turn = "labels" => DL!LabelsApart BY DEF PartWhole, LabelsWhole
  <2>7. turn = "library" => PL!PagesWhole BY LibraryPromise DEF PartWhole, PL!PagesWhole
  <2>8. turn = "migration" => MI!ReadyIsCurrent /\ MI!LedgerTrue /\ MI!RunOnceInOrder
    BY MigrationPromise DEF PartWhole
  <2>9. turn = "topics" => TC!TopicsApart /\ TC!ReadingsFound BY ApartPromise, FoundPromise DEF PartWhole
  <2>10. turn = "health" => CH!VerdictTrue BY VerdictPromise DEF PartWhole
  <2>11. turn = "alarms" => AL!ChoicesTrue BY AlarmsPromise DEF PartWhole
  <2> QED BY <2>1, <2>2, <2>3, <2>4, <2>5, <2>6, <2>7, <2>8, <2>9, <2>10, <2>11 DEF ShownTruly
<1> QED BY <1>1, PartKept, PTL

(* The model of a worker.                                                  *)

(* A baseline is fitted once from the windows it was given, no detector    *)
(* scores before it learned enough, no snapshot holds a state that is      *)
(* uncertain, and none holds a reading newer than what was accepted.       *)
THEOREM ModelAlwaysKept == Spec => []ModelKept
<1>1. PartWhole => ModelKept BY WholeKeepsModel DEF PartWhole, ModelKept, AlignmentWhole
<1> QED BY <1>1, PartKept, PTL

(* The detector is given no reading twice, and time goes forward for every *)
(* sensor from one vector to the next, through a cleanup, late readings    *)
(* and the restart of a snapshot.                                          *)
THEOREM VectorsAlwaysAdvance == Spec => SA!VectorsAdvance
<1>1. PartWhole /\ [Next]_vars => [SA!VectorsGoForward]_(SA!vars)
  <2> SUFFICES ASSUME PartWhole, [Next]_vars PROVE [SA!VectorsGoForward]_(SA!vars) OBVIOUS
  <2>1. CASE turn = "alignment" BY <2>1, AlignmentTurn, AlignmentSteps DEF PartWhole
  <2>2. CASE turn # "alignment" BY <2>2, AlignmentTurn
  <2> QED BY <2>1, <2>2
<1> QED BY <1>1, PartKept, PTL DEF Spec, SA!VectorsAdvance

(* What operators and members change.                                      *)

(* Whatever is killed, repeated or done at once, the system can go on: no  *)
(* monitor is lost in a release or runs beside its replacement, somebody   *)
(* can manage the members, what a monitor reads is recorded as when it     *)
(* started, and what a member keeps is bounded.                            *)
THEOREM AlwaysOperable == Spec => []StaysOperable
<1>0. RD!ReleaseAssumption BY AdministrationAssumption
<1>1. PartWhole => StaysOperable
  <2> SUFFICES ASSUME PartWhole PROVE StaysOperable OBVIOUS
  <2>1. turn = "release" =>
          /\ RD!ReleaseTypeOK /\ RD!NoMonitorLost /\ RD!NeverTogether /\ RD!OneReplacement
          /\ RD!RunsSettled BY <1>0, ReleasePromise DEF PartWhole
  <2>2. ME!MembersTypeOK /\ ME!ManagerKept /\ ME!LinksFit /\ ME!OneInUse BY MembersPromise DEF PartWhole
  <2>3. CA!MonitorsFed /\ CA!RowsAgree BY DEF PartWhole, CatalogueWhole
  <2>4. turn = "favorites" => FV!FewKept BY FavoritesPromise DEF PartWhole
  <2> QED BY <2>1, <2>2, <2>3, <2>4 DEF StaysOperable
<1> QED BY <1>1, PartKept, PTL

(* Who gets other access or another password has to sign in again,         *)
(* whatever request is under way; and what is no longer accepted never is  *)
(* again.                                                                  *)
THEOREM AccessAlwaysEnds == Spec => ME!AccessEnds
<1>1. PartWhole /\ [Next]_vars => [ME!EndsAccess]_(ME!memberVars)
  BY MembersTurn, AccessEndsStep DEF PartWhole
<1> QED BY <1>1, PartKept, PTL DEF Spec, ME!AccessEnds

(* A save of the catalogue records nothing that no member has reviewed,    *)
(* unless a rule includes what comes; and no reading goes to another       *)
(* entity while its device stays.                                          *)
THEOREM ReadingsAlwaysWait == Spec => CA!NewReadingsWait
<1>1. PartWhole /\ [Next]_vars => [CA!Reviewed(runtime.def, runtime'.def)]_(CA!catalogueVars)
  BY CatalogueTurn, CatalogueSteps DEF PartWhole, CatalogueStep
<1> QED BY <1>1, PartKept, PTL DEF Spec, CA!NewReadingsWait

(* Of two changes that waited for monitors to stop, the later does not     *)
(* take the other back.                                                    *)
THEOREM ChangesAlwaysApart == Spec => CA!OneChangeAtATime
<1>1. PartWhole /\ [Next]_vars => [CA!ChangesApart(runtime.def, runtime'.def)]_(CA!catalogueVars)
  BY CatalogueTurn, CatalogueSteps DEF PartWhole, CatalogueStep
<1> QED BY <1>1, PartKept, PTL DEF Spec, CA!OneChangeAtATime

(* Whoever applies the collection is told by its revision that anything    *)
(* about it changed, and by its generation that what is recorded did.      *)
THEOREM RevisionsAlwaysTell == Spec => CA!RevisionsTell
<1>1. PartWhole /\ [Next]_vars => [CA!Revised]_(CA!catalogueVars)
  BY CatalogueTurn, CatalogueSteps DEF PartWhole, CatalogueStep
<1> QED BY <1>1, PartKept, PTL DEF Spec, CA!RevisionsTell

(* What a policy drops is older than its table keeps.  What the cap drops  *)
(* is of days that were over when its run began, was chosen while the      *)
(* tables were over the limit the run began with, and nothing of any table *)
(* that is left when the run commits is older, whatever came meanwhile.    *)
THEOREM OldestAlwaysGoes == Spec => RT!OldestGoes
<1>1. PartWhole /\ [Next]_vars => [RT!Ages]_(RT!retentionVars)
  BY RetentionTurn, RetentionSteps DEF PartWhole, RetentionStep
<1> QED BY <1>1, PartKept, PTL DEF Spec, RT!OldestGoes

(* A run of the cap's job that commits leaves, as it last saw them, tables *)
(* that fit, or only days that were not over when it began, however many   *)
(* days end and whatever becomes of its job during the run.                *)
THEOREM CapAlwaysHolds == Spec => RT!CapHolds
<1>1. PartWhole /\ [Next]_vars => [RT!Capped]_(RT!retentionVars)
  BY RetentionTurn, RetentionSteps DEF PartWhole, RetentionStep
<1> QED BY <1>1, PartKept, PTL DEF Spec, RT!CapHolds

(* After every start, with the same settings or others, each job that the  *)
(* settings ask for is on and keeps what they say, and the schedule an     *)
(* operator gave it is the one it had.                                     *)
THEOREM SchedulesAlwaysKept == Spec => RT!SchedulesKept
<1>1. PartWhole /\ [Next]_vars => [RT!Reapplied]_(RT!retentionVars)
  BY RetentionTurn, RetentionSteps DEF PartWhole, RetentionStep
<1> QED BY <1>1, PartKept, PTL DEF Spec, RT!SchedulesKept

(* A page that polls the live view is told that it missed samples: one     *)
(* that is no longer there is replaced in its second, or no cursor that    *)
(* could have missed it is answered with differences.                      *)
THEOREM GapsAlwaysShown == Spec => LV!GapsShown
<1>1. PartWhole /\ [Next]_vars => [LV!Shows]_(LV!liveVars) BY LiveTurn, LiveSteps DEF PartWhole, LiveStep
<1> QED BY <1>1, PartKept, PTL DEF Spec, LV!GapsShown

(* All of it.                                                              *)

(* No step takes back what a part has told others: time goes forward for a *)
(* detector, a page learns of gaps, access that ended is not had again,    *)
(* only the oldest data is dropped, a start undoes no operator's schedule, *)
(* and no edit of the catalogue records what nobody reviewed, goes         *)
(* unnoticed or takes another one back.                                    *)
THEOREM StepsAlwaysSound == Spec => EveryStepSound
BY VectorsAlwaysAdvance, GapsAlwaysShown, AccessAlwaysEnds, OldestAlwaysGoes, CapAlwaysHolds,
   SchedulesAlwaysKept, ReadingsAlwaysWait, RevisionsAlwaysTell, ChangesAlwaysApart
DEF EveryStepSound
=============================================================================
