-------------------------------- MODULE Alarms --------------------------------
(***************************************************************************)
(* Alarms.  They are stored under the entity and the keys that a monitor   *)
(* or a person recorded them with, and asked for by the readings of the    *)
(* catalogue: newest first, a page at a time, while others are raised and  *)
(* removed.  An answer also offers readings to narrow the question to.     *)
(***************************************************************************)
EXTENDS Integers, FiniteSets

CONSTANTS
  Listable,    \* readings of the catalogue: the entity and the key they record under
  Multi,       \* what stands for the key of an alarm over several readings
  Raisable,    \* what monitors raise alarms about: [entity, key, sensors]
  Question,    \* questions: [scope, reading, since]
  Unlimited,   \* a scope or a reading that a question does not name
  PageLimit, AlarmTimes, MaxAlarms

AlarmsAssumption ==
  /\ {PageLimit, MaxAlarms} \subseteq Nat \ {0} /\ AlarmTimes \subseteq Nat
  /\ \A r \in Listable : r = <<r[1], r[2]>> /\ r[2] # Multi
  /\ Unlimited \notin Listable

VARIABLES
  alarms,      \* alarms with their public ids
  fresh,       \* ids that no alarm had
  removal,     \* the alarm that a request to remove found
  listing      \* pages of one question: [question, began, found, cursor, more]

alarmsVars == <<alarms, fresh, removal, listing>>

None == [id |-> 0]
Unasked == [question |-> None, began |-> {}, found |-> {}, cursor |-> None, more |-> FALSE]

-----------------------------------------------------------------------------
(* What is stored.                                                         *)
\* an alarm about these readings, of one entity, that a person records
Manual(readings) ==
  LET keys == {r[2] : r \in readings}
  IN  [entity |-> (CHOOSE r \in readings : TRUE)[1],
       key |-> IF Cardinality(keys) = 1 THEN CHOOSE k \in keys : TRUE ELSE Multi,
       sensors |-> IF Cardinality(keys) > 1 THEN keys ELSE {}]

Manuals ==
  {Manual(readings) : readings \in
     {s \in SUBSET Listable : s # {} /\ \A r, o \in s : r[1] = o[1]}}

\* the alarm may be there already
Raise ==
  \E manual \in BOOLEAN, time \in AlarmTimes, id \in fresh :
   \E row \in (IF manual THEN Manuals ELSE Raisable) :
    /\ ~ \E a \in alarms : a.time = time /\ a.manual = manual
                           /\ a.row.entity = row.entity /\ a.row.key = row.key
    /\ alarms' = alarms \cup {[id |-> id, time |-> time, manual |-> manual, row |-> row]}
    /\ fresh' = fresh \ {id} /\ UNCHANGED <<removal, listing>>

Find ==
  /\ removal = None /\ \E a \in alarms : removal' = a
  /\ UNCHANGED <<alarms, fresh, listing>>

\* what has the time, the entity, the key and the monitor of what was found
Remove ==
  /\ removal # None /\ removal' = None
  /\ alarms' = {a \in alarms : \/ a.time # removal.time \/ a.manual # removal.manual
                               \/ a.row.entity # removal.row.entity \/ a.row.key # removal.row.key}
  /\ UNCHANGED <<fresh, listing>>

-----------------------------------------------------------------------------
(* What a question selects.                                                *)
Keys(row) == IF row.sensors # {} THEN row.sensors ELSE {row.key}

\* these readings, and the entities whose every reading is among them
Scope(readings) ==
  [pairs |-> readings \cap Listable,
   whole |-> {e \in {r[1] : r \in Listable} : \A r \in Listable : r[1] = e => r \in readings}]

InScope(row, scope) ==
  \/ \E k \in Keys(row) : <<row.entity, k>> \in scope.pairs
  \/ row.key = Multi /\ row.sensors = {} /\ row.entity \in scope.whole

\* as mutated: one reading may be all of its entity
NarrowedToWhole(reading) == Scope({reading})

Narrowed(reading) == [Scope({reading}) EXCEPT !.whole = {}]

Matching(question) ==
  {a \in alarms :
     /\ question.scope = Unlimited \/ InScope(a.row, Scope(question.scope))
     /\ question.reading = Unlimited \/ InScope(a.row, Narrowed(question.reading))
     /\ a.time >= question.since}

\* alarms per reading of a scope, before it is narrowed
Count(scope, reading) ==
  Cardinality({a \in Matching([scope |-> scope, reading |-> Unlimited, since |-> 0]) :
                 a.row.entity = reading[1] /\ reading[2] \in Keys(a.row)})

\* the readings that an alarm is shown with
Shown(row) ==
  {r \in Listable : r[1] = row.entity
                   /\ r[2] \in (IF row.key = Multi THEN row.sensors ELSE Keys(row))}

-----------------------------------------------------------------------------
(* Pages.                                                                  *)
\* as mutated: alarms of one time are not told apart
OlderTime(a, b) == a.time < b.time

Older(a, b) == a.time < b.time \/ (a.time = b.time /\ a.id < b.id)

\* as mutated: a page that is full is taken for the last
MoreThan(rows) == Cardinality(rows) > PageLimit + 1

\* one more than a page is asked for, to see whether there are more
More(rows) == Cardinality(rows) > PageLimit

\* the order of a page
Precedes(a, b) == a.time > b.time \/ (a.time = b.time /\ a.id > b.id)

Newest(rows) == {a \in rows : Cardinality({b \in rows : Precedes(b, a)}) < PageLimit}

Turn(question, rows, began, found) ==
  [question |-> question, began |-> began, found |-> found \cup Newest(rows),
   more |-> More(rows),
   cursor |-> IF More(rows) THEN CHOOSE a \in Newest(rows) : \A b \in Newest(rows) : ~Precedes(a, b)
              ELSE None]

Ask ==
  /\ \E question \in Question :
       listing' = Turn(question, Matching(question), alarms, {})
  /\ UNCHANGED <<alarms, fresh, removal>>

TurnPage ==
  /\ listing.more
  /\ listing' = Turn(listing.question, {a \in Matching(listing.question) : Older(a, listing.cursor)},
                     listing.began, listing.found)
  /\ UNCHANGED <<alarms, fresh, removal>>

Init == alarms = {} /\ fresh = 1 .. MaxAlarms /\ removal = None /\ listing = Unasked

Next == Raise \/ Find \/ Remove \/ Ask \/ TurnPage

Spec == Init /\ [][Next]_alarmsVars

-----------------------------------------------------------------------------
(* An alarm that is there from the question to the last page is on one of  *)
(* the pages, whatever is raised and removed between them                  *)
(* (AnomalyRepository.page, AlarmService.query).                           *)
AlarmsListed ==
  listing # Unasked =>
    \A a \in Matching(listing.question) \cap listing.began :
      a \in listing.found \/ (listing.more /\ Older(a, listing.cursor))

(* A reading that is offered finds as many alarms as it is offered with,   *)
(* and each of them is shown with that reading                             *)
(* (reading_counts, AlarmCatalogue.narrowing, AlarmCatalogue.alarm).       *)
ChoicesTrue ==
  \A scope \in {q.scope : q \in Question}, reading \in Listable :
    LET found == Matching([scope |-> scope, reading |-> reading, since |-> 0])
    IN  Count(scope, reading) = Cardinality(found) /\ \A a \in found : reading \in Shown(a.row)
=============================================================================
