----------------------------- MODULE EvidenceReads -----------------------------
(***************************************************************************)
(* Evidence for charts.  Workers insert the evidence of their observations *)
(* in transactions of their own, and charts read forward from the last row *)
(* they have.  The time of a transaction does not say when it commits, so  *)
(* each insert takes the next time of a shared clock row, which it holds   *)
(* until it commits.                                                       *)
(***************************************************************************)
EXTENDS Integers, FiniteSets

CONSTANTS
  Writer,       \* monitors that write evidence, as numbers
  PageSize,     \* rows of a page
  MaxInstant,   \* the last time of the database's clock
  MaxStored     \* rows that are written

ReadsAssumption == Writer \subseteq Nat /\ {PageSize, MaxInstant, MaxStored} \subseteq Nat \ {0}

VARIABLES
  instant,      \* the clock of the database, which may be set back
  watermark,    \* the row of the shared clock
  inserts,      \* the transaction of each writer
  evidence,     \* rows that are committed
  chart         \* what a chart holds and the last row it read

evidenceVars == <<instant, watermark, inserts, evidence, chart>>

Closed == [phase |-> "none", began |-> 0, stamp |-> 0, rows |-> {}]
NoCursor == [created |-> -1, at |-> 0, service |-> 0, number |-> 0]

-----------------------------------------------------------------------------
(* Writing.                                                                *)
Begin(w) ==
  /\ inserts[w].phase = "none"
  /\ inserts' = [inserts EXCEPT ![w] = [Closed EXCEPT !.phase = "begun", !.began = instant]]
  /\ UNCHANGED <<instant, watermark, evidence, chart>>

\* as mutated: writers do not wait for each other
ClockIsAnyones(w) == inserts[w].phase # "none"

\* the row of the clock is held through commit
ClockFree(w) == \A o \in Writer : inserts[o].phase # "inserted"

\* as mutated: a row is created when its transaction begins
CreatedAtBegin(w) == inserts[w].began

Created(w) == IF instant > watermark + 1 THEN instant ELSE watermark + 1

\* the observations of a batch, or those that a commit of unknown outcome has not stored
Insert(w) ==
  /\ inserts[w].phase = "begun" /\ ClockFree(w)
  /\ LET stored == {r.number : r \in {r \in evidence : r.service = w}}
     IN  \E batch \in SUBSET (1 .. MaxStored) :
           /\ batch \ stored # {} /\ Cardinality(evidence) + Cardinality(batch \ stored) <= MaxStored
           /\ \A n \in batch : n = 1 \/ n - 1 \in batch \cup stored
           /\ \E at \in {0, 1} :
                inserts' = [inserts EXCEPT ![w].phase = "inserted", ![w].stamp = Created(w),
                  ![w].rows = {[created |-> Created(w), at |-> at, service |-> w, number |-> n] :
                                 n \in batch \ stored}]
  /\ UNCHANGED <<instant, watermark, evidence, chart>>

Commit(w) ==
  /\ inserts[w].phase = "inserted"
  /\ evidence' = evidence \cup inserts[w].rows /\ watermark' = inserts[w].stamp
  /\ inserts' = [inserts EXCEPT ![w] = Closed] /\ UNCHANGED <<instant, chart>>

RollBack(w) ==
  /\ inserts[w].phase # "none" /\ inserts' = [inserts EXCEPT ![w] = Closed]
  /\ UNCHANGED <<instant, watermark, evidence, chart>>

SetClock == instant' \in 0 .. MaxInstant \ {instant} /\ UNCHANGED <<watermark, inserts, evidence, chart>>

-----------------------------------------------------------------------------
(* Reading.                                                                *)
\* as mutated: rows of one time are not told apart
AfterItsTime(r, c) == r.created > c.created

After(r, c) ==
  \/ r.created > c.created
  \/ r.created = c.created /\ r.at = c.at /\ r.service > c.service
  \/ r.created = c.created /\ r.at = c.at /\ r.service = c.service /\ r.number > c.number
  \/ r.created = c.created /\ r.at > c.at

\* the order in which rows are read
Order(r) == <<r.created, r.at, r.service, r.number>>

Before(r, o) ==
  \E k \in 1 .. 4 : Order(r)[k] < Order(o)[k] /\ \A j \in 1 .. k - 1 : Order(r)[j] = Order(o)[j]

FirstRows(rows) == {r \in rows : Cardinality({o \in rows : Before(o, r)}) < PageSize}
LastRows(rows) == {r \in rows : Cardinality({o \in rows : Before(r, o)}) < PageSize}

Latest(rows) == CHOOSE r \in rows : \A o \in rows : ~Before(r, o)

\* without a cursor the latest page is read, with one the next
Read ==
  /\ LET page == IF chart.cursor = NoCursor THEN LastRows(evidence)
                 ELSE FirstRows({r \in evidence : After(r, chart.cursor)})
     IN  chart' = [held |-> chart.held \cup page,
                   cursor |-> IF page = {} THEN chart.cursor ELSE Latest(page),
                   from |-> IF chart.cursor = NoCursor THEN page ELSE chart.from]
  /\ UNCHANGED <<instant, watermark, inserts, evidence>>

Init ==
  /\ instant = 0 /\ watermark = 0 /\ inserts = [w \in Writer |-> Closed] /\ evidence = {}
  /\ chart = [held |-> {}, cursor |-> NoCursor, from |-> {}]

Next ==
  \/ \E w \in Writer : Begin(w) \/ Insert(w) \/ Commit(w) \/ RollBack(w)
  \/ Read \/ SetClock

Spec == Init /\ [][Next]_evidenceVars

-----------------------------------------------------------------------------
(* A row that a chart does not hold is older than the first row it read,   *)
(* or a later read finds it: no row falls between two pages, whenever the  *)
(* transactions began and committed, and however the clock is set          *)
(* (off_key_reserve_evidence_time, list_chart).                            *)
ChartWhole ==
  \A r \in evidence \ chart.held :
    chart.from # {} => After(r, chart.cursor) \/ \A o \in chart.from : Before(r, o)
=============================================================================
