------------------------------- MODULE Retention -------------------------------
(***************************************************************************)
(* How long measurements are kept: data older than the configured number   *)
(* of days is dropped, and a job drops the oldest days that are over until *)
(* the tables fit under a cap, while measurements go on arriving.  A start *)
(* reconciles the jobs with the settings; what an operator scheduled stays.*)
(*                                                                         *)
(* A run of the cap's job is one transaction: its day and its limit are    *)
(* those it began with, what it drops is locked until it commits, and is   *)
(* still there when it fails.                                              *)
(***************************************************************************)
EXTENDS Integers, FiniteSets, FiniteSetsExt

CONSTANTS
  Table,        \* RETENTION_TABLES
  Settings,     \* settings: [days, cap], a cap of 0 is none
  Schedule,     \* what an operator schedules a job for
  Default,      \* the schedule a job is made with
  MaxDay,       \* days that pass
  MaxRows,      \* rows that arrive
  MaxTouches    \* times an operator touches a job, or the services start again

RetentionAssumption ==
  MaxDay \in Nat /\ \A s \in Settings : s.days \in Nat \ {0} /\ s.cap \in Nat

VARIABLES
  today,
  rows,      \* how many rows the chunk of each day of each table holds
  jobs,      \* the jobs of the database: retention of a table, and the cap
  capping,   \* the run of the cap's job: the day and limit it began with, what it drops
  settings,
  arrived, touches

retentionVars == <<today, rows, jobs, capping, settings, arrived, touches>>

Days == 0 .. MaxDay
Chunk == Table \X Days
Jobs == Table \cup {"cap"}
NoJob == [there |-> FALSE, scheduled |-> FALSE, schedule |-> Default, limit |-> 0]
Resting == [phase |-> "rest", day |-> 0, limit |-> 0, table |-> "none", before |-> 0, drops |-> {}]
Failed == [Resting EXCEPT !.phase = "failed"]

Held == {c \in Chunk : rows[c] > 0}

\* what the run sees
Left == Held \ capping.drops
Total == FoldSet(LAMBDA c, sum : sum + rows[c], 0, Left)

\* as mutated: the day that is under way counts as over
OverToday(c) == c[2] <= capping.day

\* a chunk ends with its day, which now() of the run's transaction is past or not
Over(c) == c[2] < capping.day
Ended == {c \in Left : Over(c)}

-----------------------------------------------------------------------------
(* Measurements arrive for today, or late for the day before.              *)
Arrive ==
  /\ arrived < MaxRows /\ arrived' = arrived + 1
  /\ \E t \in Table, d \in {today, today - 1} \cap Days :
       /\ <<t, d>> \notin capping.drops
       /\ rows' = [rows EXCEPT ![<<t, d>>] = @ + 1]
  /\ UNCHANGED <<today, jobs, capping, settings, touches>>

Midnight ==
  /\ today < MaxDay /\ today' = today + 1
  /\ UNCHANGED <<rows, jobs, capping, settings, arrived, touches>>

Before(t, day) == {c \in Held : c[1] = t /\ c[2] < day}
Without(gone) == [c \in Chunk |-> IF c \in gone THEN 0 ELSE rows[c]]

\* the policy of a table drops the days that are older than it keeps
Retain(t) ==
  /\ jobs[t].there /\ jobs[t].scheduled
  /\ LET old == Before(t, today - jobs[t].limit)
     IN  old \cap capping.drops = {} /\ rows' = Without(old)
  /\ UNCHANGED <<today, jobs, capping, settings, arrived, touches>>

-----------------------------------------------------------------------------
(* The job of the cap, one turn of its loop at a time.                     *)
\* as mutated: the newest day that is over goes first
Newest(c) == \A other \in Ended : other[2] <= c[2]

\* the chunk that ended first
First(c) == \A other \in Ended : c[2] <= other[2]

Begin ==
  /\ capping.phase \in {"rest", "failed"} /\ jobs["cap"].there /\ jobs["cap"].scheduled
  /\ capping' = [Resting EXCEPT !.phase = "look", !.day = today, !.limit = jobs["cap"].limit]
  /\ UNCHANGED <<today, rows, jobs, settings, arrived, touches>>

Choose ==
  /\ capping.phase = "look" /\ ~ (Total <= capping.limit)
  /\ \E c \in Ended : First(c) /\ capping' = [capping EXCEPT !.phase = "drop", !.table = c[1], !.before = c[2] + 1]
  /\ UNCHANGED <<today, rows, jobs, settings, arrived, touches>>

Drop ==
  /\ capping.phase = "drop"
  /\ capping' = [capping EXCEPT !.phase = "look", !.table = "none", !.before = 0,
                                !.drops = @ \cup Before(capping.table, capping.before)]
  /\ UNCHANGED <<today, rows, jobs, settings, arrived, touches>>

\* the tables fit, or no chunk is found: the run commits
Finish ==
  /\ capping.phase = "look" /\ (Total <= capping.limit \/ Ended = {})
  /\ rows' = Without(capping.drops) /\ capping' = Resting
  /\ UNCHANGED <<today, jobs, settings, arrived, touches>>

\* the run fails, or the database stops
Abandon ==
  /\ capping.phase \in {"look", "drop"} /\ capping' = Failed
  /\ UNCHANGED <<today, rows, jobs, settings, arrived, touches>>

-----------------------------------------------------------------------------
(* The jobs.                                                               *)
Wanted(j, s) == IF j = "cap" THEN s.cap ELSE s.days

\* as mutated: a job that differs is made anew
Replaced(job, j, s) ==
  IF j = "cap" /\ s.cap = 0 THEN NoJob
  ELSE [there |-> TRUE, scheduled |-> TRUE, schedule |-> Default, limit |-> Wanted(j, s)]

\* one job each, with the configured limit, and with the schedule it has
Reconciled(job, j, s) ==
  IF j = "cap" /\ s.cap = 0 THEN NoJob
  ELSE [job EXCEPT !.there = TRUE, !.scheduled = TRUE, !.limit = Wanted(j, s)]

\* a job that is deleted takes its run along
Running == IF capping.phase \in {"look", "drop"} /\ ~jobs'["cap"].there THEN Failed ELSE capping

\* the services start, perhaps with other settings
Start ==
  /\ touches.starts + touches.edits < MaxTouches /\ touches' = [touches EXCEPT !.starts = @ + 1]
  /\ \E s \in Settings : settings' = s /\ jobs' = [j \in Jobs |-> Reconciled(jobs[j], j, s)]
  /\ capping' = Running
  /\ UNCHANGED <<today, rows, arrived>>

\* an operator schedules a job, turns it off, changes what it keeps, or deletes it
Operate ==
  /\ touches.starts + touches.edits < MaxTouches /\ touches' = [touches EXCEPT !.edits = @ + 1]
  /\ \E j \in {j \in Jobs : jobs[j].there} :
       \/ \E s \in Schedule : jobs' = [jobs EXCEPT ![j].schedule = s]
       \/ jobs' = [jobs EXCEPT ![j].scheduled = FALSE]
       \/ \E s \in Settings : jobs' = [jobs EXCEPT ![j].limit = Wanted(j, s)]
       \/ jobs' = [jobs EXCEPT ![j] = NoJob]
  /\ capping' = Running
  /\ UNCHANGED <<today, rows, settings, arrived>>

-----------------------------------------------------------------------------
Init ==
  /\ today = 0 /\ rows = [c \in Chunk |-> 0] /\ capping = Resting
  /\ settings \in Settings /\ jobs = [j \in Jobs |-> Reconciled(NoJob, j, settings)]
  /\ arrived = 0 /\ touches = [starts |-> 0, edits |-> 0]

Next ==
  \/ Arrive \/ Midnight \/ (\E t \in Table : Retain(t))
  \/ Begin \/ Choose \/ Drop \/ Finish \/ Abandon \/ Start \/ Operate

Spec == Init /\ [][Next]_retentionVars

-----------------------------------------------------------------------------
Ages ==
  /\ \A c \in Chunk : rows'[c] < rows[c] =>
       /\ rows'[c] = 0
       /\ IF capping' # capping
          THEN /\ c \in capping.drops /\ c[2] < capping.day /\ capping.day <= today
               /\ \A e \in Held' : c[2] <= e[2]
          ELSE jobs[c[1]].scheduled /\ c[2] < today - jobs[c[1]].limit
  /\ capping.phase = "look" /\ capping'.phase = "drop" => ~ (Total <= capping.limit)

(* What a policy drops is older than its table keeps.  What the cap drops  *)
(* is of days that were over when its run began, nothing of any table that *)
(* is left when the run commits is older, whatever came meanwhile, and it  *)
(* was chosen while the tables were over the limit the run began with      *)
(* (off_key_storage_cap).                                                  *)
OldestGoes == [][Ages]_retentionVars

Capped ==
  capping.phase = "look" /\ capping'.phase = "rest" =>
    Total <= capping.limit \/ \A c \in Held' : c[2] >= capping.day

(* A run of the cap's job that commits leaves, as it last saw them, tables *)
(* that fit, or only days that were not over when it began: however many   *)
(* days end during the run, and whatever an operator or a start makes of   *)
(* its job meanwhile.                                                      *)
CapHolds == [][Capped]_retentionVars

Reapplied ==
  touches'.starts # touches.starts =>
    \A j \in Jobs :
      /\ jobs'[j].there <=> ~ (j = "cap" /\ settings'.cap = 0)
      /\ jobs'[j].there =>
           /\ jobs'[j].schedule = (IF jobs[j].there THEN jobs[j].schedule ELSE Default)
           /\ jobs'[j].scheduled
           /\ jobs'[j].limit = (IF j = "cap" THEN settings'.cap ELSE settings'.days)

(* After every start, with the same settings or others, each job is there  *)
(* that the settings ask for, is on, though an operator turned it off, and *)
(* keeps what they say; the schedule an operator gave it outlives the      *)
(* start (reconcile_retention_policies).                                   *)
SchedulesKept == [][Reapplied]_retentionVars
=============================================================================
