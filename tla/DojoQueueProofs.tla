--------------------------- MODULE DojoQueueProofs ---------------------------
(***************************************************************************)
(* What holds of the Dojo queue for every number of runs, workers, points  *)
(* and faults: its invariant, and that it keeps what RunOutcomes promises. *)
(*                                                                         *)
(* The inductive invariant says for each row, and for each process, what   *)
(* is whole about it.  The lemmas on rows are about values, not states: a  *)
(* transaction changes one row, and the lemma of its kind says what that   *)
(* row is afterwards.                                                      *)
(***************************************************************************)
EXTENDS DojoQueue, TLAPS

USE QueueAssumption

\* What is whole about the row x of run i with the stored numbers s, given the runs that
\* were made and the datasets there are.
RowWhole(x, s, i, made, data) ==
  /\ x \in Row
  /\ s = 1 .. x.results
  /\ x.status \in Active => x.dataset \in data
  /\ i \notin made \/ x.status = "none" => x = NoRow
  /\ x.status = "queued" => x.worker = NoWorker /\ ~x.cancel /\ x.results = 0
  /\ x.status = "succeeded" => ~x.cancel

\* What is whole about the process p of worker w, given the rows.
ProcessWhole(p, w, rows) ==
  /\ p \in Process
  /\ p.pc \in {"replay", "failed"} <=> p.run # 0
  /\ p.run = 0 => p.beat = "none" /\ p.read = 0
  /\ p.sent <= p.read
  /\ p.run # 0 /\ rows[p.run].status = "running" /\ rows[p.run].worker = w
       => /\ p.sent <= rows[p.run].results /\ rows[p.run].results <= p.read
          /\ p.cancel => rows[p.run].cancel

RowsWhole ==
  /\ datasets \subseteq Dataset /\ created \subseteq Run
  /\ run \in [Run -> Row]
  /\ stored \in [Run -> SUBSET (1 .. Points)]
  /\ \A r \in Run : RowWhole(run[r], stored[r], r, created, datasets)

ProcessesWhole ==
  /\ worker \in [Worker -> Process]
  /\ \A w \in Worker : ProcessWhole(worker[w], w, run)

Whole == RowsWhole /\ ProcessesWhole /\ faults \in 0 .. MaxFaults

-----------------------------------------------------------------------------
(* Rows.                                                                   *)

\* What FINISH and RELEASE make of a row is a row.
LEMMA RowEdits ==
  ASSUME NEW x \in Row, NEW st \in Active \cup Ended, NEW w \in Worker \cup {NoWorker},
         NEW n \in 0 .. Points
  PROVE  /\ [x EXCEPT !.status = st, !.results = n, !.fresh = TRUE] \in Row
         /\ [x EXCEPT !.status = st, !.worker = w, !.fresh = FALSE, !.results = n] \in Row
<1>1. [x EXCEPT !.status = st, !.results = n, !.fresh = TRUE] \in Row BY DEF Row
<1>2. [x EXCEPT !.status = st, !.worker = w, !.fresh = FALSE, !.results = n] \in Row BY DEF Row
<1> QED BY <1>1, <1>2

\* A row that is there belongs to a run that was created.
LEMMA RowMade ==
  ASSUME NEW x, NEW s, NEW i, NEW made, NEW data, RowWhole(x, s, i, made, data),
         x.status # "none"
  PROVE  i \in made
BY DEF RowWhole, NoRow

\* A row that is there is changed in few ways, each of which keeps it whole: a heartbeat or
\* its age, a cancellation, a failure, a claim (Cancel, HEARTBEAT, FAIL_STALE, CLAIM).
LEMMA RowMarked ==
  ASSUME NEW x \in Row, NEW s, NEW i, NEW made, NEW data, RowWhole(x, s, i, made, data)
  PROVE  /\ x.status = "running" =>
              /\ \A b \in BOOLEAN : RowWhole([x EXCEPT !.fresh = b], s, i, made, data)
              /\ RowWhole([x EXCEPT !.cancel = TRUE], s, i, made, data)
              /\ RowWhole([x EXCEPT !.status = "failed"], s, i, made, data)
         /\ x.status = "queued" =>
              /\ RowWhole([x EXCEPT !.status = "cancelled"], s, i, made, data)
              /\ \A w \in Worker :
                   RowWhole([x EXCEPT !.status = "running", !.worker = w, !.fresh = TRUE],
                            s, i, made, data)
<1>1. x.status \in {"running", "queued"} => i \in made BY RowMade
<1>2. ASSUME x.status = "running", NEW b \in BOOLEAN
      PROVE  RowWhole([x EXCEPT !.fresh = b], s, i, made, data)
  <2> DEFINE y == [x EXCEPT !.fresh = b]
  <2>1. y \in Row BY DEF Row
  <2>2. y.status = "running" /\ y.results = x.results /\ y.dataset = x.dataset BY <1>2 DEF Row
  <2> QED BY <1>1, <1>2, <2>1, <2>2 DEF RowWhole, Active
<1>3. ASSUME x.status = "running"
      PROVE  RowWhole([x EXCEPT !.cancel = TRUE], s, i, made, data)
  <2> DEFINE y == [x EXCEPT !.cancel = TRUE]
  <2>1. y \in Row BY DEF Row
  <2>2. y.status = "running" /\ y.results = x.results /\ y.dataset = x.dataset BY <1>3 DEF Row
  <2> QED BY <1>1, <1>3, <2>1, <2>2 DEF RowWhole, Active
<1>4. ASSUME NEW st \in {"failed", "cancelled"}, x.status \in {"running", "queued"}
      PROVE  RowWhole([x EXCEPT !.status = st], s, i, made, data)
  <2> DEFINE y == [x EXCEPT !.status = st]
  <2>1. y \in Row BY DEF Row, Ended
  <2>2. y.status = st /\ y.results = x.results BY DEF Row
  <2> QED BY <1>1, <1>4, <2>1, <2>2 DEF RowWhole, Active
<1>5. ASSUME NEW w \in Worker, x.status = "queued"
      PROVE  RowWhole([x EXCEPT !.status = "running", !.worker = w, !.fresh = TRUE],
                      s, i, made, data)
  <2> DEFINE y == [x EXCEPT !.status = "running", !.worker = w, !.fresh = TRUE]
  <2>1. y \in Row BY DEF Row, Active
  <2>2. y.status = "running" /\ y.results = x.results /\ y.dataset = x.dataset BY DEF Row
  <2> QED BY <1>1, <1>5, <2>1, <2>2 DEF RowWhole, Active
<1> QED BY <1>2, <1>3, <1>4, <1>5

\* Storing results up to n, while the run goes on or with its end (PROGRESS, FINISH).
LEMMA RowSaved ==
  ASSUME NEW x \in Row, NEW s, NEW i, NEW made, NEW data, RowWhole(x, s, i, made, data),
         x.status = "running", NEW n \in 0 .. Points, NEW o \in Ended,
         o = "succeeded" => ~x.cancel
  PROVE  /\ RowWhole([x EXCEPT !.results = n, !.fresh = TRUE], 1 .. n, i, made, data)
         /\ RowWhole([x EXCEPT !.status = o, !.results = n, !.fresh = TRUE], 1 .. n, i, made, data)
<1>1. i \in made /\ x.dataset \in data BY RowMade DEF RowWhole, Active
<1>2. RowWhole([x EXCEPT !.results = n, !.fresh = TRUE], 1 .. n, i, made, data)
  <2> DEFINE y == [x EXCEPT !.results = n, !.fresh = TRUE]
  <2>1. y \in Row BY DEF Row
  <2>2. y.status = "running" /\ y.results = n /\ y.dataset = x.dataset BY DEF Row
  <2> QED BY <1>1, <2>1, <2>2 DEF RowWhole, Active
<1>3. RowWhole([x EXCEPT !.status = o, !.results = n, !.fresh = TRUE], 1 .. n, i, made, data)
  <2> DEFINE y == [x EXCEPT !.status = o, !.results = n, !.fresh = TRUE]
  <2>1. y \in Row BY RowEdits
  <2>2. y.status = o /\ y.results = n /\ y.cancel = x.cancel BY DEF Row
  <2> QED BY <1>1, <2>1, <2>2 DEF RowWhole, Active, Ended
<1> QED BY <1>2, <1>3

\* A run given back waits as it was created, or is cancelled (RELEASE).
LEMMA RowReleased ==
  ASSUME NEW x \in Row, NEW s, NEW i, NEW made, NEW data, RowWhole(x, s, i, made, data),
         x.status = "running"
  PROVE  RowWhole([x EXCEPT !.status = IF x.cancel THEN "cancelled" ELSE "queued",
                            !.worker = NoWorker, !.fresh = FALSE, !.results = 0],
                  {}, i, made, data)
<1> DEFINE st == IF x.cancel THEN "cancelled" ELSE "queued"
           y == [x EXCEPT !.status = st, !.worker = NoWorker, !.fresh = FALSE, !.results = 0]
<1>1. i \in made /\ x.dataset \in data BY RowMade DEF RowWhole, Active
<1>2. st \in Active \cup Ended /\ 0 \in 0 .. Points /\ 1 .. 0 = {} BY DEF Active, Ended
<1>3. st = "queued" => ~x.cancel OBVIOUS
<1>4. st = "queued" \/ st = "cancelled" OBVIOUS
<1> HIDE DEF st
<1>5. y \in Row BY <1>2, RowEdits
<1>6. /\ y.status = st /\ y.worker = NoWorker /\ y.results = 0
      /\ y.dataset = x.dataset /\ y.cancel = x.cancel BY DEF Row
<1>7. RowWhole(y, {}, i, made, data) BY <1>1, <1>2, <1>3, <1>4, <1>5, <1>6 DEF RowWhole, Active
<1> QED BY <1>7 DEF st

\* The rows of nobody's run and of a new one (Create, Remove).
LEMMA RowNew ==
  ASSUME NEW i, NEW made, NEW data, NEW d \in data, data \subseteq Dataset, i \in made
  PROVE  /\ RowWhole(NoRow, {}, i, made, data)
         /\ RowWhole([NoRow EXCEPT !.status = "queued", !.dataset = d], {}, i, made, data)
<1>1. 1 .. 0 = {} /\ 0 \in 0 .. Points OBVIOUS
<1> QED BY <1>1 DEF RowWhole, Row, Active, Ended, NoRow

-----------------------------------------------------------------------------
(* Steps on one row and on one process.                                    *)

\* What a step may do to a row for the process v that may hold it: nothing but let go.
Kept(v) ==
  \A r \in Run : run'[r].status = "running" /\ run'[r].worker = v =>
                   /\ run[r].status = "running" /\ run[r].worker = v
                   /\ run'[r].results = run[r].results
                   /\ run[r].cancel => run'[r].cancel

\* A transaction that changes one row leaves the rows whole if it leaves that row whole.
LEMMA OneRow ==
  ASSUME RowsWhole, NEW r \in Run, NEW y, NEW s,
         run' = [run EXCEPT ![r] = y], stored' = [stored EXCEPT ![r] = s],
         datasets' = datasets, created' = created,
         RowWhole(y, s, r, created, datasets)
  PROVE  RowsWhole'
<1>1. y \in Row /\ s \in SUBSET (1 .. Points)
  <2>1. y \in Row /\ s = 1 .. y.results BY DEF RowWhole
  <2>2. y.results \in 0 .. Points BY <2>1 DEF Row
  <2> QED BY <2>1, <2>2
<1>2. run' \in [Run -> Row] /\ stored' \in [Run -> SUBSET (1 .. Points)] BY <1>1 DEF RowsWhole
<1>3. ASSUME NEW q \in Run
      PROVE  RowWhole(run'[q], stored'[q], q, created, datasets) BY DEF RowsWhole
<1> QED BY <1>2, <1>3 DEF RowsWhole

\* The same when the stored results stay.
LEMMA OneRowMarked ==
  ASSUME RowsWhole, NEW r \in Run, NEW y,
         run' = [run EXCEPT ![r] = y], stored' = stored,
         datasets' = datasets, created' = created,
         RowWhole(y, stored[r], r, created, datasets)
  PROVE  RowsWhole'
<1>1. stored' = [stored EXCEPT ![r] = stored[r]] BY DEF RowsWhole
<1> QED BY <1>1, OneRow

\* A process whose row nobody else touched stays whole.
LEMMA KeptWhole ==
  ASSUME ProcessesWhole, NEW v \in Worker, Kept(v)
  PROVE  ProcessWhole(worker[v], v, run')
<1>1. worker[v].run \in Run \cup {0} BY DEF ProcessesWhole, Process
<1> QED BY <1>1 DEF ProcessesWhole, ProcessWhole, Kept

\* A step of process w, to p, keeps the processes whole.
LEMMA OneProcess ==
  ASSUME ProcessesWhole, NEW w \in Worker, NEW p, worker' = [worker EXCEPT ![w] = p],
         ProcessWhole(p, w, run'), \A v \in Worker \ {w} : Kept(v)
  PROVE  ProcessesWhole'
<1>1. p \in Process BY DEF ProcessWhole
<1>2. worker' \in [Worker -> Process] BY <1>1 DEF ProcessesWhole
<1>3. ASSUME NEW v \in Worker PROVE ProcessWhole(worker'[v], v, run') BY KeptWhole DEF ProcessesWhole
<1> QED BY <1>2, <1>3 DEF ProcessesWhole

\* A step of no process keeps them whole if it keeps to the rows.
LEMMA NoProcess ==
  ASSUME ProcessesWhole, worker' = worker, \A v \in Worker : Kept(v)
  PROVE  ProcessesWhole'
BY KeptWhole DEF ProcessesWhole

\* A step that leaves the rows alone keeps to them.
LEMMA RowsAlone ==
  ASSUME UNCHANGED <<datasets, run, stored, created>>, RowsWhole
  PROVE  RowsWhole' /\ \A v \in Worker : Kept(v)
BY DEF RowsWhole, Kept

\* A process without a run is whole.
LEMMA LeftWhole ==
  ASSUME NEW w \in Worker, NEW rows, NEW b \in BOOLEAN
  PROVE  /\ ProcessWhole([Idle EXCEPT !.stopping = b], w, rows)
         /\ ProcessWhole(Idle, w, rows) /\ ProcessWhole(Down, w, rows)
<1>1. 0 \in 0 .. Points OBVIOUS
<1>2. Idle \in Process BY <1>1 DEF Process, Idle
<1>3. /\ Idle.pc = "poll" /\ Idle.run = 0 /\ Idle.beat = "none"
      /\ Idle.read = 0 /\ Idle.sent = 0 BY DEF Idle
<1> DEFINE y == [Idle EXCEPT !.stopping = b]
<1>4. /\ y \in Process /\ y.pc = "poll" /\ y.run = 0 /\ y.beat = "none"
      /\ y.read = 0 /\ y.sent = 0 BY <1>2, <1>3 DEF Process
<1>5. /\ Down \in Process /\ Down.pc = "down" /\ Down.run = 0 /\ Down.beat = "none"
      /\ Down.read = 0 /\ Down.sent = 0 BY <1>2, <1>3 DEF Process, Down
<1> HIDE DEF y
<1>6. ProcessWhole(y, w, rows) BY <1>4 DEF ProcessWhole
<1>7. ProcessWhole(Idle, w, rows) BY <1>2, <1>3 DEF ProcessWhole
<1>8. ProcessWhole(Down, w, rows) BY <1>5 DEF ProcessWhole
<1> QED BY <1>6, <1>7, <1>8 DEF y

-----------------------------------------------------------------------------
(* What a worker's transactions do (PROGRESS, FINISH, RELEASE).            *)

\* A process that owns its run knows how many results are stored: with what is pending they
\* are all that it read.
LEMMA Owner ==
  ASSUME Whole, NEW w \in Worker, Owns(w)
  PROVE  /\ worker[w].run \in Run /\ worker[w] \in Process
         /\ run[worker[w].run] \in Row
         /\ run[worker[w].run].status = "running" /\ run[worker[w].run].worker = w
         /\ worker[w].read \in 0 .. Points
         /\ stored[worker[w].run] \cup Pending(worker[w]) = 1 .. worker[w].read
<1> DEFINE p == worker[w]
           r == p.run
<1>1. p \in Process /\ r \in Run /\ run[r].status = "running" /\ run[r].worker = w
  BY DEF Whole, ProcessesWhole, Process, Owns
<1>2. run[r] \in Row /\ stored[r] = 1 .. run[r].results BY <1>1 DEF Whole, RowsWhole, RowWhole
<1>3. p.sent <= run[r].results /\ run[r].results <= p.read
  BY <1>1 DEF Whole, ProcessesWhole, ProcessWhole, Owns
<1>4. p.sent \in 0 .. Points /\ p.read \in 0 .. Points /\ run[r].results \in 0 .. Points
  BY <1>1, <1>2 DEF Process, Row
<1>5. 1 .. run[r].results \cup (p.sent + 1 .. p.read) = 1 .. p.read BY <1>3, <1>4
<1> QED BY <1>1, <1>2, <1>4, <1>5 DEF Pending

\* Nobody but its process holds a run, so a change of the row by that process leaves the
\* others theirs.
LEMMA OthersKept ==
  ASSUME RowsWhole, NEW w \in Worker, NEW r \in Run, run[r].worker = w, NEW y \in Row,
         run' = [run EXCEPT ![r] = y], y.worker \in {w, NoWorker}
  PROVE  \A v \in Worker \ {w} : Kept(v)
BY DEF RowsWhole, Kept

\* PROGRESS stores what is pending and leaves the row whole and the others theirs.
LEMMA SavedWhole ==
  ASSUME Whole, NEW w \in Worker, Owns(w), Saved(w), UNCHANGED <<datasets, created>>
  PROVE  /\ RowsWhole'
         /\ \A v \in Worker \ {w} : Kept(v)
         /\ run'[worker[w].run].results = worker[w].read
         /\ run'[worker[w].run].cancel = run[worker[w].run].cancel
<1> DEFINE p == worker[w]
           r == p.run
           y == [run[r] EXCEPT !.results = p.read, !.fresh = TRUE]
<1>1. /\ r \in Run /\ run[r] \in Row /\ run[r].status = "running" /\ run[r].worker = w
      /\ p.read \in 0 .. Points /\ stored[r] \cup Pending(p) = 1 .. p.read BY Owner
<1>2. run' = [run EXCEPT ![r] = y] /\ stored' = [stored EXCEPT ![r] = 1 .. p.read]
  BY <1>1 DEF Saved, Whole, RowsWhole
<1>3. RowWhole(y, 1 .. p.read, r, created, datasets)
  <2>1. RowWhole(run[r], stored[r], r, created, datasets) BY <1>1 DEF Whole, RowsWhole
  <2>2. "failed" \in Ended BY DEF Ended
  <2> QED BY <1>1, <2>1, <2>2, RowSaved
<1>4. y \in Row /\ y.worker = w /\ y.results = p.read /\ y.cancel = run[r].cancel
  <2>1. y \in Row BY <1>3 DEF RowWhole
  <2> QED BY <1>1, <2>1 DEF Row
<1> HIDE DEF y
<1>5. RowsWhole' BY <1>1, <1>2, <1>3, OneRow DEF Whole
<1>6. \A v \in Worker \ {w} : Kept(v) BY <1>1, <1>2, <1>4, OthersKept DEF Whole
<1> QED BY <1>1, <1>2, <1>4, <1>5, <1>6 DEF Whole, RowsWhole

\* FINISH ends the run, with all its results, unless it is not this worker's any more.
LEMMA FinishedWhole ==
  ASSUME Whole, NEW w \in Worker, NEW o \in Ended, Finished(w, o),
         UNCHANGED <<datasets, created>>
  PROVE  RowsWhole' /\ \A v \in Worker \ {w} : Kept(v)
<1>1. CASE UNCHANGED <<run, stored>> BY <1>1, RowsAlone DEF Whole
<1>2. CASE Owns(w) /\ ~UNCHANGED <<run, stored>>
  <2> DEFINE p == worker[w]
             r == p.run
             e == Outcome(w, o)
             y == [run[r] EXCEPT !.status = e, !.results = p.read, !.fresh = TRUE]
  <2>1. /\ r \in Run /\ run[r] \in Row /\ run[r].status = "running" /\ run[r].worker = w
        /\ p.read \in 0 .. Points /\ stored[r] \cup Pending(p) = 1 .. p.read BY <1>2, Owner
  <2>2. run' = [run EXCEPT ![r] = y] /\ stored' = [stored EXCEPT ![r] = 1 .. p.read]
    BY <1>2, <2>1 DEF Finished, Whole, RowsWhole
  <2>3. e \in Ended /\ (e = "succeeded" => ~run[r].cancel) BY DEF Outcome, Ended
  <2>4. RowWhole(run[r], stored[r], r, created, datasets) BY <2>1 DEF Whole, RowsWhole
  <2> HIDE DEF e
  <2>5. RowWhole(y, 1 .. p.read, r, created, datasets) BY <2>1, <2>3, <2>4, RowSaved
  <2>6. y \in Row /\ y.worker = w
    <3>1. y \in Row BY <2>5 DEF RowWhole
    <3> QED BY <2>1, <3>1 DEF Row
  <2> HIDE DEF y
  <2>7. RowsWhole' BY <2>1, <2>2, <2>5, OneRow DEF Whole
  <2>8. \A v \in Worker \ {w} : Kept(v) BY <2>1, <2>2, <2>6, OthersKept DEF Whole
  <2> QED BY <2>7, <2>8
<1> QED BY <1>1, <1>2 DEF Finished

\* RELEASE puts the run back without results, or ends it as cancelled.
LEMMA ReleasedWhole ==
  ASSUME Whole, NEW w \in Worker, Released(w), UNCHANGED <<datasets, created>>
  PROVE  RowsWhole' /\ \A v \in Worker \ {w} : Kept(v)
<1>1. CASE UNCHANGED <<run, stored>> BY <1>1, RowsAlone DEF Whole
<1>2. CASE Owns(w) /\ ~UNCHANGED <<run, stored>>
  <2> DEFINE r == worker[w].run
             y == [run[r] EXCEPT !.status = IF run[r].cancel THEN "cancelled" ELSE "queued",
                                 !.worker = NoWorker, !.fresh = FALSE, !.results = 0]
  <2>1. r \in Run /\ run[r] \in Row /\ run[r].status = "running" /\ run[r].worker = w BY <1>2, Owner
  <2>2. run' = [run EXCEPT ![r] = y] /\ stored' = [stored EXCEPT ![r] = {}]
    BY <1>2, <2>1 DEF Released, Whole, RowsWhole
  <2>3. RowWhole(run[r], stored[r], r, created, datasets) BY <2>1 DEF Whole, RowsWhole
  <2>4. RowWhole(y, {}, r, created, datasets) BY <2>1, <2>3, RowReleased
  <2>5. y \in Row /\ y.worker = NoWorker
    <3>1. y \in Row BY <2>4 DEF RowWhole
    <3> QED BY <2>1, <3>1 DEF Row
  <2> HIDE DEF y
  <2>6. RowsWhole' BY <2>1, <2>2, <2>4, OneRow DEF Whole
  <2>7. \A v \in Worker \ {w} : Kept(v) BY <2>1, <2>2, <2>5, OthersKept DEF Whole
  <2> QED BY <2>6, <2>7
<1> QED BY <1>1, <1>2 DEF Released

-----------------------------------------------------------------------------
(* Every step keeps everything whole.                                      *)

\* Requests of members (Create, Cancel, Remove, RemoveDataset).
LEMMA MemberWhole ==
  ASSUME Whole, Member
  PROVE  Whole'
<1> USE DEF Whole
<1>1. ASSUME NEW r \in Run, NEW d \in Dataset, Create(r, d)
      PROVE  RowsWhole' /\ \A v \in Worker : Kept(v)
  <2> DEFINE y == [NoRow EXCEPT !.status = "queued", !.dataset = d]
  <2>1. r \notin created BY <1>1 DEF Create
  <2>2. stored[r] = {} /\ run[r] = NoRow
    <3>1. run[r] = NoRow /\ stored[r] = 1 .. NoRow.results BY <2>1 DEF RowsWhole, RowWhole
    <3>2. NoRow.results = 0 /\ 1 .. 0 = {} BY DEF NoRow
    <3> QED BY <3>1, <3>2
  <2>3. /\ run' = [run EXCEPT ![r] = y] /\ stored' = stored /\ datasets' = datasets
        /\ created' = created \cup {r} /\ d \in datasets BY <1>1 DEF Create
  <2>4. RowWhole(y, {}, r, created', datasets) BY <2>3, RowNew DEF RowsWhole
  <2>5. y \in Row /\ y.status = "queued"
    <3>1. y \in Row BY <2>4 DEF RowWhole
    <3> QED BY <3>1 DEF NoRow
  <2> HIDE DEF y
  <2>6. run' \in [Run -> Row] BY <2>3, <2>5 DEF RowsWhole
  <2>7. ASSUME NEW q \in Run PROVE RowWhole(run'[q], stored'[q], q, created', datasets')
    <3>1. CASE q = r BY <2>2, <2>3, <2>4, <3>1 DEF RowsWhole
    <3>2. CASE q # r
      <4>1. RowWhole(run[q], stored[q], q, created, datasets) BY DEF RowsWhole
      <4>2. run'[q] = run[q] /\ stored'[q] = stored[q] BY <2>3, <3>2 DEF RowsWhole
      <4> QED BY <2>3, <4>1, <4>2, <3>2 DEF RowWhole
    <3> QED BY <3>1, <3>2
  <2>8. \A v \in Worker : Kept(v) BY <2>3, <2>5 DEF Kept, RowsWhole
  <2> QED BY <2>3, <2>6, <2>7, <2>8 DEF RowsWhole
<1>2. ASSUME NEW r \in Run, Cancel(r)
      PROVE  RowsWhole' /\ \A v \in Worker : Kept(v)
  <2>1. /\ run[r].status \in {"queued", "running"} /\ run[r] \in Row
        /\ RowWhole(run[r], stored[r], r, created, datasets) BY <1>2 DEF Cancel, Active, RowsWhole
  <2>2. PICK y : /\ run' = [run EXCEPT ![r] = y]
                 /\ y = IF run[r].status = "queued" THEN [run[r] EXCEPT !.status = "cancelled"]
                                                    ELSE [run[r] EXCEPT !.cancel = TRUE] BY <1>2 DEF Cancel
  <2>3. RowWhole(y, stored[r], r, created, datasets) BY <2>1, <2>2, RowMarked
  <2>4. /\ y.status \in {"cancelled", run[r].status}
        /\ y.worker = run[r].worker /\ y.results = run[r].results
        /\ run[r].cancel => y.cancel BY <2>1, <2>2 DEF Row
  <2>5. RowsWhole' BY <1>2, <2>2, <2>3, OneRowMarked DEF Cancel
  <2>6. \A v \in Worker : Kept(v) BY <2>2, <2>4 DEF Kept, RowsWhole
  <2> QED BY <2>5, <2>6
<1>3. ASSUME NEW r \in Run, Remove(r)
      PROVE  RowsWhole' /\ \A v \in Worker : Kept(v)
  <2>1. RowWhole(NoRow, {}, r, created, datasets)
    <3>1. 1 .. 0 = {} /\ 0 \in 0 .. Points OBVIOUS
    <3> QED BY <3>1 DEF RowWhole, Row, Active, NoRow
  <2>2. RowsWhole' BY <1>3, <2>1, OneRow DEF Remove
  <2>3. NoRow.status = "none" BY DEF NoRow
  <2>4. \A v \in Worker : Kept(v) BY <1>3, <2>3 DEF Remove, Kept, RowsWhole
  <2> QED BY <2>2, <2>4
<1>4. ASSUME NEW d \in Dataset, RemoveDataset(d)
      PROVE  RowsWhole' /\ \A v \in Worker : Kept(v)
  <2> DEFINE of == {r \in Run : run[r].dataset = d}
  <2>1. /\ run' = [r \in Run |-> IF r \in of THEN NoRow ELSE run[r]]
        /\ stored' = [r \in Run |-> IF r \in of THEN {} ELSE stored[r]]
        /\ datasets' = datasets \ {d} /\ created' = created
        /\ of \cap ActiveRuns = {} BY <1>4 DEF RemoveDataset
  <2>2. NoRow \in Row /\ NoRow.status = "none" /\ NoRow.results = 0 /\ 1 .. 0 = {}
    <3>1. 0 \in 0 .. Points /\ 1 .. 0 = {} OBVIOUS
    <3> QED BY <3>1 DEF Row, NoRow
  <2>3. run' \in [Run -> Row] /\ stored' \in [Run -> SUBSET (1 .. Points)] BY <2>1, <2>2 DEF RowsWhole
  <2>4. ASSUME NEW r \in Run PROVE RowWhole(run'[r], stored'[r], r, created', datasets')
    <3>1. CASE r \in of
      <4>1. run'[r] = NoRow /\ stored'[r] = {} BY <2>1, <3>1
      <4> QED BY <2>2, <4>1 DEF RowWhole, Active
    <3>2. CASE r \notin of
      <4>1. run'[r] = run[r] /\ stored'[r] = stored[r] /\ run[r].dataset # d BY <2>1, <3>2
      <4>2. RowWhole(run[r], stored[r], r, created, datasets) BY DEF RowsWhole
      <4> QED BY <2>1, <4>1, <4>2 DEF RowWhole
    <3> QED BY <3>1, <3>2
  <2>5. \A v \in Worker : Kept(v) BY <2>1, <2>2 DEF Kept
  <2> QED BY <2>1, <2>3, <2>4, <2>5 DEF RowsWhole
<1>5. worker' = worker /\ faults' = faults BY DEF Member, Create, Cancel, Remove, RemoveDataset
<1>6. RowsWhole' /\ \A v \in Worker : Kept(v) BY <1>1, <1>2, <1>3, <1>4 DEF Member
<1> QED BY <1>5, <1>6, NoProcess

\* FAIL_STALE: rows that are failed keep their results and no process holds them any more.
LEMMA StaleFailed ==
  ASSUME RowsWhole
  PROVE  /\ FailStale \in [Run -> Row]
         /\ \A r \in Run : RowWhole(FailStale[r], stored[r], r, created, datasets)
         /\ \A r \in Run : FailStale[r] = run[r] \/ FailStale[r].status = "failed"
         /\ \A r \in Run : run[r].status = "queued" => FailStale[r] = run[r]
<1>1. ASSUME NEW r \in Run
      PROVE  /\ FailStale[r] \in Row
             /\ RowWhole(FailStale[r], stored[r], r, created, datasets)
             /\ FailStale[r] = run[r] \/ FailStale[r].status = "failed"
             /\ run[r].status = "queued" => FailStale[r] = run[r]
  <2>1. run[r] \in Row /\ RowWhole(run[r], stored[r], r, created, datasets) BY DEF RowsWhole
  <2>2. CASE run[r].status = "running" /\ ~run[r].fresh
    <3>1. FailStale[r] = [run[r] EXCEPT !.status = "failed"] BY <2>2 DEF FailStale
    <3>2. RowWhole([run[r] EXCEPT !.status = "failed"], stored[r], r, created, datasets)
      BY <2>1, <2>2, RowMarked
    <3>3. FailStale[r].status = "failed" BY <2>1, <3>1 DEF Row
    <3> QED BY <2>2, <3>1, <3>2, <3>3 DEF RowWhole
  <2>3. CASE ~(run[r].status = "running" /\ ~run[r].fresh)
    <3>1. FailStale[r] = run[r] BY <2>3 DEF FailStale
    <3> QED BY <2>1, <3>1
  <2> QED BY <2>2, <2>3
<1>2. FailStale \in [Run -> Row] BY <1>1 DEF FailStale
<1> QED BY <1>1, <1>2

\* What a step of worker w comes to: the rows are whole, the other processes keep theirs,
\* and w is whole in what it became.
StepWhole(w) ==
  /\ RowsWhole'
  /\ \A v \in Worker \ {w} : Kept(v)
  /\ \E p \in Process : worker' = [worker EXCEPT ![w] = p] /\ ProcessWhole(p, w, run')
  /\ faults' \in 0 .. MaxFaults

\* Such a step keeps everything whole.
LEMMA StepKeepsWhole ==
  ASSUME Whole, NEW w \in Worker, StepWhole(w)
  PROVE  Whole'
BY OneProcess DEF Whole, StepWhole

\* A process that is left without a run, or ends, is whole.
LEMMA Leaves ==
  ASSUME Whole, NEW w \in Worker
  PROVE  /\ Leave(worker[w]) \in Process /\ ProcessWhole(Leave(worker[w]), w, run')
         /\ Idle \in Process /\ ProcessWhole(Idle, w, run')
         /\ Down \in Process /\ ProcessWhole(Down, w, run')
<1>1. worker[w].stopping \in BOOLEAN BY DEF Whole, ProcessesWhole, Process
<1>2. /\ ProcessWhole([Idle EXCEPT !.stopping = worker[w].stopping], w, run')
      /\ ProcessWhole(Idle, w, run') /\ ProcessWhole(Down, w, run') BY <1>1, LeftWhole
<1> QED BY <1>2 DEF Leave, ProcessWhole

\* A fault is one of those allowed.
LEMMA FaultCounted ==
  ASSUME Whole, Fault \/ faults' = faults
  PROVE  faults' \in 0 .. MaxFaults
BY DEF Whole, Fault

\* A process that keeps its run and its numbers is whole when the rows stay.
LEMMA SameNumbers ==
  ASSUME Whole, NEW w \in Worker, NEW q \in Process, run' = run,
         q.run = worker[w].run, q.read = worker[w].read, q.sent = worker[w].sent,
         q.cancel = worker[w].cancel,
         q.pc \in {"replay", "failed"} <=> worker[w].pc \in {"replay", "failed"},
         q.run = 0 => q.beat = "none"
  PROVE  ProcessWhole(q, w, run')
BY DEF Whole, ProcessesWhole, ProcessWhole

\* Claims and polls (CLAIM with FAIL_STALE before it).
LEMMA ClaimWhole ==
  ASSUME Whole, NEW w \in Worker, Claim(w)
  PROVE  StepWhole(w)
<1>1. PICK r \in Run :
        /\ run[r].status = "queued"
        /\ run' = [FailStale EXCEPT ![r].status = "running", ![r].worker = w, ![r].fresh = TRUE]
        /\ Set(w, [Idle EXCEPT !.pc = "replay", !.run = r, !.beat = "beating"]) BY DEF Claim
<1> DEFINE y == [run[r] EXCEPT !.status = "running", !.worker = w, !.fresh = TRUE]
           p == [Idle EXCEPT !.pc = "replay", !.run = r, !.beat = "beating"]
<1>2. FailStale[r] = run[r] /\ FailStale \in [Run -> Row] BY <1>1, StaleFailed DEF Whole
<1>3. run' = [FailStale EXCEPT ![r] = y] BY <1>1, <1>2
<1>4. RowWhole(y, stored[r], r, created, datasets) /\ run[r] \in Row
  <2>1. run[r] \in Row /\ RowWhole(run[r], stored[r], r, created, datasets) BY DEF Whole, RowsWhole
  <2> QED BY <1>1, <2>1, RowMarked
<1>5. y \in Row /\ y.status = "running" /\ y.worker = w /\ y.results = run[r].results
  <2>1. y \in Row BY <1>4 DEF RowWhole
  <2> QED BY <1>4, <2>1 DEF Row
<1> HIDE DEF y
<1>6. UNCHANGED <<datasets, stored, created, faults>> BY DEF Claim
<1>7. RowsWhole'
  <2>1. run' \in [Run -> Row] BY <1>2, <1>3, <1>5
  <2>2. ASSUME NEW q \in Run PROVE RowWhole(run'[q], stored[q], q, created, datasets)
    <3>1. CASE q = r BY <1>2, <1>3, <1>4, <3>1
    <3>2. CASE q # r
      <4>1. run'[q] = FailStale[q] BY <1>2, <1>3, <3>2
      <4>2. RowWhole(FailStale[q], stored[q], q, created, datasets) BY StaleFailed DEF Whole
      <4> QED BY <4>1, <4>2
    <3> QED BY <3>1, <3>2
  <2> QED BY <1>6, <2>1, <2>2 DEF Whole, RowsWhole
<1>8. \A v \in Worker \ {w} : Kept(v)
  <2>1. \A q \in Run : q # r => run'[q] = run[q] \/ run'[q].status = "failed"
    <3>1. \A q \in Run : FailStale[q] = run[q] \/ FailStale[q].status = "failed" BY StaleFailed DEF Whole
    <3> QED BY <1>2, <1>3, <3>1
  <2>2. run'[r].worker = w BY <1>2, <1>3, <1>5
  <2> QED BY <2>1, <2>2 DEF Kept
<1>9. ProcessWhole(p, w, run') /\ p \in Process
  <2>1. 0 \in 0 .. Points /\ 0 <= 0 /\ r # 0 BY QueueAssumption
  <2>2. Idle \in Process BY Leaves DEF Whole
  <2>3. p \in Process BY <2>2 DEF Process
  <2>4. /\ p.pc = "replay" /\ p.run = r /\ p.read = 0 /\ p.sent = 0 /\ p.cancel = FALSE BY DEF Idle
  <2>5. run'[r].results = 0
    <3>1. run[r].results = 0 BY <1>1 DEF Whole, RowsWhole, RowWhole
    <3> QED BY <1>2, <1>3, <1>5, <3>1
  <2> HIDE DEF p
  <2> QED BY <2>1, <2>3, <2>4, <2>5 DEF ProcessWhole
<1> HIDE DEF p
<1>10. worker' = [worker EXCEPT ![w] = p] BY <1>1 DEF Set, p
<1> QED BY <1>6, <1>7, <1>8, <1>9, <1>10 DEF StepWhole, Whole

\* A poll of an empty queue.
LEMMA PollWhole ==
  ASSUME Whole, NEW w \in Worker, Poll(w)
  PROVE  Whole'
<1>1. run' = FailStale /\ UNCHANGED <<datasets, stored, worker, created, faults>> BY DEF Poll
<1>2. RowsWhole' BY <1>1, StaleFailed DEF Whole, RowsWhole
<1>3. \A v \in Worker : Kept(v)
  <2>1. \A q \in Run : FailStale[q] = run[q] \/ FailStale[q].status = "failed" BY StaleFailed DEF Whole
  <2> QED BY <1>1, <2>1 DEF Kept
<1> QED BY <1>1, <1>2, <1>3, NoProcess DEF Whole

\* The steps of a process that leave the rows alone.
LEMMA InsideWhole ==
  ASSUME Whole, NEW w \in Worker,
         \/ Advance(w) \/ LoseRun(w) \/ ReplayFails(w) \/ KeepAliveFails(w)
         \/ Stop(w) \/ Exit(w) \/ Crash(w) \/ Start(w)
  PROVE  StepWhole(w)
<1> DEFINE p == worker[w]
<1>1. p \in Process /\ ProcessWhole(p, w, run) BY DEF Whole, ProcessesWhole
<1>2. UNCHANGED <<datasets, run, stored, created>> /\ (Fault \/ faults' = faults)
  BY DEF Advance, LoseRun, ReplayFails, KeepAliveFails, Stop, Exit, Crash, Start
<1>3. RowsWhole' /\ (\A v \in Worker \ {w} : Kept(v)) /\ faults' \in 0 .. MaxFaults
  BY <1>2, RowsAlone, FaultCounted DEF Whole
<1>4. SUFFICES \E q \in Process : worker' = [worker EXCEPT ![w] = q] /\ ProcessWhole(q, w, run')
  BY <1>3 DEF StepWhole
<1>5. CASE Advance(w)
  <2> DEFINE q == [p EXCEPT !.read = @ + 1]
  <2>1. worker' = [worker EXCEPT ![w] = q] /\ p.read < Points BY <1>5 DEF Advance, Set, PointsLeft
  <2>2. p.read + 1 \in 0 .. Points /\ p.sent <= p.read + 1 BY <1>1, <2>1 DEF Process, ProcessWhole
  <2>3. q \in Process BY <1>1, <2>2 DEF Process
  <2>4. /\ q.run = p.run /\ q.read = p.read + 1 /\ q.sent = p.sent /\ q.pc = p.pc /\ q.beat = p.beat
        /\ q.cancel = p.cancel BY <1>1 DEF Process
  <2>5. p.pc = "replay" BY <1>5 DEF Advance, GoesOn
  <2> HIDE DEF q
  <2>6. ProcessWhole(q, w, run')
    <3>1. p.run # 0 /\ p.run \in Run BY <1>1, <2>5 DEF ProcessWhole, Process
    <3>2. run[p.run].results \in 0 .. Points BY <3>1 DEF Whole, RowsWhole, Row
    <3>3. p.read \in 0 .. Points BY <1>1 DEF Process
    <3> QED BY <1>1, <1>2, <2>2, <2>3, <2>4, <3>1, <3>2, <3>3 DEF ProcessWhole
  <2> QED BY <2>1, <2>3, <2>6
<1>6. CASE LoseRun(w) \/ ReplayFails(w)
  <2> DEFINE q == [p EXCEPT !.pc = "failed"]
  <2>1. worker' = [worker EXCEPT ![w] = Leave(p)] \/ worker' = [worker EXCEPT ![w] = q]
    BY <1>6 DEF LoseRun, ReplayFails, Set
  <2>2. p.pc = "replay" BY <1>6 DEF LoseRun, ReplayFails, GoesOn
  <2>3. /\ q \in Process /\ q.run = p.run /\ q.read = p.read /\ q.sent = p.sent
        /\ q.pc = "failed" /\ q.beat = p.beat /\ q.cancel = p.cancel BY <1>1 DEF Process
  <2> HIDE DEF q
  <2>4. p.run # 0 BY <1>1, <2>2 DEF ProcessWhole
  <2>5. ProcessWhole(q, w, run') BY <1>2, <2>2, <2>3, <2>4, SameNumbers
  <2> QED BY <2>1, <2>3, <2>5, Leaves
<1>7. CASE KeepAliveFails(w)
  <2> DEFINE q == [p EXCEPT !.beat = "failed"]
  <2>1. worker' = [worker EXCEPT ![w] = q] /\ p.beat = "beating" BY <1>7 DEF KeepAliveFails, Set
  <2>2. /\ q \in Process /\ q.run = p.run /\ q.read = p.read /\ q.sent = p.sent
        /\ q.pc = p.pc /\ p.run # 0 /\ q.cancel = p.cancel BY <1>1, <2>1 DEF Process, ProcessWhole
  <2> HIDE DEF q
  <2>3. ProcessWhole(q, w, run') BY <1>2, <2>2, SameNumbers
  <2> QED BY <2>1, <2>2, <2>3
<1>8. CASE Stop(w)
  <2> DEFINE q == [p EXCEPT !.stopping = TRUE]
  <2>1. worker' = [worker EXCEPT ![w] = q] BY <1>8 DEF Stop, Set
  <2>2. /\ q \in Process /\ q.run = p.run /\ q.read = p.read /\ q.sent = p.sent
        /\ q.pc = p.pc /\ q.beat = p.beat /\ q.cancel = p.cancel BY <1>1 DEF Process
  <2> HIDE DEF q
  <2>3. p.run = 0 => p.beat = "none" BY <1>1 DEF ProcessWhole
  <2>4. ProcessWhole(q, w, run') BY <1>2, <2>2, <2>3, SameNumbers
  <2> QED BY <2>1, <2>2, <2>4
<1>9. CASE Exit(w) \/ Crash(w) \/ Start(w)
  <2>1. worker' = [worker EXCEPT ![w] = Down] \/ worker' = [worker EXCEPT ![w] = Idle]
    BY <1>9 DEF Exit, Crash, Start, Set
  <2> QED BY <2>1, Leaves
<1> QED BY <1>5, <1>6, <1>7, <1>8, <1>9

\* Finish, ReportFailure and Release: the transaction, and what the process is afterwards.
LEMMA EndWhole ==
  ASSUME Whole, NEW w \in Worker, Finish(w) \/ ReportFailure(w) \/ Release(w)
  PROVE  StepWhole(w)
<1> DEFINE p == worker[w]
           q == [p EXCEPT !.pc = "failed"]
<1>1. p \in Process /\ ProcessWhole(p, w, run) BY DEF Whole, ProcessesWhole
<1>2. UNCHANGED <<datasets, created>> /\ (Fault \/ faults' = faults) BY DEF Finish, ReportFailure, Release
<1>3. faults' \in 0 .. MaxFaults BY <1>2, FaultCounted
<1>4. RowsWhole' /\ \A v \in Worker \ {w} : Kept(v)
  <2>1. {"cancelled", "succeeded", "failed"} \subseteq Ended BY DEF Ended
  <2>2. \/ \E o \in Ended : Finished(w, o)
        \/ Released(w)
        \/ UNCHANGED <<run, stored>> BY <2>1 DEF Finish, ReportFailure, Release
  <2>3. CASE UNCHANGED <<run, stored>> BY <1>2, <2>3, RowsAlone DEF Whole
  <2> QED BY <1>2, <2>2, <2>3, FinishedWhole, ReleasedWhole
<1>5. CASE \/ worker' = [worker EXCEPT ![w] = Leave(p)]
           \/ worker' = [worker EXCEPT ![w] = Down] BY <1>3, <1>4, <1>5, Leaves DEF StepWhole
<1>6. CASE /\ Finish(w) /\ worker' = [worker EXCEPT ![w] = q]
           /\ (UNCHANGED <<run, stored>> \/ Finished(w, "succeeded"))
  <2>1. /\ q \in Process /\ q.run = p.run /\ q.read = p.read /\ q.sent = p.sent
        /\ q.pc = "failed" /\ q.beat = p.beat /\ q.cancel = p.cancel BY <1>1 DEF Process
  <2> HIDE DEF q
  <2>2. p.run # 0 /\ p.pc = "replay" BY <1>1, <1>6 DEF Finish, ProcessWhole
  <2>3. p.run \in Run BY <1>1, <2>2 DEF Process
  <2>4. CASE UNCHANGED run
    <3>1. ProcessWhole(q, w, run') BY <2>1, <2>2, <2>4, SameNumbers
    <3> QED BY <1>3, <1>4, <1>6, <2>1, <3>1 DEF StepWhole
  <2>5. CASE run' # run
    <3>1. /\ Owns(w)
          /\ run' = [run EXCEPT ![p.run] = [@ EXCEPT !.status = Outcome(w, "succeeded"),
                                                    !.results = p.read, !.fresh = TRUE]]
      BY <1>6, <2>5 DEF Finished
    <3>2. run[p.run] \in Row BY <2>3 DEF Whole, RowsWhole
    <3>3. run'[p.run].status = Outcome(w, "succeeded") BY <2>3, <3>1, <3>2 DEF Row, Whole, RowsWhole
    <3>4. run'[p.run].status # "running" BY <3>3 DEF Outcome
    <3>5. p.sent <= p.read BY <1>1 DEF ProcessWhole
    <3>6. ProcessWhole(q, w, run') BY <2>1, <2>2, <3>4, <3>5 DEF ProcessWhole
    <3> QED BY <1>3, <1>4, <1>6, <2>1, <3>6 DEF StepWhole
  <2> QED BY <2>4, <2>5
<1> HIDE DEF q
<1>7. \/ worker' = [worker EXCEPT ![w] = Leave(p)]
      \/ worker' = [worker EXCEPT ![w] = Down]
      \/ /\ Finish(w) /\ worker' = [worker EXCEPT ![w] = q]
         /\ (UNCHANGED <<run, stored>> \/ Finished(w, "succeeded"))
  BY DEF Finish, ReportFailure, Release, Set, q
<1> QED BY <1>5, <1>6, <1>7 DEF q

\* A flush, whether its commit fails, succeeds, or succeeds without its reply.
LEMMA FlushWhole ==
  ASSUME Whole, NEW w \in Worker, Flush(w)
  PROVE  StepWhole(w)
<1> DEFINE p == worker[w]
           q == [p EXCEPT !.pc = "failed"]
           u == [p EXCEPT !.sent = p.read, !.cancel = run[p.run].cancel]
<1>1. p \in Process /\ ProcessWhole(p, w, run) /\ p.pc = "replay" BY DEF Whole, ProcessesWhole, Flush, GoesOn
<1>2. UNCHANGED <<datasets, created>> /\ (Fault \/ faults' = faults) BY DEF Flush
<1>3. faults' \in 0 .. MaxFaults BY <1>2, FaultCounted
<1>4. p.run # 0 /\ p.run \in Run BY <1>1 DEF ProcessWhole, Process
<1>5. /\ q \in Process /\ q.run = p.run /\ q.read = p.read /\ q.sent = p.sent
      /\ q.pc = "failed" /\ q.beat = p.beat /\ q.cancel = p.cancel BY <1>1 DEF Process
<1>6. run[p.run].cancel \in BOOLEAN BY <1>4 DEF Whole, RowsWhole, Row
<1>7. /\ u \in Process /\ u.run = p.run /\ u.read = p.read /\ u.sent = p.read
      /\ u.pc = "replay" /\ u.cancel = run[p.run].cancel BY <1>1, <1>6 DEF Process
<1> HIDE DEF q, u
<1>8. CASE UNCHANGED <<run, stored>> /\ worker' = [worker EXCEPT ![w] = Leave(p)]
  BY <1>2, <1>3, <1>8, RowsAlone, Leaves DEF StepWhole, Whole
<1>9. CASE UNCHANGED <<run, stored>> /\ worker' = [worker EXCEPT ![w] = q]
  <2>1. ProcessWhole(q, w, run') BY <1>1, <1>4, <1>5, <1>9, SameNumbers
  <2> QED BY <1>2, <1>3, <1>5, <1>9, <2>1, RowsAlone DEF StepWhole, Whole
<1>10. CASE Owns(w) /\ Saved(w) /\ worker' \in {[worker EXCEPT ![w] = q], [worker EXCEPT ![w] = u]}
  <2>1. /\ RowsWhole' /\ \A v \in Worker \ {w} : Kept(v)
        /\ run'[p.run].results = p.read /\ run'[p.run].cancel = run[p.run].cancel BY <1>2, <1>10, SavedWhole
  <2>2. /\ p.read <= p.read /\ p.sent <= p.read
        /\ p.cancel => run[p.run].cancel BY <1>1, <1>4, <1>10, Owner DEF Process, ProcessWhole
  <2>3. ProcessWhole(q, w, run') /\ ProcessWhole(u, w, run') BY <1>4, <1>5, <1>7, <2>1, <2>2 DEF ProcessWhole
  <2> QED BY <1>3, <1>5, <1>7, <1>10, <2>1, <2>3 DEF StepWhole
<1> QED BY <1>8, <1>9, <1>10 DEF Flush, Set, q, u

\* A heartbeat of the keep-alive: it marks the row or learns that the run is gone.
LEMMA KeepAliveWhole ==
  ASSUME Whole, NEW w \in Worker, KeepAlive(w)
  PROVE  StepWhole(w)
<1> DEFINE p == worker[w]
           y == [run[p.run] EXCEPT !.fresh = TRUE]
           q == [p EXCEPT !.cancel = run[p.run].cancel]
           u == [p EXCEPT !.beat = "stopped"]
<1>1. p \in Process /\ ProcessWhole(p, w, run) /\ p.beat = "beating" BY DEF Whole, ProcessesWhole, KeepAlive
<1>2. UNCHANGED <<datasets, stored, created, faults>> BY DEF KeepAlive
<1>3. p.run # 0 /\ p.run \in Run /\ faults' \in 0 .. MaxFaults BY <1>1, <1>2 DEF ProcessWhole, Process, Whole
<1>4. run[p.run] \in Row BY <1>3 DEF Whole, RowsWhole
<1>5. /\ q \in Process /\ q.run = p.run /\ q.read = p.read /\ q.sent = p.sent /\ q.pc = p.pc
      /\ q.cancel = run[p.run].cancel BY <1>1, <1>4 DEF Process, Row
<1>6. /\ u \in Process /\ u.run = p.run /\ u.read = p.read /\ u.sent = p.sent /\ u.pc = p.pc
      /\ u.cancel = p.cancel BY <1>1 DEF Process
<1>7. CASE run' = run /\ worker' = [worker EXCEPT ![w] = u]
  <2>1. RowsWhole' /\ \A v \in Worker \ {w} : Kept(v) BY <1>2, <1>7, RowsAlone DEF Whole
  <2> HIDE DEF u
  <2>2. ProcessWhole(u, w, run') BY <1>3, <1>6, <1>7, SameNumbers
  <2> QED BY <1>3, <1>6, <1>7, <2>1, <2>2 DEF StepWhole
<1>8. CASE Owns(w) /\ run' = [run EXCEPT ![p.run] = y] /\ worker' = [worker EXCEPT ![w] = q]
  <2>1. run[p.run].status = "running" /\ run[p.run].worker = w BY <1>8, Owner
  <2>2. RowWhole(run[p.run], stored[p.run], p.run, created, datasets) BY <1>3 DEF Whole, RowsWhole
  <2>3. RowWhole(y, stored[p.run], p.run, created, datasets) BY <1>4, <2>1, <2>2, RowMarked
  <2>4. /\ y \in Row /\ y.worker = w /\ y.results = run[p.run].results
        /\ y.cancel = run[p.run].cancel
    <3>1. y \in Row BY <2>3 DEF RowWhole
    <3> QED BY <1>4, <2>1, <3>1 DEF Row
  <2> HIDE DEF y, q
  <2>5. RowsWhole' BY <1>2, <1>3, <1>8, <2>3, OneRowMarked DEF Whole
  <2>6. \A v \in Worker \ {w} : Kept(v) BY <1>3, <1>8, <2>1, <2>4, OthersKept DEF Whole
  <2>7. run'[p.run].results = run[p.run].results /\ run'[p.run].cancel = run[p.run].cancel
    BY <1>3, <1>8, <2>4 DEF Whole, RowsWhole
  <2>8. ProcessWhole(q, w, run') BY <1>1, <1>3, <1>5, <2>1, <2>7 DEF ProcessWhole
  <2> QED BY <1>3, <1>5, <1>8, <2>5, <2>6, <2>8 DEF StepWhole
<1> QED BY <1>7, <1>8 DEF KeepAlive, Set

\* The time since a heartbeat passes.
LEMMA AgesWhole ==
  ASSUME Whole, NEW r \in Run, HeartbeatAges(r)
  PROVE  Whole'
<1> DEFINE y == [run[r] EXCEPT !.fresh = FALSE]
<1>1. /\ run' = [run EXCEPT ![r] = y] /\ run[r].status = "running"
      /\ UNCHANGED <<datasets, stored, worker, created>> /\ (Fault \/ faults' = faults) BY DEF HeartbeatAges
<1>2. run[r] \in Row /\ RowWhole(run[r], stored[r], r, created, datasets) BY DEF Whole, RowsWhole
<1>3. RowWhole(y, stored[r], r, created, datasets) BY <1>1, <1>2, RowMarked
<1>4. /\ y.status = "running" /\ y.worker = run[r].worker /\ y.results = run[r].results
      /\ y.cancel = run[r].cancel BY <1>1, <1>2 DEF Row
<1> HIDE DEF y
<1>5. RowsWhole' BY <1>1, <1>3, OneRowMarked DEF Whole
<1>6. \A v \in Worker : Kept(v) BY <1>1, <1>4 DEF Kept, Whole, RowsWhole
<1> QED BY <1>1, <1>5, <1>6, NoProcess, FaultCounted DEF Whole

\* The inductive invariant, over a step of the whole system.
LEMMA WholeNext == Whole /\ [Next]_vars => Whole'
<1>1. ASSUME Whole, UNCHANGED vars PROVE Whole'
  <2>1. UNCHANGED <<datasets, run, stored, worker, created, faults>> BY <1>1 DEF vars
  <2>2. RowsWhole' /\ \A v \in Worker : Kept(v) BY <1>1, <2>1, RowsAlone DEF Whole
  <2> QED BY <1>1, <2>1, <2>2, NoProcess DEF Whole
<1>2. ASSUME Whole, Next PROVE Whole'
  <2>1. CASE Member BY <1>2, <2>1, MemberWhole
  <2>2. CASE \E w \in Worker : Poll(w) BY <1>2, <2>2, PollWhole
  <2>3. CASE \E r \in Run : HeartbeatAges(r) BY <1>2, <2>3, AgesWhole
  <2>4. CASE \E w \in Worker : \/ Claim(w) \/ Advance(w) \/ LoseRun(w) \/ ReplayFails(w)
                              \/ Flush(w) \/ Finish(w) \/ ReportFailure(w) \/ Release(w)
                              \/ Exit(w) \/ Start(w) \/ KeepAlive(w) \/ KeepAliveFails(w)
                              \/ Stop(w) \/ Crash(w)
    <3>1. PICK w \in Worker : \/ Claim(w) \/ Advance(w) \/ LoseRun(w) \/ ReplayFails(w)
                              \/ Flush(w) \/ Finish(w) \/ ReportFailure(w) \/ Release(w)
                              \/ Exit(w) \/ Start(w) \/ KeepAlive(w) \/ KeepAliveFails(w)
                              \/ Stop(w) \/ Crash(w) BY <2>4
    <3>2. StepWhole(w) BY <1>2, <3>1, ClaimWhole, InsideWhole, FlushWhole, EndWhole, KeepAliveWhole
    <3> QED BY <1>2, <3>2, StepKeepsWhole
  <2> QED BY <1>2, <2>1, <2>2, <2>3, <2>4 DEF Next, Work, Environment
<1> QED BY <1>1, <1>2

\* It holds in the beginning, when there are no runs and no process is up.
LEMMA WholeInit == Init => Whole
<1> SUFFICES ASSUME Init PROVE Whole OBVIOUS
<1>1. 1 .. 0 = {} /\ 0 \in 0 .. Points /\ 0 \in 0 .. MaxFaults BY QueueAssumption
<1>2. NoRow \in Row /\ NoRow.status = "none" /\ NoRow.results = 0 BY <1>1 DEF Row, NoRow
<1>3. \A r \in Run : RowWhole(NoRow, {}, r, {}, Dataset) BY <1>1, <1>2 DEF RowWhole, Active
<1>4. \A w \in Worker : ProcessWhole(Down, w, run) BY LeftWhole
<1>5. RowsWhole BY <1>1, <1>2, <1>3 DEF Init, RowsWhole
<1>6. ProcessesWhole BY <1>4 DEF Init, ProcessesWhole, ProcessWhole
<1> QED BY <1>1, <1>5, <1>6 DEF Init, Whole

\* And it says at least what the runs check.
LEMMA WholeSays == Whole => QueueInvariant
<1> SUFFICES ASSUME Whole PROVE QueueInvariant OBVIOUS
<1>1. TypeOK BY DEF Whole, RowsWhole, ProcessesWhole, TypeOK
<1>2. ResultsMatchRow BY DEF Whole, RowsWhole, RowWhole, ResultsMatchRow
<1>3. ActiveRunsKeepData BY DEF Whole, RowsWhole, RowWhole, ActiveRunsKeepData, ActiveRuns
<1>4. OneReplay
  <2>1. \A v, w \in Worker : v # w /\ Owns(v) /\ Owns(w) => worker[v].run # worker[w].run BY DEF Owns
  <2>2. ASSUME NEW w \in Worker, Owns(w)
        PROVE  /\ worker[w].sent <= run[worker[w].run].results
               /\ run[worker[w].run].results <= worker[w].read
               /\ worker[w].cancel => run[worker[w].run].cancel
    BY <2>2 DEF Whole, ProcessesWhole, ProcessWhole, Owns
  <2> QED BY <2>1, <2>2 DEF OneReplay
<1>5. RowsAreWhole BY DEF Whole, RowsWhole, RowWhole, RowsAreWhole
<1>6. ProcessesAreWhole BY DEF Whole, ProcessesWhole, ProcessWhole, ProcessesAreWhole
<1> QED BY <1>1, <1>2, <1>3, <1>4, <1>5, <1>6 DEF QueueInvariant

\* The stored results of every run are numbered without a gap up to what its row says, no
\* active run lacks its dataset, and a run in execution is in one process, which knows its
\* results: whatever crashes, faults, stops and late heartbeats come between.
THEOREM QueueHolds == Spec => []QueueInvariant
<1>1. Spec => []Whole BY WholeInit, WholeNext, PTL DEF Spec
<1> QED BY <1>1, WholeSays, PTL

-----------------------------------------------------------------------------
(* The queue keeps what RunOutcomes promises.                              *)

\* What a step may do to a row: x and s become y and t.
Allowed(x, y, s, t) ==
  /\ y.cancel /\ ~x.cancel => x.status = "running"
  /\ x.cancel /\ ~y.cancel => y.status = "none"
  /\ \/ y.status = x.status /\ t = s
     \/ x.status = "none" /\ y.status = "queued" /\ t = {} /\ ~y.cancel
     \/ x.status = "queued" /\ y.status = "running" /\ s = {} /\ t = {}
     \/ /\ x.status = "running"
        /\ \/ y.status \in {"running", "failed"}
           \/ y.status = "succeeded" /\ ~x.cancel
           \/ y.status = "cancelled" /\ x.cancel
        /\ \E n \in 0 .. Points : t = 1 .. n
        /\ s \subseteq t
     \/ x.status = "running" /\ y.status = "queued" /\ t = {} /\ ~x.cancel
     \/ x.status = "running" /\ y.status = "cancelled" /\ t = {} /\ x.cancel
     \/ x.status = "queued" /\ y.status = "cancelled" /\ t = {}
     \/ x.status \in Ended /\ y.status = "none" /\ t = {}

AllAllowed == \A r \in Run : Allowed(run[r], run'[r], stored[r], stored'[r])

\* That is a step of the promise.
LEMMA AllowedIsPromised ==
  ASSUME AllAllowed
  PROVE  Promise!Next
<1>1. Promise!Accepted BY DEF AllAllowed, Allowed, Promise!Accepted
<1>2. ASSUME NEW r \in Run
      PROVE  Promise!Step(r) \/ Promise!Same(r)
  <2> DEFINE x == run[r]
             y == run'[r]
             s == stored[r]
             t == stored'[r]
  <2> USE DEF Promise!Step, Promise!Same, Promise!Queue, Promise!Start, Promise!Save,
              Promise!Succeed, Promise!Fail, Promise!PutBack, Promise!CancelWaiting,
              Promise!CancelRunning, Promise!Delete, Promise!Moves, Promise!Empty,
              Promise!Grows
  <2>1. Allowed(x, y, s, t) BY DEF AllAllowed
  <2>2. CASE y.status = x.status /\ t = s BY <2>2
  <2>3. CASE x.status = "none" /\ y.status = "queued" /\ t = {} /\ ~y.cancel BY <2>3
  <2>4. CASE x.status = "queued" /\ y.status = "running" /\ s = {} /\ t = {} BY <2>4
  <2>5. CASE /\ x.status = "running"
             /\ \/ y.status \in {"running", "failed"}
                \/ y.status = "succeeded" /\ ~x.cancel
                \/ y.status = "cancelled" /\ x.cancel
             /\ \E n \in 0 .. Points : t = 1 .. n
             /\ s \subseteq t BY <2>5
  <2>6. CASE x.status = "running" /\ y.status = "queued" /\ t = {} /\ ~x.cancel BY <2>6
  <2>7. CASE x.status = "running" /\ y.status = "cancelled" /\ t = {} /\ x.cancel BY <2>7
  <2>8. CASE x.status = "queued" /\ y.status = "cancelled" /\ t = {} BY <2>8
  <2>9. CASE x.status \in Ended /\ y.status = "none" /\ t = {} BY <2>9 DEF Ended
  <2> QED BY <2>1, <2>2, <2>3, <2>4, <2>5, <2>6, <2>7, <2>8, <2>9 DEF Allowed
<1> QED BY <1>1, <1>2 DEF Promise!Next

\* A transaction that does something allowed to its row does nothing to the others.
LEMMA OneRowAllowed ==
  ASSUME RowsWhole, NEW r \in Run, NEW y, NEW t,
         run' = [run EXCEPT ![r] = y], stored' = [stored EXCEPT ![r] = t],
         Allowed(run[r], y, stored[r], t)
  PROVE  AllAllowed
BY DEF RowsWhole, AllAllowed, Allowed

\* The same when the stored results stay.
LEMMA OneRowMarkedAllowed ==
  ASSUME RowsWhole, NEW r \in Run, NEW y,
         run' = [run EXCEPT ![r] = y], stored' = stored,
         Allowed(run[r], y, stored[r], stored[r])
  PROVE  AllAllowed
BY DEF RowsWhole, AllAllowed, Allowed

\* Steps that leave rows and results alone.
LEMMA AloneAllowed ==
  ASSUME run' = run, stored' = stored
  PROVE  AllAllowed
BY DEF AllAllowed, Allowed

\* What is stored of a run.
LEMMA StoredOf ==
  ASSUME RowsWhole, NEW r \in Run
  PROVE  /\ run[r] \in Row /\ run[r].results \in 0 .. Points
         /\ stored[r] = 1 .. run[r].results
         /\ run[r].status \in {"queued", "none"} => stored[r] = {}
         /\ run[r].status = "none" => run[r] = NoRow
<1>1. run[r] \in Row /\ RowWhole(run[r], stored[r], r, created, datasets) BY DEF RowsWhole
<1>2. NoRow.results = 0 /\ 1 .. 0 = {} BY DEF NoRow
<1> QED BY <1>1, <1>2 DEF RowWhole, Row

\* Requests of members.
LEMMA MemberAllowed ==
  ASSUME Whole, Member
  PROVE  AllAllowed
<1>1. ASSUME NEW r \in Run, NEW d \in Dataset, Create(r, d)
      PROVE  AllAllowed
  <2> DEFINE y == [NoRow EXCEPT !.status = "queued", !.dataset = d]
  <2>1. RowWhole(run[r], stored[r], r, created, datasets) /\ r \notin created
    BY <1>1 DEF Create, Whole, RowsWhole
  <2>2. run[r] = NoRow BY <2>1 DEF RowWhole
  <2>3. NoRow.status = "none" /\ ~NoRow.cancel BY DEF NoRow
  <2>4. stored[r] = {} BY <2>2, <2>3, StoredOf DEF Whole
  <2>5. y.status = "queued" /\ ~y.cancel BY DEF NoRow
  <2>6. run' = [run EXCEPT ![r] = y] /\ stored' = stored BY <1>1 DEF Create
  <2> HIDE DEF y
  <2>7. Allowed(run[r], y, stored[r], stored[r]) BY <2>2, <2>3, <2>4, <2>5 DEF Allowed
  <2> QED BY <2>6, <2>7, OneRowMarkedAllowed DEF Whole
<1>2. ASSUME NEW r \in Run, Cancel(r)
      PROVE  AllAllowed
  <2>1. run[r].status \in {"queued", "running"} /\ run[r] \in Row BY <1>2, StoredOf DEF Cancel, Active, Whole
  <2>2. PICK y : /\ run' = [run EXCEPT ![r] = y]
                 /\ y = IF run[r].status = "queued" THEN [run[r] EXCEPT !.status = "cancelled"]
                                                    ELSE [run[r] EXCEPT !.cancel = TRUE] BY <1>2 DEF Cancel
  <2>3. CASE run[r].status = "queued"
    <3>1. y.status = "cancelled" /\ y.cancel = run[r].cancel BY <2>1, <2>2, <2>3 DEF Row
    <3>2. stored[r] = {} /\ ~run[r].cancel BY <2>3, StoredOf DEF Whole, RowsWhole, RowWhole
    <3>3. Allowed(run[r], y, stored[r], stored[r]) BY <2>3, <3>1, <3>2 DEF Allowed
    <3> QED BY <1>2, <2>2, <3>3, OneRowMarkedAllowed DEF Whole, Cancel
  <2>4. CASE run[r].status = "running"
    <3>1. y.status = "running" /\ y.cancel = TRUE BY <2>1, <2>2, <2>4 DEF Row
    <3>2. Allowed(run[r], y, stored[r], stored[r]) BY <2>4, <3>1 DEF Allowed
    <3> QED BY <1>2, <2>2, <3>2, OneRowMarkedAllowed DEF Whole, Cancel
  <2> QED BY <2>1, <2>3, <2>4
<1>3. ASSUME NEW r \in Run, Remove(r)
      PROVE  AllAllowed
  <2>1. NoRow.status = "none" /\ ~NoRow.cancel BY DEF NoRow
  <2>2. Allowed(run[r], NoRow, stored[r], {}) BY <1>3, <2>1 DEF Allowed, Remove
  <2> QED BY <1>3, <2>2, OneRowAllowed DEF Remove, Whole
<1>4. ASSUME NEW d \in Dataset, RemoveDataset(d)
      PROVE  AllAllowed
  <2> DEFINE of == {r \in Run : run[r].dataset = d}
  <2>1. /\ run' = [r \in Run |-> IF r \in of THEN NoRow ELSE run[r]]
        /\ stored' = [r \in Run |-> IF r \in of THEN {} ELSE stored[r]]
        /\ of \cap ActiveRuns = {} BY <1>4 DEF RemoveDataset
  <2>2. NoRow.status = "none" /\ ~NoRow.cancel BY DEF NoRow
  <2>3. ASSUME NEW r \in Run PROVE Allowed(run[r], run'[r], stored[r], stored'[r])
    <3>1. CASE r \notin of BY <2>1, <3>1 DEF Allowed
    <3>2. CASE r \in of
      <4>1. run'[r] = NoRow /\ stored'[r] = {} BY <2>1, <3>2
      <4>2. run[r].status \in Ended \cup {"none"} BY <2>1, <3>2, StoredOf DEF ActiveRuns, Row, Whole
      <4>3. run[r].status = "none" => stored[r] = {} BY StoredOf DEF Whole
      <4> QED BY <2>2, <4>1, <4>2, <4>3 DEF Allowed
    <3> QED BY <3>1, <3>2
  <2> QED BY <2>3 DEF AllAllowed
<1> QED BY <1>1, <1>2, <1>3, <1>4 DEF Member

\* A row that FAIL_STALE touches fails with the results it has.
LEMMA StaleAllowed ==
  ASSUME RowsWhole, NEW r \in Run
  PROVE  Allowed(run[r], FailStale[r], stored[r], stored[r])
<1>1. run[r] \in Row /\ \E n \in 0 .. Points : stored[r] = 1 .. n BY StoredOf
<1>2. CASE run[r].status = "running" /\ ~run[r].fresh
  <2>1. FailStale[r] = [run[r] EXCEPT !.status = "failed"] BY <1>2 DEF FailStale
  <2>2. FailStale[r].status = "failed" /\ FailStale[r].cancel = run[r].cancel BY <1>1, <2>1 DEF Row
  <2> QED BY <1>1, <1>2, <2>2 DEF Allowed
<1>3. CASE ~(run[r].status = "running" /\ ~run[r].fresh)
  <2>1. FailStale[r] = run[r] BY <1>3 DEF FailStale
  <2> QED BY <2>1 DEF Allowed
<1> QED BY <1>2, <1>3

\* Claims and polls.
LEMMA ClaimAllowed ==
  ASSUME Whole, NEW w \in Worker, Claim(w) \/ Poll(w)
  PROVE  AllAllowed
<1>1. CASE Poll(w) BY <1>1, StaleAllowed DEF Poll, AllAllowed, Whole
<1>2. CASE Claim(w)
  <2>1. PICK r \in Run :
          /\ run[r].status = "queued"
          /\ run' = [FailStale EXCEPT ![r].status = "running", ![r].worker = w, ![r].fresh = TRUE]
    BY <1>2 DEF Claim
  <2> DEFINE y == [run[r] EXCEPT !.status = "running", !.worker = w, !.fresh = TRUE]
  <2>2. FailStale[r] = run[r] /\ FailStale \in [Run -> Row] BY <2>1, StaleFailed DEF Whole
  <2>3. run' = [FailStale EXCEPT ![r] = y] BY <2>1, <2>2
  <2>4. run[r] \in Row /\ stored[r] = {} BY <2>1, StoredOf DEF Whole
  <2>5. y.status = "running" /\ y.cancel = run[r].cancel BY <2>4 DEF Row
  <2> HIDE DEF y
  <2>6. stored' = stored BY <1>2 DEF Claim
  <2>7. ASSUME NEW q \in Run PROVE Allowed(run[q], run'[q], stored[q], stored'[q])
    <3>1. CASE q = r
      <4>1. run'[r] = y BY <2>2, <2>3
      <4> QED BY <2>1, <2>4, <2>5, <2>6, <3>1, <4>1 DEF Allowed
    <3>2. CASE q # r
      <4>1. run'[q] = FailStale[q] BY <2>2, <2>3, <3>2
      <4> QED BY <2>6, <4>1, StaleAllowed DEF Whole
    <3> QED BY <3>1, <3>2
  <2> QED BY <2>7 DEF AllAllowed
<1> QED BY <1>1, <1>2

\* PROGRESS, FINISH and RELEASE.
LEMMA TransactionAllowed ==
  ASSUME Whole, NEW w \in Worker,
         \/ Owns(w) /\ Saved(w)
         \/ \E o \in Ended : Finished(w, o) /\ o # "cancelled"
         \/ Finished(w, "cancelled") /\ (Owns(w) => run[worker[w].run].cancel)
         \/ Released(w)
  PROVE  AllAllowed
<1> DEFINE p == worker[w]
           r == p.run
<1>1. CASE UNCHANGED <<run, stored>> BY <1>1, AloneAllowed
<1>2. CASE Owns(w) /\ ~UNCHANGED <<run, stored>>
  <2>1. /\ r \in Run /\ run[r] \in Row /\ run[r].status = "running"
        /\ p.read \in 0 .. Points /\ stored[r] \cup Pending(p) = 1 .. p.read BY <1>2, Owner
  <2>2. stored[r] \subseteq 1 .. p.read /\ \E n \in 0 .. Points : 1 .. p.read = 1 .. n BY <2>1
  <2>3. CASE Saved(w)
    <3> DEFINE y == [run[r] EXCEPT !.results = p.read, !.fresh = TRUE]
    <3>1. run' = [run EXCEPT ![r] = y] /\ stored' = [stored EXCEPT ![r] = 1 .. p.read]
      BY <2>1, <2>3 DEF Saved, Whole, RowsWhole
    <3>2. y.status = "running" /\ y.cancel = run[r].cancel BY <2>1 DEF Row
    <3> HIDE DEF y
    <3>3. Allowed(run[r], y, stored[r], 1 .. p.read) BY <2>1, <2>2, <3>2 DEF Allowed
    <3> QED BY <2>1, <3>1, <3>3, OneRowAllowed DEF Whole
  <2>4. ASSUME NEW o \in Ended, Finished(w, o), o = "cancelled" => run[r].cancel
        PROVE  AllAllowed
    <3> DEFINE e == Outcome(w, o)
               y == [run[r] EXCEPT !.status = e, !.results = p.read, !.fresh = TRUE]
    <3>1. run' = [run EXCEPT ![r] = y] /\ stored' = [stored EXCEPT ![r] = 1 .. p.read]
      BY <1>2, <2>1, <2>4 DEF Finished, Whole, RowsWhole
    <3>2. \/ e = "failed" \/ (e = "succeeded" /\ ~run[r].cancel)
          \/ e = "cancelled" /\ run[r].cancel BY <2>4 DEF Outcome, Ended
    <3> HIDE DEF e
    <3>3. y.status = e /\ y.cancel = run[r].cancel BY <2>1 DEF Row
    <3> HIDE DEF y
    <3>4. Allowed(run[r], y, stored[r], 1 .. p.read) BY <2>1, <2>2, <3>2, <3>3 DEF Allowed
    <3> QED BY <2>1, <3>1, <3>4, OneRowAllowed DEF Whole
  <2>5. CASE Released(w)
    <3> DEFINE e == IF run[r].cancel THEN "cancelled" ELSE "queued"
               y == [run[r] EXCEPT !.status = e, !.worker = NoWorker, !.fresh = FALSE,
                                   !.results = 0]
    <3>1. run' = [run EXCEPT ![r] = y] /\ stored' = [stored EXCEPT ![r] = {}]
      BY <1>2, <2>1, <2>5 DEF Released, Whole, RowsWhole
    <3>2. (e = "queued" /\ ~run[r].cancel) \/ (e = "cancelled" /\ run[r].cancel) OBVIOUS
    <3> HIDE DEF e
    <3>3. y.status = e /\ y.cancel = run[r].cancel BY <2>1 DEF Row
    <3> HIDE DEF y
    <3>4. Allowed(run[r], y, stored[r], {}) BY <2>1, <3>2, <3>3 DEF Allowed
    <3> QED BY <2>1, <3>1, <3>4, OneRowAllowed DEF Whole
  <2>6. "cancelled" \in Ended BY DEF Ended
  <2> QED BY <1>2, <2>3, <2>4, <2>5, <2>6
<1>3. Owns(w) \/ UNCHANGED <<run, stored>> BY DEF Finished, Released
<1> QED BY <1>1, <1>2, <1>3

\* A process that sees a cancellation has one, so it ends its run as cancelled rightly.
LEMMA WorkAllowed ==
  ASSUME Whole, NEW w \in Worker, Work(w)
  PROVE  AllAllowed
<1>1. CASE Advance(w) \/ LoseRun(w) \/ ReplayFails(w) \/ Exit(w) \/ Start(w)
  BY <1>1, AloneAllowed DEF Advance, LoseRun, ReplayFails, Exit, Start
<1>2. CASE Claim(w) \/ Poll(w) BY <1>2, ClaimAllowed
<1>3. CASE Flush(w)
  <2>1. UNCHANGED <<run, stored>> \/ (Owns(w) /\ Saved(w)) BY <1>3 DEF Flush
  <2> QED BY <2>1, AloneAllowed, TransactionAllowed
<1>4. CASE Finish(w)
  <2>1. {"succeeded", "cancelled"} \subseteq Ended BY DEF Ended
  <2>2. Owns(w) /\ worker[w].cancel => run[worker[w].run].cancel
    BY DEF Whole, ProcessesWhole, ProcessWhole, Owns
  <2>3. \/ UNCHANGED <<run, stored>>
        \/ Finished(w, "succeeded")
        \/ Finished(w, "cancelled") /\ worker[w].cancel BY <1>4 DEF Finish
  <2> QED BY <2>1, <2>2, <2>3, AloneAllowed, TransactionAllowed
<1>5. CASE ReportFailure(w)
  <2>1. "failed" \in Ended BY DEF Ended
  <2>2. UNCHANGED <<run, stored>> \/ Finished(w, "failed") BY <1>5 DEF ReportFailure
  <2> QED BY <2>1, <2>2, AloneAllowed, TransactionAllowed
<1>6. CASE Release(w)
  <2>1. UNCHANGED <<run, stored>> \/ Released(w) BY <1>6 DEF Release
  <2> QED BY <2>1, AloneAllowed, TransactionAllowed
<1> QED BY <1>1, <1>2, <1>3, <1>4, <1>5, <1>6 DEF Work

\* The keep-alive, what ends or stops a process, and time.
LEMMA EnvironmentAllowed ==
  ASSUME Whole, Environment
  PROVE  AllAllowed
<1>1. CASE \E w \in Worker : KeepAliveFails(w) \/ Stop(w) \/ Crash(w)
  BY <1>1, AloneAllowed DEF KeepAliveFails, Stop, Crash
<1>2. ASSUME NEW w \in Worker, KeepAlive(w)
      PROVE  AllAllowed
  <2>1. stored' = stored BY <1>2 DEF KeepAlive
  <2>2. CASE run' = run BY <2>1, <2>2, AloneAllowed
  <2>3. CASE Owns(w) /\ run' = [run EXCEPT ![worker[w].run].fresh = TRUE]
    <3> DEFINE r == worker[w].run
               y == [run[r] EXCEPT !.fresh = TRUE]
    <3>1. r \in Run /\ run[r] \in Row BY <2>3, Owner
    <3>2. y.status = run[r].status /\ y.cancel = run[r].cancel BY <3>1 DEF Row
    <3>3. run' = [run EXCEPT ![r] = y] BY <2>3
    <3> HIDE DEF y
    <3>4. Allowed(run[r], y, stored[r], stored[r]) BY <3>2 DEF Allowed
    <3> QED BY <2>1, <3>1, <3>3, <3>4, OneRowMarkedAllowed DEF Whole
  <2> QED BY <1>2, <2>2, <2>3 DEF KeepAlive
<1>3. ASSUME NEW r \in Run, HeartbeatAges(r)
      PROVE  AllAllowed
  <2> DEFINE y == [run[r] EXCEPT !.fresh = FALSE]
  <2>1. run' = [run EXCEPT ![r] = y] /\ stored' = stored BY <1>3 DEF HeartbeatAges
  <2>2. run[r] \in Row BY StoredOf DEF Whole
  <2>3. y.status = run[r].status /\ y.cancel = run[r].cancel BY <2>2 DEF Row
  <2> HIDE DEF y
  <2>4. Allowed(run[r], y, stored[r], stored[r]) BY <2>3 DEF Allowed
  <2> QED BY <2>1, <2>4, OneRowMarkedAllowed DEF Whole
<1> QED BY <1>1, <1>2, <1>3 DEF Environment

\* The Dojo keeps its promise to its members: a run ends once, its results only grow while
\* it runs, an attempt starts without results, and an accepted cancellation is followed
\* neither by a success nor by another attempt.
THEOREM KeepsPromise == Spec => RefinesOutcomes
<1>1. Init => Promise!Init
  <2>1. ASSUME Init PROVE Promise!Init
    <3>1. NoRow.status = "none" /\ NoRow.cancel = FALSE BY DEF NoRow
    <3>2. [r \in Run |-> run[r].status] = [r \in Run |-> "none"] BY <2>1, <3>1 DEF Init
    <3>3. {r \in Run : run[r].cancel} = {} BY <2>1, <3>1 DEF Init
    <3>4. stored = [r \in Run |-> {}] BY <2>1 DEF Init
    <3> QED BY <3>2, <3>3, <3>4 DEF Promise!Init
  <2> QED BY <2>1
<1>2. Whole /\ [Next]_vars => [Promise!Next]_Promise!vars
  <2>1. ASSUME Whole, Next PROVE Promise!Next
    <3>1. AllAllowed BY <2>1, MemberAllowed, WorkAllowed, EnvironmentAllowed DEF Next
    <3> QED BY <3>1, AllowedIsPromised
  <2>2. ASSUME UNCHANGED vars PROVE UNCHANGED Promise!vars BY <2>2 DEF vars, Promise!vars
  <2> QED BY <2>1, <2>2
<1>3. Spec => []Whole BY WholeInit, WholeNext, PTL DEF Spec
<1> QED BY <1>1, <1>2, <1>3, PTL DEF Spec, RefinesOutcomes, Promise!Spec
=============================================================================
