-------------------------- MODULE CollectionProofs --------------------------
(***************************************************************************)
(* What holds of the collection for every number of collectors, catalogues *)
(* and revisions.  That a process which was taken over has no effect any   *)
(* more needs no assumption; that the readings of an earlier generation    *)
(* are gone once the present one is prepared needs one, that no edit       *)
(* brings an earlier selection back: what was prepared then is taken over, *)
(* with its readings, for what is selected now (run CollectionGeneration). *)
(*                                                                         *)
(* A lemma per action says what it does to the fields of its process; the  *)
(* invariants are proved from these, not from the records.                 *)
(***************************************************************************)
EXTENDS Collection, TLAPS

USE CollectionAssumption

-----------------------------------------------------------------------------
(* What a step does to the collector it is a step of.                      *)

SameFlow(c, d) ==
  /\ d.queue = c.queue /\ d.pub = c.pub /\ d.buf = c.buf /\ d.obs = c.obs
  /\ d.routes = c.routes

SamePrep(c, d) == d.prep = c.prep /\ d.fp = c.fp /\ d.rev = c.rev

Empty(d) ==
  /\ d.queue = {} /\ d.pub = {} /\ d.buf = {} /\ d.obs = {} /\ d.routes = 0
  /\ d.prep = -1 /\ d.rev = -1

\* Only p moved, and became a collector.
Moved(p) == col' = [col EXCEPT ![p] = col'[p]] /\ col'[p] \in Collector

\* The fields of the collector that moved, and of the others.
LEMMA Put1 ==
  ASSUME TypeOK, NEW p \in Proc, NEW d \in Collector, Put(p, d)
  PROVE  Moved(p) /\ col'[p] = d
BY DEF TypeOK, Put, Moved

\* A snapshot of a row is a row; so is what stands for none.
LEMMA SnapshotRow ==
  ASSUME NEW r \in Row
  PROVE  /\ Snapshot(r) \in Row /\ Snapshot(r).rev = r.rev /\ Snapshot(r).gen = r.gen
         /\ Snapshot(r).sel = r.sel
         /\ NoRow \in Row
<1>1. NoReport \in Report /\ Nothing \in Catalogue /\ 1 \in Revision /\ 1 \in Gen
  BY DEF NoReport, Report, Revision, Gen
<1>2. NoRow \in Row BY <1>1 DEF NoRow, FirstRow, Row
<1> DEFINE i == IF r.ing = Applied(r.rev) THEN r.ing ELSE NoReport
<1>3. i \in Report BY <1>1 DEF Row
<1>4. Snapshot(r) = [r EXCEPT !.col = NoReport, !.ing = i] BY DEF Snapshot, Row
<1> HIDE DEF i
<1>5. Snapshot(r) \in Row BY <1>1, <1>3, <1>4 DEF Row
<1>6. Snapshot(r).rev = r.rev /\ Snapshot(r).gen = r.gen /\ Snapshot(r).sel = r.sel BY <1>4 DEF Row
<1> QED BY <1>2, <1>5, <1>6

\* A collector that starts, or is not there, has nothing (Acquire, Terminate, Stopped, Crash).
LEMMA NothingYet ==
  ASSUME NEW pc \in {"down", "loop"}
  PROVE  /\ NoCollector \in Collector /\ NoCollector.pc = "down" /\ Empty(NoCollector)
         /\ LET d == [NoCollector EXCEPT !.pc = pc]
            IN d \in Collector /\ d.pc = pc /\ Empty(d)
<1>1. /\ NoReport \in Report /\ Nothing \in Catalogue /\ 0 \in Gen /\ NoRow \in Row
      /\ -1 \in -1 .. MaxRevision
  <2>1. 1 \in Revision /\ 1 \in Gen BY DEF Revision, Gen
  <2>2. NoReport \in Report BY DEF NoReport, Report
  <2> QED BY <2>1, <2>2 DEF NoRow, FirstRow, Row, Gen
<1>2. NoCollector \in Collector BY <1>1 DEF NoCollector, Collector
<1>3. NoCollector.pc = "down" /\ Empty(NoCollector) BY DEF NoCollector, Empty
<1> QED BY <1>2, <1>3 DEF Collector, Empty

\* The fields of a collector.
LEMMA Fields ==
  ASSUME TypeOK, NEW p \in Proc
  PROVE  /\ col[p] \in Collector /\ col[p].snap \in Row /\ col[p].st \in Report
         /\ col[p].prep \in -1 .. MaxRevision /\ col[p].rev \in -1 .. MaxRevision
         /\ col[p].fp \in Catalogue /\ col[p].routes \in Gen
         /\ col[p].queue \in SUBSET Gen /\ col[p].pub \in SUBSET Gen
         /\ col[p].buf \in SUBSET Gen /\ col[p].obs \in SUBSET Gen
         /\ col[p].sub \in SUBSET Gen /\ col[p].conn \in BOOLEAN
         /\ row \in Row /\ row.rev \in Revision /\ row.gen \in Revision
         /\ col[p].snap.rev \in Revision /\ col[p].snap.gen \in Revision
         /\ col[p].snap.sel \in Catalogue
<1>1. col[p] \in Collector /\ row \in Row BY DEF TypeOK
<1>2. col[p].snap \in Row BY <1>1 DEF Collector
<1>3. \A r \in Row : r.rev \in Revision /\ r.gen \in Revision /\ r.sel \in Catalogue BY DEF Row
<1>4. /\ col[p].st \in Report
      /\ col[p].prep \in -1 .. MaxRevision /\ col[p].rev \in -1 .. MaxRevision
      /\ col[p].fp \in Catalogue /\ col[p].routes \in Gen BY <1>1 DEF Collector
<1>5. /\ col[p].queue \in SUBSET Gen /\ col[p].pub \in SUBSET Gen
      /\ col[p].buf \in SUBSET Gen /\ col[p].obs \in SUBSET Gen
      /\ col[p].sub \in SUBSET Gen /\ col[p].conn \in BOOLEAN BY <1>1 DEF Collector
<1> QED BY <1>1, <1>2, <1>3, <1>4, <1>5

\* What Paused leaves of a collector.
LEMMA PausedFields ==
  ASSUME NEW c \in Collector
  PROVE  /\ Paused(c) \in Collector /\ Paused(c).routes = 0 /\ Paused(c).buf = {}
         /\ Paused(c).queue = c.queue /\ Paused(c).pub = c.pub /\ Paused(c).obs = c.obs
         /\ SamePrep(c, Paused(c)) /\ Paused(c).pc = c.pc /\ Paused(c).snap = c.snap
         /\ Paused(c).st = c.st
<1>1. 0 \in Gen BY DEF Gen
<1> QED BY <1>1 DEF Paused, Collector, SamePrep

\* Poll.
LEMMA PollFields ==
  ASSUME TypeOK, NEW p \in Proc, Poll(p)
  PROVE  /\ Moved(p) /\ col'[p].pc = "refresh" /\ col'[p].snap = Snapshot(row)
         /\ SameFlow(col[p], col'[p]) /\ SamePrep(col[p], col'[p])
<1> DEFINE d == [col[p] EXCEPT !.pc = "refresh", !.snap = Snapshot(row)]
<1>1. Snapshot(row) \in Row BY SnapshotRow DEF TypeOK
<1>2. d \in Collector BY <1>1, Fields DEF Collector
<1>3. d.pc = "refresh" /\ d.snap = Snapshot(row) /\ SameFlow(col[p], d) /\ SamePrep(col[p], d)
  BY Fields DEF Collector, SameFlow, SamePrep
<1> HIDE DEF d
<1>4. Put(p, d) BY DEF Poll, d
<1> QED BY <1>2, <1>3, <1>4, Put1

\* Connect: in a new session nothing is prepared, and the buffer is paused.
LEMMA ConnectFields ==
  ASSUME TypeOK, NEW p \in Proc, Connect(p)
  PROVE  LET c == col[p]
             d == col'[p]
         IN /\ Moved(p) /\ c.pc = "refresh" /\ d.pc \in {"apply", "error"}
            /\ d.snap = c.snap /\ d.prep = -1 /\ d.rev = -1
            /\ d.routes = 0 /\ d.buf = {} /\ d.queue = c.queue /\ d.obs = c.obs
            /\ d.pub \in {{}, c.pub}
<1> DEFINE c == col[p]
           b == [Paused(c) EXCEPT !.prep = -1, !.fp = Nothing, !.rev = -1]
           d1 == [b EXCEPT !.pc = "apply", !.conn = TRUE, !.sub = {}, !.pub = {}]
           d2 == [b EXCEPT !.pc = "error"]
<1>1. Put(p, d1) \/ Put(p, d2) BY DEF Connect
<1>2. c.pc = "refresh" BY DEF Connect, At
<1>3. -1 \in -1 .. MaxRevision /\ Nothing \in Catalogue OBVIOUS
<1>4. /\ b \in Collector /\ b.snap = c.snap /\ b.prep = -1 /\ b.rev = -1
      /\ b.routes = 0 /\ b.buf = {} /\ b.queue = c.queue /\ b.obs = c.obs /\ b.pub = c.pub
  <2>1. c \in Collector BY Fields
  <2> DEFINE e == Paused(c)
  <2>2. /\ e \in Collector /\ e.snap = c.snap /\ e.routes = 0 /\ e.buf = {}
        /\ e.queue = c.queue /\ e.obs = c.obs /\ e.pub = c.pub BY <2>1, PausedFields
  <2> HIDE DEF e
  <2>3. [e EXCEPT !.prep = -1, !.fp = Nothing, !.rev = -1] \in Collector BY <1>3, <2>2 DEF Collector
  <2> DEFINE f == [e EXCEPT !.prep = -1, !.fp = Nothing, !.rev = -1]
  <2>4. /\ f.snap = c.snap /\ f.prep = -1 /\ f.rev = -1 /\ f.routes = 0 /\ f.buf = {}
        /\ f.queue = c.queue /\ f.obs = c.obs /\ f.pub = c.pub BY <2>2 DEF Collector
  <2> QED BY <2>3, <2>4 DEF e
<1> HIDE DEF b
<1>5. /\ d1 \in Collector /\ d1.pc = "apply" /\ d1.snap = c.snap /\ d1.prep = -1
      /\ d1.rev = -1 /\ d1.routes = 0 /\ d1.buf = {} /\ d1.queue = c.queue /\ d1.obs = c.obs
      /\ d1.pub = {} BY <1>4 DEF Collector
<1>6. /\ d2 \in Collector /\ d2.pc = "error" /\ d2.snap = c.snap /\ d2.prep = -1
      /\ d2.rev = -1 /\ d2.routes = 0 /\ d2.buf = {} /\ d2.queue = c.queue /\ d2.obs = c.obs
      /\ d2.pub = c.pub BY <1>4 DEF Collector
<1> HIDE DEF d1, d2
<1> QED BY <1>1, <1>2, <1>5, <1>6, Put1

\* Adopt: the snapshot's revision counts as prepared, and as collected if the one it
\* replaces was.
LEMMA AdoptFields ==
  ASSUME TypeOK, NEW p \in Proc, Adopt(p)
  PROVE  LET c == col[p]
             d == col'[p]
         IN /\ Moved(p) /\ c.pc = "refresh" /\ d.pc = "activate" /\ d.snap = c.snap
            /\ c.prep # -1 /\ c.fp = c.snap.sel /\ d.prep = c.snap.rev /\ d.fp = c.fp
            /\ d.rev = (IF c.rev = c.prep THEN c.snap.rev ELSE c.rev)
            /\ SameFlow(c, d)
<1> DEFINE c == col[p]
           r == IF c.rev = c.prep THEN c.snap.rev ELSE c.rev
           s == [c.st EXCEPT !.rev = c.snap.rev]
           d == [c EXCEPT !.pc = "activate", !.prep = c.snap.rev, !.rev = r, !.st = s]
<1>1. c.snap.rev \in -1 .. MaxRevision /\ r \in -1 .. MaxRevision BY Fields DEF Revision
<1>2. s \in Report BY <1>1, Fields DEF Report
<1>3. Put(p, d) BY Fields DEF Adopt, Collector
<1>4. c.pc = "refresh" /\ c.fp = c.snap.sel /\ c.prep # -1
  <2>1. c.prep >= 0 BY DEF Adopt, Adopts
  <2> QED BY <2>1, Fields DEF Adopt, Adopts, At
<1> HIDE DEF r, s
<1>5. /\ d \in Collector /\ d.pc = "activate" /\ d.snap = c.snap /\ d.prep = c.snap.rev
      /\ d.fp = c.fp /\ d.rev = r /\ SameFlow(c, d) BY <1>1, <1>2, Fields DEF Collector, SameFlow
<1> HIDE DEF d
<1> QED BY <1>3, <1>4, <1>5, Put1 DEF r

\* Compare.
LEMMA CompareFields ==
  ASSUME TypeOK, NEW p \in Proc, Compare(p)
  PROVE  LET c == col[p]
             d == col'[p]
         IN /\ Moved(p) /\ c.pc = "refresh" /\ d.snap = c.snap /\ d.prep = c.prep /\ d.fp = c.fp
            /\ SameFlow(c, d)
            /\ \/ d.pc = "activate" /\ c.prep = c.snap.rev /\ d.rev = c.rev
               \/ d.pc = "apply" /\ d.rev = -1
<1> DEFINE c == col[p]
           d1 == [c EXCEPT !.pc = "activate"]
           d2 == [c EXCEPT !.pc = "apply", !.rev = -1]
<1>1. \/ c.prep = c.snap.rev /\ Put(p, d1)
      \/ Put(p, d2) BY DEF Compare
<1>2. c.pc = "refresh" /\ -1 \in -1 .. MaxRevision BY DEF Compare, At
<1>3. /\ d1 \in Collector /\ d1.pc = "activate" /\ d1.snap = c.snap /\ d1.prep = c.prep
      /\ d1.fp = c.fp /\ d1.rev = c.rev /\ SameFlow(c, d1) BY Fields DEF Collector, SameFlow
<1>4. /\ d2 \in Collector /\ d2.pc = "apply" /\ d2.snap = c.snap /\ d2.prep = c.prep
      /\ d2.fp = c.fp /\ d2.rev = -1 /\ SameFlow(c, d2) BY <1>2, Fields DEF Collector, SameFlow
<1> HIDE DEF d1, d2
<1> QED BY <1>1, <1>2, <1>3, <1>4, Put1

\* Apply: the buffer is paused.
LEMMA ApplyFields ==
  ASSUME TypeOK, NEW p \in Proc, Apply(p)
  PROVE  LET c == col[p]
             d == col'[p]
         IN /\ Moved(p) /\ c.pc = "apply" /\ d.pc \in {"error", "drain"}
            /\ d.pc = "drain" => Fenced(p) /\ SaveReport([rev |-> c.snap.rev, status |-> "applying"])
            /\ d.pc = "error" => row' = row
            /\ d.snap = c.snap /\ SamePrep(c, d)
            /\ d.routes = 0 /\ d.buf = {} /\ d.queue = c.queue /\ d.pub = c.pub /\ d.obs = c.obs
<1> DEFINE s == [rev |-> col[p].snap.rev, status |-> "applying"]
           e == Paused(col[p])
           b == [e EXCEPT !.st = s]
           d1 == [b EXCEPT !.pc = "error"]
           d2 == [b EXCEPT !.pc = "drain"]
<1>1. /\ e \in Collector /\ e.snap = col[p].snap /\ SamePrep(col[p], e)
      /\ e.routes = 0 /\ e.buf = {} /\ e.queue = col[p].queue /\ e.pub = col[p].pub
      /\ e.obs = col[p].obs BY Fields, PausedFields
<1>2. s \in Report BY Fields DEF Report, Revision
<1> HIDE DEF e, s
<1>3. /\ b \in Collector /\ b.st = s /\ b.snap = col[p].snap /\ SamePrep(col[p], b)
      /\ b.routes = 0 /\ b.buf = {} /\ b.queue = col[p].queue /\ b.pub = col[p].pub
      /\ b.obs = col[p].obs BY <1>1, <1>2 DEF Collector, SamePrep
<1>4. /\ (Put(p, d1) /\ row' = row) \/ (Put(p, d2) /\ Fenced(p) /\ SaveReport(b.st))
      /\ col[p].pc = "apply" BY DEF Apply, Refused, At, b, e, s
<1> HIDE DEF b
<1>5. /\ d1 \in Collector /\ d1.pc = "error" /\ d1.snap = col[p].snap /\ SamePrep(col[p], d1)
      /\ d1.routes = 0 /\ d1.buf = {} /\ d1.queue = col[p].queue /\ d1.pub = col[p].pub
      /\ d1.obs = col[p].obs BY <1>3 DEF Collector, SamePrep
<1>6. /\ d2 \in Collector /\ d2.pc = "drain" /\ d2.snap = col[p].snap /\ SamePrep(col[p], d2)
      /\ d2.routes = 0 /\ d2.buf = {} /\ d2.queue = col[p].queue /\ d2.pub = col[p].pub
      /\ d2.obs = col[p].obs BY <1>3 DEF Collector, SamePrep
<1> HIDE DEF d1, d2
<1> QED BY <1>3, <1>4, <1>5, <1>6, Put1 DEF s

\* Drain and its timeout: nothing moves but the stage, and the cache is cleared.
LEMMA DrainFields ==
  ASSUME TypeOK, NEW p \in Proc, Drain(p) \/ DrainTimesOut(p)
  PROVE  LET c == col[p]
             d == col'[p]
         IN /\ Moved(p) /\ c.pc = "drain" /\ d.pc \in {"error", "subscribe"}
            /\ d.pc = "subscribe" => /\ Fenced(p) /\ cache' = {}
                                     /\ c.queue = {} /\ c.pub = {}
            /\ d.pc = "error" => cache' = cache
            /\ d.snap = c.snap /\ SamePrep(c, d) /\ SameFlow(c, d)
<1> DEFINE d1 == [col[p] EXCEPT !.pc = "error"]
           d2 == [col[p] EXCEPT !.pc = "subscribe"]
<1>1. /\ \/ Put(p, d1) /\ cache' = cache
         \/ /\ Put(p, d2) /\ Fenced(p) /\ cache' = {}
            /\ col[p].queue = {} /\ col[p].pub = {}
      /\ col[p].pc = "drain" BY DEF Drain, DrainTimesOut, Refused, At, Drained
<1>2. /\ d1 \in Collector /\ d1.pc = "error" /\ d1.snap = col[p].snap
      /\ SamePrep(col[p], d1) /\ SameFlow(col[p], d1) BY Fields DEF Collector, SamePrep, SameFlow
<1>3. /\ d2 \in Collector /\ d2.pc = "subscribe" /\ d2.snap = col[p].snap
      /\ SamePrep(col[p], d2) /\ SameFlow(col[p], d2) BY Fields DEF Collector, SamePrep, SameFlow
<1> HIDE DEF d1, d2
<1> QED BY <1>1, <1>2, <1>3, Put1

\* Subscribe: the snapshot is prepared, unless the broker is gone.
LEMMA SubscribeFields ==
  ASSUME TypeOK, NEW p \in Proc, Subscribe(p)
  PROVE  LET c == col[p]
             d == col'[p]
         IN /\ Moved(p) /\ c.pc = "subscribe" /\ d.pc \in {"error", "activate"}
            /\ d.pc = "activate" =>
                 /\ Fenced(p) /\ SaveReport([rev |-> c.snap.rev, status |-> "prepared"])
                 /\ d.prep = c.snap.rev
            /\ d.pc = "error" => row' = row
            /\ \/ d.prep = c.prep /\ d.fp = c.fp
               \/ d.prep = c.snap.rev /\ d.fp = c.snap.sel
            /\ d.snap = c.snap /\ d.rev = c.rev /\ SameFlow(c, d)
<1> DEFINE c == col[p]
           s == [rev |-> c.snap.rev, status |-> "prepared"]
           b == [c EXCEPT !.sub = Desired(c.snap), !.prep = c.snap.rev, !.fp = c.snap.sel,
                          !.st = s]
           d0 == [c EXCEPT !.pc = "error"]
           d1 == [b EXCEPT !.pc = "error"]
           d2 == [b EXCEPT !.pc = "activate"]
<1>1. s \in Report /\ Desired(c.snap) \in SUBSET Gen /\ c.snap.rev \in -1 .. MaxRevision
  BY Fields DEF Report, Revision, Gen, Desired
<1> HIDE DEF s
<1>2. /\ b \in Collector /\ b.st = s /\ b.snap = c.snap /\ b.prep = c.snap.rev
      /\ b.fp = c.snap.sel /\ b.rev = c.rev /\ SameFlow(c, b) BY <1>1, Fields DEF Collector, SameFlow
<1>3. /\ \/ (Put(p, d0) \/ Put(p, d1)) /\ row' = row
         \/ Put(p, d2) /\ Fenced(p) /\ SaveReport(b.st)
      /\ c.pc = "subscribe" BY DEF Subscribe, Refused, At, s
<1> HIDE DEF b
<1>4. /\ d0 \in Collector /\ d0.pc = "error" /\ d0.snap = c.snap /\ d0.rev = c.rev
      /\ d0.prep = c.prep /\ d0.fp = c.fp /\ SameFlow(c, d0) BY Fields DEF Collector, SameFlow
<1>5. /\ d1 \in Collector /\ d1.pc = "error" /\ d1.snap = c.snap /\ d1.rev = c.rev
      /\ d1.prep = c.snap.rev /\ d1.fp = c.snap.sel /\ SameFlow(c, d1) BY <1>2 DEF Collector, SameFlow
<1>6. /\ d2 \in Collector /\ d2.pc = "activate" /\ d2.snap = c.snap /\ d2.rev = c.rev
      /\ d2.prep = c.snap.rev /\ d2.fp = c.snap.sel /\ SameFlow(c, d2) BY <1>2 DEF Collector, SameFlow
<1> HIDE DEF d0, d1, d2
<1> QED BY <1>2, <1>3, <1>4, <1>5, <1>6, Put1 DEF s

\* A report of revision r was saved, or the row has another by now.
Reported(r) ==
  \/ row' = row
  \/ row.rev = r /\ \E s \in Report : s.rev = r /\ row' = [row EXCEPT !.col = s]

\* Activate: the collector routes the snapshot's generation, or goes on as it was.
LEMMA ActivateFields ==
  ASSUME TypeOK, NEW p \in Proc, Activate(p)
  PROVE  LET c == col[p]
             d == col'[p]
         IN /\ Moved(p) /\ c.pc = "activate" /\ d.pc \in {"error", "loop"}
            /\ d.pc = "loop" => Fenced(p) /\ Reported(c.snap.rev)
            /\ d.pc = "error" => row' = row
            /\ d.prep = c.prep /\ d.fp = c.fp
            /\ d.queue = c.queue /\ d.pub = c.pub /\ d.obs = c.obs
            /\ \/ d.routes = c.routes /\ d.buf = c.buf /\ d.rev = c.rev
               \/ d.routes = c.snap.gen /\ d.buf = {} /\ d.rev = c.snap.rev
<1> DEFINE c == col[p]
           s == [c.st EXCEPT !.status = "applied"]
           b == [c EXCEPT !.routes = c.snap.gen, !.buf = {}, !.rev = c.snap.rev, !.st = s]
           Runs(d) == /\ d \in Collector /\ d.prep = c.prep /\ d.fp = c.fp
                      /\ d.queue = c.queue /\ d.pub = c.pub /\ d.obs = c.obs
                      /\ \/ d.routes = c.routes /\ d.buf = c.buf /\ d.rev = c.rev
                         \/ d.routes = c.snap.gen /\ d.buf = {} /\ d.rev = c.snap.rev
<1>1. /\ s \in Report /\ c.snap.rev \in -1 .. MaxRevision /\ c.snap.gen \in Gen
      /\ NoRow \in Row BY Fields, SnapshotRow DEF Report, Revision, Gen
<1>2. Activated(c) \in {c, b} BY Fields DEF Activated, Collector
<1> HIDE DEF s
<1>3. Runs(c) BY Fields
<1>4. Runs(b) BY <1>1, Fields DEF Collector
<1> HIDE DEF b
<1>5. PICK d : d = Activated(c) OBVIOUS
<1>6. Runs(d) BY <1>2, <1>3, <1>4, <1>5
<1> DEFINE e0 == [c EXCEPT !.pc = "error"]
           e1 == [d EXCEPT !.pc = "error"]
           e2 == [d EXCEPT !.pc = "loop", !.snap = NoRow]
           t == [d.st EXCEPT !.rev = c.snap.rev]
<1>7. /\ \/ (Put(p, e0) \/ Put(p, e1)) /\ row' = row
         \/ Put(p, e2) /\ Fenced(p) /\ SaveReport(t)
      /\ c.pc = "activate" BY <1>5 DEF Activate, Refused, At
<1>8. t \in Report /\ t.rev = c.snap.rev BY <1>1, <1>6 DEF Collector, Report
<1>9. SaveReport(t) => Reported(c.snap.rev) BY <1>8 DEF SaveReport, Reported
<1>10. Runs(e0) /\ e0.pc = "error" BY <1>3 DEF Collector
<1>11. Runs(e1) /\ e1.pc = "error" BY <1>6 DEF Collector
<1>12. Runs(e2) /\ e2.pc = "loop" BY <1>1, <1>6 DEF Collector
<1> HIDE DEF e0, e1, e2
<1> QED BY <1>7, <1>9, <1>10, <1>11, <1>12, Put1

\* Recover: what was prepared is forgotten, the buffer paused.
LEMMA RecoverFields ==
  ASSUME TypeOK, NEW p \in Proc, Recover(p)
  PROVE  LET c == col[p]
             d == col'[p]
         IN /\ Moved(p) /\ c.pc = "error" /\ d.pc = "loop"
            /\ d.prep = -1 /\ d.rev = -1 /\ d.routes = 0 /\ d.buf = {}
            /\ d.queue = c.queue /\ d.pub = c.pub /\ d.obs = c.obs
            /\ \/ row' = row
               \/ \E s \in Report : s.status = "error" /\ row' = [row EXCEPT !.col = s]
<1> DEFINE e == Paused(col[p])
           s == [e.st EXCEPT !.status = "error"]
           d == [e EXCEPT !.pc = "loop", !.rev = -1, !.prep = -1, !.fp = Nothing,
                          !.snap = NoRow, !.st = s]
<1>1. /\ e \in Collector /\ e.routes = 0 /\ e.buf = {} /\ e.queue = col[p].queue
      /\ e.pub = col[p].pub /\ e.obs = col[p].obs /\ e.st \in Report
  <2>1. e \in Collector BY Fields, PausedFields
  <2>2. e.st \in Report BY <2>1 DEF Collector
  <2> QED BY <2>1, <2>2, Fields, PausedFields
<1>2. -1 \in -1 .. MaxRevision /\ Nothing \in Catalogue /\ NoRow \in Row BY Fields, SnapshotRow
<1> HIDE DEF e
<1>3. s \in Report /\ s.status = "error" BY <1>1 DEF Report
<1> HIDE DEF s
<1>4. d \in Collector BY <1>1, <1>2, <1>3 DEF Collector
<1>5. /\ d.pc = "loop" /\ d.prep = -1 /\ d.rev = -1 /\ d.routes = 0 /\ d.buf = {}
      /\ d.queue = col[p].queue /\ d.pub = col[p].pub /\ d.obs = col[p].obs /\ d.st = s BY <1>1 DEF Collector
<1>6. Put(p, d) /\ (SaveReport(d.st) \/ row' = row) /\ col[p].pc = "error"
  <2>1. [e EXCEPT !.pc = "loop", !.rev = -1, !.prep = -1, !.fp = Nothing,
                  !.snap = NoRow, !.st.status = "error"] = d BY <1>1 DEF s, Collector
  <2> QED BY <2>1 DEF Recover, At, e
<1> HIDE DEF d
<1> QED BY <1>3, <1>4, <1>5, <1>6, Put1 DEF SaveReport

\* Receive: what arrives is of the generation that is routed.
LEMMA ReceiveFields ==
  ASSUME TypeOK, NEW p \in Proc, Receive(p)
  PROVE  LET c == col[p]
             d == col'[p]
         IN /\ Moved(p) /\ d.pc = c.pc /\ d.snap = c.snap /\ SamePrep(c, d)
            /\ d.queue = c.queue /\ d.pub = c.pub /\ d.obs = c.obs /\ d.routes = c.routes
            /\ c.routes # 0 /\ d.buf = {c.routes}
<1> DEFINE d == [col[p] EXCEPT !.buf = {col[p].routes}]
<1>1. Put(p, d) /\ col[p].routes # 0 BY DEF Receive
<1>2. d \in Collector BY Fields DEF Collector
<1>3. /\ d.pc = col[p].pc /\ d.snap = col[p].snap /\ SamePrep(col[p], d)
      /\ d.queue = col[p].queue /\ d.pub = col[p].pub /\ d.obs = col[p].obs
      /\ d.routes = col[p].routes /\ d.buf = {col[p].routes} BY Fields DEF Collector, SamePrep
<1> HIDE DEF d
<1> QED BY <1>1, <1>2, <1>3, Put1

\* Emit: what the buffer holds goes to the writer, the broker and the open transaction.
LEMMA EmitFields ==
  ASSUME TypeOK, NEW p \in Proc, Emit(p)
  PROVE  LET c == col[p]
             d == col'[p]
         IN /\ Moved(p) /\ c.pc = "loop" /\ d.pc \in {"emit", "error"}
            /\ SamePrep(c, d) /\ d.routes = c.routes /\ d.buf = {}
            /\ d.pc = "emit" => /\ Fenced(p) /\ effect' = effect \cup {p}
                                /\ d.obs = c.buf /\ d.queue = c.queue \cup c.buf
                                /\ d.pub = c.pub \cup c.buf
            /\ d.pc = "error" => /\ effect' = effect /\ d.obs = c.obs
                                 /\ d.queue = c.queue /\ d.pub = c.pub
<1> DEFINE c == col[p]
           q == c.queue \cup c.buf
           o == c.pub \cup c.buf
           d1 == [c EXCEPT !.pc = "emit", !.obs = c.buf, !.buf = {}, !.queue = q, !.pub = o]
           d2 == [c EXCEPT !.pc = "error", !.buf = {}]
<1>1. q \in SUBSET Gen /\ o \in SUBSET Gen BY Fields
<1>2. /\ \/ Fenced(p) /\ effect' = effect \cup {p} /\ Put(p, d1)
         \/ effect' = effect /\ Put(p, d2)
      /\ c.pc = "loop" BY Fields DEF Emit, At, Collector
<1> HIDE DEF q, o
<1>3. d1 \in Collector BY <1>1, Fields DEF Collector
<1>4. /\ d1.pc = "emit" /\ SamePrep(c, d1) /\ d1.routes = c.routes /\ d1.buf = {}
      /\ d1.obs = c.buf /\ d1.queue = q /\ d1.pub = o BY Fields DEF Collector, SamePrep
<1>5. d2 \in Collector BY Fields DEF Collector
<1>6. /\ d2.pc = "error" /\ SamePrep(c, d2) /\ d2.routes = c.routes /\ d2.buf = {}
      /\ d2.obs = c.obs /\ d2.queue = c.queue /\ d2.pub = c.pub BY Fields DEF Collector, SamePrep
<1> HIDE DEF d1, d2
<1> QED BY <1>2, <1>3, <1>4, <1>5, <1>6, Put1 DEF q, o

\* What a step can at most do to the flow: let go of it.
Shrinks(c, d) ==
  /\ d.queue \subseteq c.queue /\ d.pub \subseteq c.pub /\ d.buf \subseteq c.buf
  /\ d.obs \subseteq c.obs /\ d.routes \in {0, c.routes}

\* EmitCommit and EmitFails end the transaction.
LEMMA EmitEndFields ==
  ASSUME TypeOK, NEW p \in Proc, EmitCommit(p) \/ EmitFails(p)
  PROVE  LET c == col[p]
             d == col'[p]
         IN /\ Moved(p) /\ c.pc = "emit" /\ d.pc \in {"loop", "error"}
            /\ SamePrep(c, d) /\ Shrinks(c, d)
            /\ d.obs = {} /\ d.pub = {} /\ d.queue = c.queue
            /\ effect' = effect \ {p} /\ cache' \in {cache, cache \cup c.obs}
<1> DEFINE c == col[p]
           d1 == [c EXCEPT !.pc = "loop", !.obs = {}]
           d2 == [[c EXCEPT !.conn = FALSE, !.pub = {}] EXCEPT !.pc = "error", !.obs = {}]
<1>1. /\ (c.pub = {} /\ Put(p, d1)) \/ Put(p, d2)
      /\ c.pc = "emit" /\ effect' = effect \ {p} /\ cache' \in {cache, cache \cup c.obs}
  BY DEF EmitCommit, EmitFails, Disconnected, At
<1>2. d1 \in Collector BY Fields DEF Collector
<1>3. /\ d1.pc = "loop" /\ SamePrep(c, d1) /\ d1.obs = {} /\ d1.pub = c.pub
      /\ d1.queue = c.queue /\ Shrinks(c, d1) BY Fields DEF Collector, SamePrep, Shrinks
<1>4. d2 \in Collector BY Fields DEF Collector
<1>5. /\ d2.pc = "error" /\ SamePrep(c, d2) /\ d2.obs = {} /\ d2.pub = {}
      /\ d2.queue = c.queue /\ Shrinks(c, d2) BY Fields DEF Collector, SamePrep, Shrinks
<1> HIDE DEF d1, d2
<1> QED BY <1>1, <1>2, <1>3, <1>4, <1>5, Put1

\* Published, Write, Stop and BrokerDrops let go, of nothing that was prepared.
LEMMA LetGoFields ==
  ASSUME TypeOK, NEW p \in Proc,
         Published(p) \/ Write(p) \/ Stop(p) \/ BrokerDrops(p)
  PROVE  LET c == col[p]
             d == col'[p]
         IN /\ Moved(p) /\ d.snap = c.snap /\ SamePrep(c, d) /\ Shrinks(c, d)
            /\ d.pc = c.pc \/ (c.pc = "loop" /\ d.pc = "stop")
            /\ Write(p) \/ d.queue = c.queue
<1> DEFINE c == col[p]
           e == Paused(c)
           d1(g) == [c EXCEPT !.pub = @ \ {g}]
           d2 == [c EXCEPT !.queue = {}]
           d3 == [e EXCEPT !.pc = "stop"]
           d4 == [c EXCEPT !.conn = FALSE]
<1>1. CASE Published(p)
  <2>1. PICK g \in c.pub : Put(p, d1(g)) BY <1>1 DEF Published
  <2> DEFINE q == c.pub \ {g}
             d == [c EXCEPT !.pub = q]
  <2>2. q \in SUBSET Gen /\ q \subseteq c.pub BY Fields
  <2>3. Put(p, d) BY <2>1
  <2> HIDE DEF q
  <2>4. d \in Collector BY <2>2, Fields DEF Collector
  <2>5. d.snap = c.snap /\ SamePrep(c, d) /\ Shrinks(c, d) /\ d.pc = c.pc /\ d.queue = c.queue
    BY <2>2, Fields DEF Collector, SamePrep, Shrinks
  <2> HIDE DEF d
  <2> QED BY <2>3, <2>4, <2>5, Put1
<1>2. CASE Write(p)
  <2>1. Put(p, d2) BY <1>2 DEF Write
  <2>2. d2 \in Collector BY Fields DEF Collector
  <2>3. d2.snap = c.snap /\ SamePrep(c, d2) /\ Shrinks(c, d2) /\ d2.pc = c.pc
    BY Fields DEF Collector, SamePrep, Shrinks
  <2> HIDE DEF d2
  <2> QED BY <1>2, <2>1, <2>2, <2>3, Put1
<1>3. CASE Stop(p)
  <2>1. Put(p, d3) /\ c.pc = "loop" BY <1>3 DEF Stop, At
  <2>2. /\ e \in Collector /\ e.snap = c.snap /\ SamePrep(c, e) /\ Shrinks(c, e)
        /\ e.queue = c.queue BY Fields, PausedFields DEF Shrinks
  <2> HIDE DEF e
  <2>3. d3 \in Collector BY <2>2 DEF Collector
  <2>4. /\ d3.snap = c.snap /\ SamePrep(c, d3) /\ Shrinks(c, d3) /\ d3.pc = "stop"
        /\ d3.queue = c.queue BY <2>2 DEF Collector, SamePrep, Shrinks
  <2> HIDE DEF d3
  <2> QED BY <2>1, <2>3, <2>4, Put1
<1>4. CASE BrokerDrops(p)
  <2>1. Put(p, d4) BY <1>4 DEF BrokerDrops
  <2>2. d4 \in Collector BY Fields DEF Collector
  <2>3. /\ d4.snap = c.snap /\ SamePrep(c, d4) /\ Shrinks(c, d4) /\ d4.pc = c.pc
        /\ d4.queue = c.queue BY Fields DEF Collector, SamePrep, Shrinks
  <2> HIDE DEF d4
  <2> QED BY <2>1, <2>2, <2>3, Put1
<1> QED BY <1>1, <1>2, <1>3, <1>4

\* Acquire, Terminate, Stopped and Crash leave nothing of what was there.
LEMMA NothingFields ==
  ASSUME TypeOK, NEW p \in Proc, Acquire(p) \/ Terminate(p) \/ Stopped(p) \/ Crash(p)
  PROVE  LET d == col'[p]
         IN /\ Moved(p) /\ d.pc \in {"down", "loop"} /\ Empty(d)
            /\ Acquire(p) \/ d.pc = "down"
<1>1. NoCollector.pc = "down" /\ NoCollector \in Collector /\ Empty(NoCollector) BY NothingYet
<1> DEFINE d == [NoCollector EXCEPT !.pc = "loop"]
<1>2. d \in Collector /\ d.pc = "loop" /\ Empty(d) BY NothingYet
<1>3. (Acquire(p) /\ Put(p, d)) \/ Put(p, NoCollector) BY DEF Acquire, Terminate, Stopped, Crash
<1> HIDE DEF d
<1> QED BY <1>1, <1>2, <1>3, Put1

-----------------------------------------------------------------------------
(* Types, stages and the one open transaction: whatever the edits are.     *)

Base == TypeOK /\ OneEffect /\ Stages

StageOf(c) ==
  /\ c.pub # {} \/ c.obs # {} => c.pc = "emit"
  /\ c.rev \in {-1, c.prep}
  /\ c.pc \in {"apply", "drain", "subscribe"} => c.rev = -1
  /\ c.pc \in {"drain", "subscribe"} => c.routes = 0 /\ c.buf = {}
  /\ c.pc = "subscribe" => c.queue = {}
  /\ c.pc = "activate" => c.prep = c.snap.rev

\* Stages, of one collector.
LEMMA StageOfOne ==
  ASSUME Stages, NEW p \in Proc
  PROVE  StageOf(col[p]) /\ (p \in effect <=> col[p].pc = "emit")
BY DEF Stages, StageOf

\* A step of p keeps the stages if it keeps its own.
LEMMA StageStep ==
  ASSUME TypeOK, Stages, NEW p \in Proc, Moved(p), StageOf(col'[p]),
         p \in effect' <=> col'[p].pc = "emit",
         \A q \in Proc \ {p} : q \in effect' <=> q \in effect
  PROVE  Stages'
<1>1. \A q \in Proc \ {p} : col'[q] = col[q] BY DEF TypeOK, Moved
<1>2. ASSUME NEW q \in Proc
      PROVE  StageOf(col'[q]) /\ (q \in effect' <=> col'[q].pc = "emit")
  <2>1. CASE q = p BY <2>1
  <2>2. CASE q # p BY <1>1, <2>2, StageOfOne
  <2> QED BY <2>1, <2>2
<1> QED BY <1>2 DEF Stages, StageOf

\* A report in the row leaves it a row of the same revision, generation and selection.
LEMMA ReportedRow ==
  ASSUME NEW r \in Row, NEW s \in Report
  PROVE  /\ [r EXCEPT !.col = s] \in Row /\ [r EXCEPT !.col = s].rev = r.rev
         /\ [r EXCEPT !.col = s].gen = r.gen /\ [r EXCEPT !.col = s].sel = r.sel
         /\ [r EXCEPT !.col = s].col = s
         /\ [r EXCEPT !.ing = s] \in Row /\ [r EXCEPT !.ing = s].rev = r.rev
         /\ [r EXCEPT !.ing = s].gen = r.gen /\ [r EXCEPT !.ing = s].sel = r.sel
         /\ [r EXCEPT !.ing = s].col = r.col
BY DEF Row

\* A collector's step leaves the row, or puts a report of the collector into it.
LEMMA RowOfLoop ==
  ASSUME TypeOK, NEW p \in Proc, Loop(p) \/ DrainTimesOut(p) \/ EmitFails(p)
  PROVE  row' = row \/ \E s \in Report : row' = [row EXCEPT !.col = s]
<1>1. CASE Apply(p) BY <1>1, ApplyFields, Fields DEF SaveReport, Report, Revision
<1>2. CASE Subscribe(p) BY <1>2, SubscribeFields, Fields DEF SaveReport, Report, Revision
<1>3. CASE Activate(p) BY <1>3, ActivateFields DEF Reported
<1>4. CASE Recover(p) BY <1>4, RecoverFields
<1>5. CASE Acquire(p) \/ Terminate(p) \/ Poll(p) \/ Connect(p) \/ Adopt(p) \/ Compare(p)
           \/ Drain(p) \/ Emit(p) \/ EmitCommit(p) \/ Stopped(p) \/ DrainTimesOut(p) \/ EmitFails(p)
  <2>1. row' = row BY <1>5 DEF Acquire, Terminate, Poll, Connect, Adopt, Compare, Drain, Refused, Emit,
                EmitCommit, Stopped, DrainTimesOut, EmitFails
  <2> QED BY <2>1
<1> QED BY <1>1, <1>2, <1>3, <1>4, <1>5 DEF Loop

\* Every step of a collector moves it and keeps its stage.
LEMMA MoverStage ==
  ASSUME Base, NEW p \in Proc,
         \/ Loop(p) \/ Published(p) \/ Write(p) \/ DrainTimesOut(p) \/ Receive(p)
         \/ EmitFails(p) \/ Stop(p) \/ BrokerDrops(p) \/ Crash(p)
  PROVE  /\ Moved(p) /\ StageOf(col'[p])
         /\ p \in effect' <=> col'[p].pc = "emit"
         /\ \A q \in Proc \ {p} : q \in effect' <=> q \in effect
         /\ effect' \subseteq effect \cup {p} /\ cache' \subseteq Gen
<1> DEFINE c == col[p]
           d == col'[p]
<1>0. TypeOK /\ StageOf(c) /\ (p \in effect <=> c.pc = "emit") /\ cache \subseteq Gen
  BY StageOfOne DEF Base, TypeOK
<1>a. c.obs \subseteq Gen BY <1>0, Fields
<1>1. CASE Acquire(p) \/ Terminate(p) \/ Stopped(p) \/ Crash(p)
  <2>1. Moved(p) /\ d.pc \in {"down", "loop"} /\ Empty(d) BY <1>0, <1>1, NothingFields
  <2>2. effect' = effect \ {p} \/ (effect' = effect /\ c.pc # "emit")
    BY <1>1 DEF Acquire, Terminate, Stopped, Crash, At
  <2>3. cache' = cache BY <1>1 DEF Acquire, Terminate, Stopped, Crash
  <2>4. StageOf(d) BY <2>1 DEF StageOf, Empty
  <2> QED BY <1>0, <2>1, <2>2, <2>3, <2>4
<1>2. CASE Poll(p) \/ Connect(p) \/ Adopt(p) \/ Compare(p)
  <2>1. UNCHANGED <<effect, cache>> BY <1>2 DEF Poll, Connect, Adopt, Compare
  <2>2. CASE Poll(p)
    <3>1. c.pc = "loop" BY <2>2 DEF Poll, At
    <3>2. StageOf(d) /\ Moved(p) /\ d.pc # "emit"
      BY <1>0, <2>2, <3>1, PollFields DEF StageOf, SamePrep, SameFlow
    <3> QED BY <1>0, <2>1, <3>1, <3>2
  <2>3. CASE Connect(p)
    <3>1. StageOf(d) /\ Moved(p) /\ d.pc # "emit" /\ c.pc # "emit" BY <1>0, <2>3, ConnectFields DEF StageOf
    <3> QED BY <1>0, <2>1, <3>1
  <2>4. CASE Adopt(p)
    <3>1. StageOf(d) /\ Moved(p) /\ d.pc # "emit" /\ c.pc # "emit"
      BY <1>0, <2>4, AdoptFields DEF StageOf, SameFlow
    <3> QED BY <1>0, <2>1, <3>1
  <2>5. CASE Compare(p)
    <3>1. StageOf(d) /\ Moved(p) /\ d.pc # "emit" /\ c.pc # "emit"
      BY <1>0, <2>5, CompareFields DEF StageOf, SameFlow
    <3> QED BY <1>0, <2>1, <3>1
  <2> QED BY <1>2, <2>2, <2>3, <2>4, <2>5
<1>3. CASE Apply(p) \/ Subscribe(p) \/ Activate(p) \/ Recover(p)
  <2>1. UNCHANGED <<effect, cache>> BY <1>3 DEF Apply, Subscribe, Activate, Recover, Refused
  <2>2. CASE Apply(p)
    <3>1. StageOf(d) /\ Moved(p) /\ d.pc # "emit" /\ c.pc # "emit"
      BY <1>0, <2>2, ApplyFields DEF StageOf, SamePrep
    <3> QED BY <1>0, <2>1, <3>1
  <2>3. CASE Subscribe(p)
    <3>1. StageOf(d) /\ Moved(p) /\ d.pc # "emit" /\ c.pc # "emit"
      BY <1>0, <2>3, SubscribeFields DEF StageOf, SameFlow
    <3> QED BY <1>0, <2>1, <3>1
  <2>4. CASE Activate(p)
    <3>1. StageOf(d) /\ Moved(p) /\ d.pc # "emit" /\ c.pc # "emit" BY <1>0, <2>4, ActivateFields DEF StageOf
    <3> QED BY <1>0, <2>1, <3>1
  <2>5. CASE Recover(p)
    <3>1. StageOf(d) /\ Moved(p) /\ d.pc # "emit" /\ c.pc # "emit" BY <1>0, <2>5, RecoverFields DEF StageOf
    <3> QED BY <1>0, <2>1, <3>1
  <2> QED BY <1>3, <2>2, <2>3, <2>4, <2>5
<1>4. CASE Drain(p) \/ DrainTimesOut(p)
  <2>1. effect' = effect BY <1>4 DEF Drain, DrainTimesOut, Refused
  <2>2. /\ StageOf(d) /\ Moved(p) /\ d.pc # "emit" /\ c.pc # "emit"
        /\ cache' \in {cache, {}} BY <1>0, <1>4, DrainFields DEF StageOf, SameFlow, SamePrep
  <2> QED BY <1>0, <2>1, <2>2
<1>5. CASE Emit(p)
  <2>1. /\ StageOf(d) /\ Moved(p) /\ c.pc # "emit" /\ d.pc \in {"emit", "error"}
        /\ d.pc = "emit" => effect' = effect \cup {p}
        /\ d.pc = "error" => effect' = effect BY <1>0, <1>5, EmitFields DEF StageOf, SamePrep
  <2>2. cache' = cache BY <1>5 DEF Emit
  <2> QED BY <1>0, <2>1, <2>2
<1>6. CASE EmitCommit(p) \/ EmitFails(p)
  <2>1. /\ StageOf(d) /\ Moved(p) /\ d.pc # "emit" /\ effect' = effect \ {p}
        /\ cache' \in {cache, cache \cup c.obs} BY <1>0, <1>6, EmitEndFields DEF StageOf, SamePrep, Shrinks
  <2> QED BY <1>0, <1>a, <2>1
<1>7. CASE Receive(p)
  <2>1. UNCHANGED <<effect, cache>> BY <1>7 DEF Receive
  <2>2. StageOf(d) /\ Moved(p) /\ d.pc = c.pc BY <1>0, <1>7, ReceiveFields DEF StageOf, SamePrep
  <2> QED BY <1>0, <2>1, <2>2
<1>8. CASE Published(p) \/ Write(p) \/ Stop(p) \/ BrokerDrops(p)
  <2>1. UNCHANGED <<effect, cache>> BY <1>8 DEF Published, Write, Stop, BrokerDrops
  <2>2. /\ Moved(p) /\ d.snap = c.snap /\ SamePrep(c, d) /\ Shrinks(c, d)
        /\ d.pc = c.pc \/ (c.pc = "loop" /\ d.pc = "stop") BY <1>0, <1>8, LetGoFields
  <2>3. StageOf(d) BY <1>0, <2>2 DEF StageOf, SamePrep, Shrinks
  <2> QED BY <1>0, <2>1, <2>2, <2>3
<1> QED BY <1>1, <1>2, <1>3, <1>4, <1>5, <1>6, <1>7, <1>8 DEF Loop

Aside ==
  \/ User \/ IngressLoop \/ OutputConnects \/ OutputDrops \/ IngressFails

\* Steps of the ingress, of its output and of the user leave the collectors alone.
LEMMA AsideAlone ==
  ASSUME Aside
  PROVE  UNCHANGED <<cache, leader, effect, col>>
BY DEF Aside, User, Select, Describe, IngressLoop, IngressStart, IngressStep, IngressSave,
       OutputConnects, OutputDrops, IngressFails

MoverStep(p) ==
  \/ Loop(p) \/ Published(p) \/ Write(p) \/ DrainTimesOut(p) \/ Receive(p)
  \/ EmitFails(p) \/ Stop(p) \/ BrokerDrops(p) \/ Crash(p)

\* What the next-state relation comes to: a collector's step, a lost lock, or one aside.
LEMMA NextCases ==
  Next <=> Aside \/ \E p \in Proc : MoverStep(p) \/ OwnershipLost(p)
BY DEF Next, Environment, Aside, MoverStep

\* What the ingress makes of itself and of the row.
LEMMA AsideTypes ==
  ASSUME TypeOK, Aside
  PROVE  /\ ing' \in Ingress /\ used' \subseteq Catalogue /\ faults' \in 0 .. MaxFaults
         /\ \/ used' = used /\ row' = row
            \/ used' = used /\ \E s \in Report : row' = [row EXCEPT !.ing = s]
            \/ /\ used' = used /\ row.rev < MaxRevision /\ row.rev + 1 \in Revision
               /\ row' = [row EXCEPT !.rev = row.rev + 1, !.col = NoReport, !.ing = NoReport]
            \/ \E s \in Catalogue :
                 /\ used' = used \cup {s} /\ row.rev < MaxRevision /\ row.rev + 1 \in Revision
                 /\ Reverts \/ s \notin used
                 /\ row' = [rev |-> row.rev + 1, gen |-> row.rev + 1, sel |-> s,
                            col |-> NoReport, ing |-> NoReport]
<1>1. /\ ing \in Ingress /\ used \subseteq Catalogue /\ faults \in 0 .. MaxFaults
      /\ row \in Row /\ row.rev \in 1 .. MaxRevision /\ row.gen \in Revision BY DEF TypeOK, Row, Revision
<1>2. CASE IngressStart \/ IngressFails
  <2>1. NoIngress \in Ingress /\ NoRow \in Row
    <3>1. 1 \in Revision /\ 1 \in Gen /\ 0 \in Gen BY DEF Revision, Gen
    <3>2. NoRow \in Row BY <1>1, SnapshotRow
    <3> QED BY <3>1, <3>2 DEF NoIngress, Ingress
  <2>2. [NoIngress EXCEPT !.pc = "idle"] \in Ingress BY <2>1 DEF Ingress
  <2> QED BY <1>1, <1>2, <2>1, <2>2 DEF IngressStart, IngressFails, Fault
<1>3. CASE OutputConnects \/ OutputDrops
  <2>1. [ing EXCEPT !.up = TRUE] \in Ingress /\ [ing EXCEPT !.up = FALSE] \in Ingress BY <1>1 DEF Ingress
  <2>2. ing' \in Ingress /\ used' = used /\ row' = row /\ (faults' = faults \/ Fault)
    BY <1>3, <2>1 DEF OutputConnects, OutputDrops
  <2>3. faults' \in 0 .. MaxFaults BY <1>1, <2>2 DEF Fault
  <2> QED BY <1>1, <2>2, <2>3
<1>4. CASE IngressStep
  <2> DEFINE g == IF ing.gen = row.gen THEN ing.gen
                  ELSE IF Prepared(row) /\ ing.up THEN row.gen ELSE 0
             i == [ing EXCEPT !.pc = "save", !.snap = Snapshot(row), !.gen = g]
  <2>1. g \in Gen /\ Snapshot(row) \in Row BY <1>1, SnapshotRow DEF Ingress, Revision, Gen
  <2>2. ing' = i BY <1>1, <1>4 DEF IngressStep, Ingress
  <2> HIDE DEF g
  <2>3. i \in Ingress BY <1>1, <2>1 DEF Ingress
  <2> QED BY <1>1, <1>4, <2>2, <2>3 DEF IngressStep
<1>5. CASE IngressSave
  <2>1. NoRow \in Row /\ ing.snap \in Row BY <1>1, SnapshotRow DEF Ingress
  <2>2. [ing EXCEPT !.pc = "idle", !.snap = NoRow] \in Ingress BY <1>1, <2>1 DEF Ingress
  <2>3. ing.snap.rev \in -1 .. MaxRevision BY <2>1 DEF Row, Revision
  <2>4. [rev |-> ing.snap.rev, status |-> "applied"] \in Report
        /\ [rev |-> ing.snap.rev, status |-> "connecting"] \in Report BY <2>3 DEF Report
  <2> QED BY <1>1, <1>5, <2>2, <2>4 DEF IngressSave
<1>6. CASE Describe
  <2>1. [row EXCEPT !.rev = @ + 1, !.col = NoReport, !.ing = NoReport]
          = [row EXCEPT !.rev = row.rev + 1, !.col = NoReport, !.ing = NoReport] OBVIOUS
  <2> QED BY <1>1, <1>6, <2>1 DEF Describe, Revision
<1>7. CASE \E s \in Catalogue : Select(s) BY <1>1, <1>7 DEF Select, Revision
<1> QED BY <1>2, <1>3, <1>4, <1>5, <1>6, <1>7 DEF Aside, User, IngressLoop

\* An edit of the catalogue makes a row of a later revision that nothing was reported of.
LEMMA EditedRow ==
  ASSUME NEW r \in Row, NEW n \in Revision, NEW s \in Catalogue
  PROVE  LET d == [r EXCEPT !.rev = n, !.col = NoReport, !.ing = NoReport]
             e == [rev |-> n, gen |-> n, sel |-> s, col |-> NoReport, ing |-> NoReport]
         IN /\ d \in Row /\ d.rev = n /\ d.gen = r.gen /\ d.sel = r.sel /\ d.col = NoReport
            /\ e \in Row /\ e.rev = n /\ e.gen = n /\ e.sel = s /\ e.col = NoReport
<1>1. NoReport \in Report BY DEF NoReport, Report
<1> QED BY <1>1 DEF Row

\* The row stays a row.
LEMMA RowTyped ==
  ASSUME TypeOK, Next
  PROVE  row' \in Row
<1>1. row \in Row BY DEF TypeOK
<1>2. CASE Aside
  <2>1. CASE row' = row BY <1>1, <2>1
  <2>2. CASE \E s \in Report : row' = [row EXCEPT !.ing = s] BY <1>1, <2>2, ReportedRow
  <2>3. CASE /\ row.rev + 1 \in Revision
             /\ row' = [row EXCEPT !.rev = row.rev + 1, !.col = NoReport, !.ing = NoReport]
    <3>1. Nothing \in Catalogue OBVIOUS
    <3> QED BY <1>1, <2>3, <3>1, EditedRow
  <2>4. CASE /\ row.rev + 1 \in Revision
             /\ \E s \in Catalogue :
                  row' = [rev |-> row.rev + 1, gen |-> row.rev + 1, sel |-> s,
                          col |-> NoReport, ing |-> NoReport]
    <3>1. NoReport \in Report BY DEF NoReport, Report
    <3> QED BY <2>4, <3>1 DEF Row
  <2> QED BY <1>2, <2>1, <2>2, <2>3, <2>4, AsideTypes
<1>3. CASE \E p \in Proc : MoverStep(p) \/ OwnershipLost(p)
  <2>1. PICK p \in Proc : MoverStep(p) \/ OwnershipLost(p) BY <1>3
  <2>2. row' = row \/ \E s \in Report : row' = [row EXCEPT !.col = s]
    <3>1. CASE Loop(p) \/ DrainTimesOut(p) \/ EmitFails(p) BY <3>1, RowOfLoop
    <3>2. CASE \/ Published(p) \/ Write(p) \/ Receive(p) \/ Stop(p) \/ BrokerDrops(p)
               \/ Crash(p) \/ OwnershipLost(p)
      <4>1. row' = row BY <3>2 DEF Published, Write, Receive, Stop, BrokerDrops, Crash, OwnershipLost
      <4> QED BY <4>1
    <3> QED BY <2>1, <3>1, <3>2 DEF MoverStep
  <2> QED BY <1>1, <2>2, ReportedRow
<1> QED BY <1>2, <1>3, NextCases

\* Who may lead after a step of p, and what the step leaves to others.
LEMMA MoverOwns ==
  ASSUME TypeOK, OneEffect, NEW p \in Proc, MoverStep(p) \/ OwnershipLost(p)
  PROVE  /\ OneEffect' /\ leader' \in Proc \cup {NoProc} /\ effect' \subseteq Proc
         /\ ing' = ing /\ used' = used /\ faults' \in 0 .. MaxFaults
         /\ leader' # leader => leader' = NoProc \/ (Acquire(p) /\ leader' = p)
<1>1. /\ leader \in Proc \cup {NoProc} /\ effect \subseteq Proc /\ faults \in 0 .. MaxFaults
      /\ NoProc \notin Proc BY DEF TypeOK
<1>2. ing' = ing /\ used' = used
  BY DEF MoverStep, Loop, Acquire, Terminate, Poll, Connect, Adopt, Compare, Apply, Drain,
         Subscribe, Activate, Recover, Emit, EmitCommit, Stopped, DrainTimesOut, EmitFails,
         Published, Write, Receive, Stop, BrokerDrops, Crash, OwnershipLost, Refused
<1>3. faults' = faults \/ Fault
  BY DEF MoverStep, Loop, Acquire, Terminate, Poll, Connect, Adopt, Compare, Apply, Drain,
         Subscribe, Activate, Recover, Emit, EmitCommit, Stopped, DrainTimesOut, EmitFails,
         Published, Write, Receive, Stop, BrokerDrops, Crash, OwnershipLost, Refused
<1>4. faults' \in 0 .. MaxFaults BY <1>1, <1>3 DEF Fault
<1>5. \/ effect' = effect /\ leader' = leader
      \/ effect' = effect /\ leader' = NoProc
      \/ effect = {} /\ effect' = effect /\ leader' = p /\ Acquire(p)
      \/ leader = p /\ leader' = leader /\ effect' = effect \cup {p}
      \/ leader' \in {leader, NoProc} /\ effect' = effect \ {p}
  BY DEF MoverStep, Loop, Acquire, Terminate, Poll, Connect, Adopt, Compare, Apply, Drain,
         Subscribe, Activate, Recover, Emit, EmitCommit, Stopped, DrainTimesOut, EmitFails,
         Published, Write, Receive, Stop, BrokerDrops, Crash, OwnershipLost, Refused,
         LockFree, Fenced
<1>6. OneEffect' BY <1>1, <1>5 DEF OneEffect
<1> QED BY <1>1, <1>2, <1>4, <1>5, <1>6

\* Types, stages and the one open transaction are kept by every step.
LEMMA BaseNext == Base /\ [Next]_vars => Base'
<1>1. ASSUME Base, UNCHANGED vars PROVE Base' BY <1>1 DEF Base, vars, TypeOK, OneEffect, Stages
<1>2. ASSUME Base, Next PROVE Base'
  <2>0. TypeOK /\ OneEffect /\ Stages BY <1>2 DEF Base
  <2>1. row' \in Row BY <1>2, <2>0, RowTyped
  <2>2. CASE Aside
    <3>1. UNCHANGED <<cache, leader, effect, col>> BY <2>2, AsideAlone
    <3>2. ing' \in Ingress /\ used' \subseteq Catalogue /\ faults' \in 0 .. MaxFaults
      <4>1. CASE used' = used BY <2>0, <2>2, <4>1, AsideTypes DEF TypeOK
      <4> QED BY <2>0, <2>2, AsideTypes DEF TypeOK
    <3>3. TypeOK' BY <2>0, <2>1, <3>1, <3>2 DEF TypeOK
    <3>4. OneEffect' /\ Stages' BY <2>0, <3>1 DEF OneEffect, Stages
    <3> QED BY <3>3, <3>4 DEF Base
  <2>3. ASSUME NEW p \in Proc, OwnershipLost(p) PROVE Base'
    <3>1. UNCHANGED <<row, used, cache, effect, ing, col>> BY <2>3 DEF OwnershipLost
    <3>2. OneEffect' /\ leader' \in Proc \cup {NoProc} /\ faults' \in 0 .. MaxFaults BY <2>0, <2>3, MoverOwns
    <3>3. TypeOK' BY <2>0, <3>1, <3>2 DEF TypeOK
    <3>4. Stages' BY <2>0, <3>1 DEF Stages
    <3> QED BY <3>2, <3>3, <3>4 DEF Base
  <2>4. ASSUME NEW p \in Proc, MoverStep(p) PROVE Base'
    <3>1. /\ OneEffect' /\ leader' \in Proc \cup {NoProc} /\ effect' \subseteq Proc
          /\ ing' = ing /\ used' = used /\ faults' \in 0 .. MaxFaults BY <2>0, <2>4, MoverOwns
    <3>2. /\ Moved(p) /\ StageOf(col'[p])
          /\ p \in effect' <=> col'[p].pc = "emit"
          /\ \A q \in Proc \ {p} : q \in effect' <=> q \in effect
          /\ cache' \subseteq Gen BY <1>2, <2>4, MoverStage DEF MoverStep
    <3>3. col' \in [Proc -> Collector] BY <2>0, <3>2 DEF Moved, TypeOK
    <3>4. TypeOK' BY <2>0, <2>1, <3>1, <3>2, <3>3 DEF TypeOK
    <3>5. Stages' BY <2>0, <3>2, StageStep
    <3> QED BY <3>1, <3>4, <3>5 DEF Base
  <2> QED BY <1>2, <2>2, <2>3, <2>4, NextCases
<1> QED BY <1>1, <1>2

\* They hold in the beginning, when no process is there.
LEMMA BaseInit == Init => Base
<1> SUFFICES ASSUME Init PROVE Base OBVIOUS
<1>1. NoCollector \in Collector /\ NoCollector.pc = "down" /\ Empty(NoCollector) BY NothingYet
<1>2. ASSUME NEW s \in Catalogue PROVE FirstRow(s) \in Row
  <2>1. NoReport \in Report /\ 1 \in Revision BY DEF NoReport, Report, Revision
  <2> QED BY <2>1 DEF FirstRow, Row
<1>3. NoIngress \in Ingress
  <2>1. 0 \in Gen /\ NoRow \in Row BY <1>2 DEF Gen, NoRow
  <2> QED BY <2>1 DEF NoIngress, Ingress
<1>4. TypeOK
  <2>1. row \in Row /\ used \subseteq Catalogue BY <1>2 DEF Init
  <2> QED BY <1>1, <1>3, <2>1 DEF Init, TypeOK
<1>5. OneEffect BY DEF Init, OneEffect
<1>6. Stages BY <1>1 DEF Init, Stages, Empty
<1> QED BY <1>4, <1>5, <1>6 DEF Base

\* They hold in every state that is reached.
LEMMA BaseAlways == Spec => []Base
BY BaseInit, BaseNext, PTL DEF Spec

\* A process that was taken over has no effect any more, with any edits: of what it queued
\* nothing is written, and what it published does not reach the broker.
THEOREM TakenOverIsSilent == Spec => NoStaleEffect
<1>1. Base /\ [Next]_vars =>
        [\A p \in Proc :
           leader \notin {p, NoProc} /\ col'[p].pc # "down"
             => col[p].queue \subseteq col'[p].queue
                /\ (col[p].conn /\ col'[p].conn => col[p].pub \subseteq col'[p].pub)]_vars
  <2> SUFFICES ASSUME Base, Next, NEW p \in Proc, leader \notin {p, NoProc},
                      col'[p].pc # "down"
               PROVE  col[p].queue \subseteq col'[p].queue /\ col[p].pub = {} OBVIOUS
  <2>0. TypeOK /\ OneEffect /\ Stages BY DEF Base
  <2>1. col[p].pub = {}
    <3>1. p \notin effect BY <2>0 DEF OneEffect
    <3> QED BY <2>0, <3>1, StageOfOne DEF StageOf
  <2>2. CASE col'[p] = col[p] BY <2>1, <2>2
  <2>3. CASE MoverStep(p)
    <3> DEFINE c == col[p]
               d == col'[p]
    <3>1. CASE Acquire(p) BY <3>1 DEF Acquire, LockFree
    <3>2. CASE Terminate(p) \/ Stopped(p) \/ Crash(p)
      <4>1. ~Acquire(p) BY DEF Acquire, LockFree
      <4> QED BY <2>0, <3>2, <4>1, NothingFields
    <3>3. CASE Poll(p) \/ Connect(p) \/ Adopt(p) \/ Compare(p)
      <4>1. d.queue = c.queue
        BY <2>0, <3>3, PollFields, ConnectFields, AdoptFields, CompareFields DEF SameFlow
      <4> QED BY <2>1, <4>1
    <3>4. CASE Apply(p) \/ Subscribe(p) \/ Activate(p) \/ Recover(p)
      <4>1. d.queue = c.queue
        BY <2>0, <3>4, ApplyFields, SubscribeFields, ActivateFields, RecoverFields DEF SameFlow
      <4> QED BY <2>1, <4>1
    <3>5. CASE Drain(p) \/ DrainTimesOut(p)
      <4>1. d.queue = c.queue BY <2>0, <3>5, DrainFields DEF SameFlow
      <4> QED BY <2>1, <4>1
    <3>6. CASE Emit(p)
      <4>1. c.queue \subseteq d.queue BY <2>0, <3>6, EmitFields DEF Fenced
      <4> QED BY <2>1, <4>1
    <3>7. CASE EmitCommit(p) \/ EmitFails(p)
      <4>1. d.queue = c.queue BY <2>0, <3>7, EmitEndFields
      <4> QED BY <2>1, <4>1
    <3>8. CASE Receive(p)
      <4>1. d.queue = c.queue BY <2>0, <3>8, ReceiveFields
      <4> QED BY <2>1, <4>1
    <3>9. CASE Published(p) \/ Write(p) \/ Stop(p) \/ BrokerDrops(p)
      <4>1. ~Write(p) BY DEF Write, Fenced
      <4>2. d.queue = c.queue BY <2>0, <3>9, <4>1, LetGoFields
      <4> QED BY <2>1, <4>2
    <3> QED BY <2>3, <3>1, <3>2, <3>3, <3>4, <3>5, <3>6, <3>7, <3>8, <3>9 DEF MoverStep, Loop
  <2>4. MoverStep(p) \/ col'[p] = col[p]
    <3>1. CASE Aside BY <3>1, AsideAlone
    <3>2. ASSUME NEW q \in Proc, OwnershipLost(q) PROVE col'[p] = col[p] BY <3>2 DEF OwnershipLost
    <3>3. ASSUME NEW q \in Proc, MoverStep(q), q # p PROVE col'[p] = col[p]
      <4>1. Moved(q) BY <3>3, MoverStage DEF MoverStep
      <4> QED BY <2>0, <3>3, <4>1 DEF Moved, TypeOK
    <3> QED BY <3>1, <3>2, <3>3, NextCases
  <2> QED BY <2>2, <2>3, <2>4
<1> QED BY <1>1, BaseAlways, PTL DEF Spec, NoStaleEffect

-----------------------------------------------------------------------------
(* What rests on a revision that was read, when no earlier selection comes *)
(* back.                                                                   *)

PastOf(r, u, n, s) == n <= r.rev /\ s \in u /\ (n >= r.gen <=> s = r.sel)

KnownOf(c, r, u) ==
  /\ c.pc \in Holding =>
       /\ PastOf(r, u, c.snap.rev, c.snap.sel)
       /\ c.snap.rev >= r.gen => c.snap.gen = r.gen
  /\ c.prep # -1 => PastOf(r, u, c.prep, c.fp)

\* Known, of one collector.
LEMMA KnownOfOne ==
  ASSUME Known, NEW p \in Proc
  PROVE  KnownOf(col[p], row, used)
BY DEF Known, KnownOf, Past, PastOf

\* A step of a collector leaves revision, generation and selection of the row.
LEMMA MoverRow ==
  ASSUME TypeOK, NEW p \in Proc, MoverStep(p)
  PROVE  /\ row' \in Row /\ row'.rev = row.rev /\ row'.gen = row.gen /\ row'.sel = row.sel
         /\ row' = row \/ \E s \in Report : row' = [row EXCEPT !.col = s]
<1>1. row \in Row BY DEF TypeOK
<1>2. row' = row \/ \E s \in Report : row' = [row EXCEPT !.col = s]
  <2>1. CASE Loop(p) \/ DrainTimesOut(p) \/ EmitFails(p) BY <2>1, RowOfLoop
  <2>2. CASE Published(p) \/ Write(p) \/ Receive(p) \/ Stop(p) \/ BrokerDrops(p) \/ Crash(p)
    <3>1. row' = row BY <2>2 DEF Published, Write, Receive, Stop, BrokerDrops, Crash
    <3> QED BY <3>1
  <2> QED BY <2>1, <2>2 DEF MoverStep
<1>3. CASE row' = row BY <1>1, <1>3
<1>4. ASSUME NEW s \in Report, row' = [row EXCEPT !.col = s]
      PROVE  row' \in Row /\ row'.rev = row.rev /\ row'.gen = row.gen /\ row'.sel = row.sel
  BY <1>1, <1>4, ReportedRow
<1> QED BY <1>2, <1>3, <1>4

\* A collector that moves goes on knowing what it knew, or reads the row.
LEMMA MoverKnown ==
  ASSUME Base, Known, NEW p \in Proc, MoverStep(p)
  PROVE  KnownOf(col'[p], row, used)
<1> DEFINE c == col[p]
           d == col'[p]
<1>0. TypeOK /\ KnownOf(c, row, used) /\ StageOf(c) BY KnownOfOne, StageOfOne DEF Base
<1>1. CASE Acquire(p) \/ Terminate(p) \/ Stopped(p) \/ Crash(p)
  BY <1>0, <1>1, NothingFields DEF KnownOf, Empty, Holding
<1>2. CASE Poll(p)
  <2>1. /\ Snapshot(row).rev = row.rev /\ Snapshot(row).gen = row.gen
        /\ Snapshot(row).sel = row.sel BY <1>0, SnapshotRow DEF TypeOK
  <2>2. d.snap = Snapshot(row) /\ SamePrep(c, d) BY <1>0, <1>2, PollFields
  <2>3. PastOf(row, used, row.rev, row.sel)
    <3>1. row.rev \in Int /\ row.gen \in 1 .. row.rev /\ row.sel \in used BY <1>0, Fields DEF Known, Revision
    <3> QED BY <3>1 DEF PastOf
  <2> QED BY <1>0, <2>1, <2>2, <2>3 DEF KnownOf, SamePrep
<1>3. CASE Connect(p) BY <1>0, <1>3, ConnectFields DEF KnownOf, Holding
<1>4. CASE Adopt(p) BY <1>0, <1>4, AdoptFields DEF KnownOf, Holding
<1>5. CASE Compare(p) BY <1>0, <1>5, CompareFields DEF KnownOf, Holding
<1>6. CASE Apply(p) BY <1>0, <1>6, ApplyFields DEF KnownOf, Holding, SamePrep
<1>7. CASE Drain(p) \/ DrainTimesOut(p) BY <1>0, <1>7, DrainFields DEF KnownOf, Holding, SamePrep
<1>8. CASE Subscribe(p) BY <1>0, <1>8, SubscribeFields DEF KnownOf, Holding
<1>9. CASE Activate(p) BY <1>0, <1>9, ActivateFields DEF KnownOf, Holding
<1>10. CASE Recover(p) BY <1>0, <1>10, RecoverFields DEF KnownOf, Holding
<1>11. CASE Emit(p) BY <1>0, <1>11, EmitFields DEF KnownOf, Holding, SamePrep
<1>12. CASE EmitCommit(p) \/ EmitFails(p) BY <1>0, <1>12, EmitEndFields DEF KnownOf, Holding, SamePrep
<1>13. CASE Receive(p) BY <1>0, <1>13, ReceiveFields DEF KnownOf, SamePrep
<1>14. CASE Published(p) \/ Write(p) \/ Stop(p) \/ BrokerDrops(p)
  BY <1>0, <1>14, LetGoFields DEF KnownOf, Holding, SamePrep
<1> QED BY <1>1, <1>2, <1>3, <1>4, <1>5, <1>6, <1>7, <1>8, <1>9, <1>10, <1>11, <1>12, <1>13, <1>14
  DEF MoverStep, Loop

\* What was read of the row stays what the row was, as long as no selection comes back.
LEMMA KnownNext ==
  ASSUME Reverts = FALSE, Base, Known, Next
  PROVE  Known'
<1>0. TypeOK /\ row \in Row BY DEF Base, TypeOK
<1>a. row.rev \in Int /\ row.gen \in Int BY <1>0 DEF Row, Revision
<1>b. ASSUME NEW p \in Proc
      PROVE  col[p].snap.rev \in Int /\ col[p].prep \in Int BY <1>0, Fields DEF Revision
<1>c. row.gen \in 1 .. row.rev /\ row.sel \in used BY DEF Known
<1>d. ASSUME row'.gen \in 1 .. row'.rev /\ row'.sel \in used',
             \A p \in Proc : KnownOf(col'[p], row', used')
      PROVE  Known' BY <1>d DEF Known, KnownOf, Past, PastOf
<1>1. ASSUME NEW p \in Proc, MoverStep(p) PROVE Known'
  <2>1. row'.rev = row.rev /\ row'.gen = row.gen /\ row'.sel = row.sel BY <1>0, <1>1, MoverRow
  <2>2. used' = used BY <1>0, <1>1, MoverOwns DEF Base
  <2>3. Moved(p) /\ KnownOf(col'[p], row, used) BY <1>1, MoverStage, MoverKnown DEF MoverStep
  <2>4. ASSUME NEW q \in Proc PROVE KnownOf(col'[q], row, used)
    <3>1. CASE q = p BY <2>3, <3>1
    <3>2. CASE q # p
      <4>1. col'[q] = col[q] BY <1>0, <2>3, <3>2 DEF Moved, TypeOK
      <4> QED BY <4>1, KnownOfOne
    <3> QED BY <3>1, <3>2
  <2>5. \A q \in Proc : KnownOf(col'[q], row', used') BY <2>1, <2>2, <2>4 DEF KnownOf, PastOf
  <2> QED BY <1>c, <1>d, <2>1, <2>2, <2>5
<1>2. CASE \E p \in Proc : OwnershipLost(p)
  <2>1. UNCHANGED <<row, used, col>> BY <1>2 DEF OwnershipLost
  <2> QED BY <2>1 DEF Known, Past
<1>3. CASE Aside
  <2>1. col' = col BY <1>3, AsideAlone
  <2>2. CASE used' = used /\ row' = row BY <2>1, <2>2 DEF Known, Past
  <2>3. ASSUME NEW s \in Report, used' = used, row' = [row EXCEPT !.ing = s] PROVE Known'
    <3>1. row'.rev = row.rev /\ row'.gen = row.gen /\ row'.sel = row.sel BY <1>0, <2>3, ReportedRow
    <3>2. \A q \in Proc : KnownOf(col'[q], row', used') BY <2>1, <2>3, <3>1, KnownOfOne DEF KnownOf, PastOf
    <3> QED BY <1>c, <1>d, <2>3, <3>1, <3>2
  <2>4. CASE /\ used' = used /\ row.rev + 1 \in Revision
             /\ row' = [row EXCEPT !.rev = row.rev + 1, !.col = NoReport, !.ing = NoReport]
    <3>1. row'.rev = row.rev + 1 /\ row'.gen = row.gen /\ row'.sel = row.sel BY <1>0, <2>4 DEF Row
    <3>2. row'.gen \in 1 .. row'.rev /\ row'.sel \in used' BY <1>a, <1>c, <2>4, <3>1
    <3>3. \A n \in Int : \A s : PastOf(row, used, n, s) => PastOf(row', used', n, s)
      BY <1>a, <2>4, <3>1 DEF PastOf
    <3>4. ASSUME NEW p \in Proc PROVE KnownOf(col'[p], row', used')
      BY <1>b, <2>1, <3>1, <3>3, KnownOfOne DEF KnownOf
    <3> QED BY <1>d, <3>2, <3>4
  <2>5. ASSUME NEW s \in Catalogue,
               used' = used \cup {s}, row.rev + 1 \in Revision, s \notin used,
               row' = [rev |-> row.rev + 1, gen |-> row.rev + 1, sel |-> s,
                       col |-> NoReport, ing |-> NoReport]
        PROVE  Known'
    <3>1. row'.rev = row.rev + 1 /\ row'.gen = row.rev + 1 /\ row'.sel = s BY <2>5
    <3>2. row'.gen \in 1 .. row'.rev /\ row'.sel \in used' BY <1>a, <1>c, <2>5, <3>1
    <3>3. \A n \in Int : \A t :
            PastOf(row, used, n, t) => PastOf(row', used', n, t) /\ ~(n >= row'.gen)
      BY <1>a, <2>5, <3>1 DEF PastOf
    <3>4. ASSUME NEW p \in Proc PROVE KnownOf(col'[p], row', used')
      BY <1>b, <2>1, <3>3, KnownOfOne DEF KnownOf
    <3> QED BY <1>d, <3>2, <3>4
  <2> QED BY <1>0, <1>3, <2>2, <2>3, <2>4, <2>5, AsideTypes
<1> QED BY <1>1, <1>2, <1>3, NextCases

-----------------------------------------------------------------------------
(* What the leader has between the broker and the cache.                   *)

CleanOf(c, g) ==
  c.queue \cup c.pub \cup c.buf \cup c.obs \subseteq {g} /\ c.routes \in {0, g}

LeadOf(c, r, k) ==
  /\ c.pc = "subscribe" => k = {}
  /\ c.prep >= r.gen => CleanOf(c, r.gen) /\ k \subseteq {r.gen}
  /\ Prepared(r) => CleanOf(c, r.gen)
  /\ r.col.rev = r.rev /\ c.pc \in Holding => c.snap.rev = r.rev

\* Leading, of the collector that leads.
LEMMA LeadingIs ==
  Leading <=> (leader # NoProc => LeadOf(col[leader], row, cache))
BY DEF Leading, LeadOf, Clean, CleanOf

\* A collector that lets go of some of what it has stays clean.
LEMMA ShrinksClean ==
  ASSUME NEW c, NEW d, NEW g, Shrinks(c, d), CleanOf(c, g)
  PROVE  CleanOf(d, g)
BY DEF Shrinks, CleanOf

\* The leader's own step, by what it does to its report and to its flow.
LEMMA LeaderStep ==
  ASSUME Base, Known, Leading, NEW p \in Proc, MoverStep(p), leader' = p
  PROVE  LeadOf(col'[p], row', cache')
<1> DEFINE c == col[p]
           d == col'[p]
           g == row.gen
<1>0. /\ TypeOK /\ StageOf(c) /\ KnownOf(c, row, used) /\ g \in Int /\ g >= 1
      /\ c.snap.rev \in Int /\ c.prep \in Int /\ row.rev \in Int /\ row.rev >= g
  BY StageOfOne, KnownOfOne, Fields DEF Base, Revision, Known
<1>a. p # NoProc OBVIOUS
<1>b. row'.rev = row.rev /\ row'.gen = g BY <1>0, MoverRow
<1>c. leader = p \/ Acquire(p) BY <1>0, <1>a, MoverOwns DEF Base
<1>d. leader = p => LeadOf(c, row, cache) BY <1>a, LeadingIs
<1>1. CASE Acquire(p) \/ Terminate(p) \/ Stopped(p) \/ Crash(p)
  <2>1. Empty(d) /\ d.pc \in {"down", "loop"} BY <1>0, <1>1, NothingFields
  <2>2. CleanOf(d, g) /\ ~(d.prep >= g) BY <1>0, <2>1 DEF Empty, CleanOf
  <2> QED BY <1>b, <2>1, <2>2 DEF LeadOf, Holding
<1>2. CASE Poll(p)
  <2>1. leader = p /\ row' = row /\ cache' = cache BY <1>2 DEF Poll, Fenced
  <2>2. /\ d.pc = "refresh" /\ d.snap.rev = row.rev
        /\ SameFlow(c, d) /\ d.prep = c.prep BY <1>0, <1>2, PollFields, SnapshotRow DEF TypeOK, SamePrep
  <2>3. CleanOf(c, g) => CleanOf(d, g) BY <2>2 DEF SameFlow, CleanOf
  <2> QED BY <1>d, <2>1, <2>2, <2>3 DEF LeadOf
<1>3. CASE Connect(p)
  <2>1. leader = p /\ row' = row /\ cache' = cache BY <1>3, <1>c DEF Connect, Acquire, At
  <2>2. /\ c.pc = "refresh" /\ d.pc # "subscribe" /\ d.snap = c.snap /\ d.prep = -1
        /\ CleanOf(c, g) => CleanOf(d, g) BY <1>0, <1>3, ConnectFields DEF CleanOf
  <2> QED BY <1>0, <1>d, <2>1, <2>2 DEF LeadOf, Holding
<1>4. CASE Adopt(p)
  <2>1. leader = p /\ row' = row /\ cache' = cache BY <1>4, <1>c DEF Adopt, Acquire, At
  <2>2. /\ c.pc = "refresh" /\ d.pc # "subscribe" /\ d.snap = c.snap /\ d.prep = c.snap.rev
        /\ c.prep # -1 /\ c.fp = c.snap.sel /\ SameFlow(c, d) BY <1>0, <1>4, AdoptFields
  <2>3. CleanOf(c, g) => CleanOf(d, g) BY <2>2 DEF SameFlow, CleanOf
  <2>4. c.snap.rev >= g => c.prep >= g BY <1>0, <2>2 DEF KnownOf, PastOf, Holding
  <2> QED BY <1>d, <2>1, <2>2, <2>3, <2>4 DEF LeadOf, Holding
<1>5. CASE Compare(p)
  <2>1. leader = p /\ row' = row /\ cache' = cache BY <1>5, <1>c DEF Compare, Acquire, At
  <2>2. /\ c.pc = "refresh" /\ d.pc # "subscribe" /\ d.snap = c.snap /\ d.prep = c.prep
        /\ SameFlow(c, d) BY <1>0, <1>5, CompareFields
  <2>3. CleanOf(c, g) => CleanOf(d, g) BY <2>2 DEF SameFlow, CleanOf
  <2> QED BY <1>d, <2>1, <2>2, <2>3 DEF LeadOf, Holding
<1>6. CASE Apply(p)
  <2> DEFINE s == [rev |-> c.snap.rev, status |-> "applying"]
  <2>1. leader = p /\ cache' = cache BY <1>6, <1>c DEF Apply, Refused, Acquire, At
  <2>2. /\ c.pc = "apply" /\ d.pc # "subscribe" /\ d.snap = c.snap /\ d.prep = c.prep
        /\ row' = row \/ (row.rev = c.snap.rev /\ row' = [row EXCEPT !.col = s])
        /\ CleanOf(c, g) => CleanOf(d, g) BY <1>0, <1>6, ApplyFields DEF SaveReport, SamePrep, CleanOf
  <2>3. CASE row' = row BY <1>d, <2>1, <2>2, <2>3 DEF LeadOf, Holding
  <2>4. CASE row.rev = c.snap.rev /\ row' = [row EXCEPT !.col = s]
    <3>1. row'.col = s BY <1>0, <2>4 DEF TypeOK, Row
    <3>2. ~Prepared(row') BY <3>1 DEF Prepared
    <3> QED BY <1>b, <1>d, <2>1, <2>2, <2>4, <3>2 DEF LeadOf
  <2> QED BY <2>2, <2>3, <2>4
<1>7. CASE Drain(p) \/ DrainTimesOut(p)
  <2>1. leader = p /\ row' = row BY <1>7, <1>c DEF Drain, DrainTimesOut, Refused, Acquire, At
  <2>2. /\ c.pc = "drain" /\ d.snap = c.snap /\ d.prep = c.prep
        /\ d.pc = "subscribe" => cache' = {}
        /\ d.pc = "error" => cache' = cache
        /\ d.pc \in {"error", "subscribe"} /\ SameFlow(c, d) BY <1>0, <1>7, DrainFields DEF SamePrep
  <2>3. CleanOf(c, g) => CleanOf(d, g) BY <2>2 DEF SameFlow, CleanOf
  <2> QED BY <1>d, <2>1, <2>2, <2>3 DEF LeadOf, Holding
<1>8. CASE Subscribe(p)
  <2> DEFINE s == [rev |-> c.snap.rev, status |-> "prepared"]
  <2>1. leader = p /\ cache' = cache BY <1>8, <1>c DEF Subscribe, Refused, Acquire, At
  <2>2. /\ c.pc = "subscribe" /\ d.pc \in {"error", "activate"} /\ d.snap = c.snap
        /\ row' = row \/ row.rev = c.snap.rev
        /\ SameFlow(c, d) BY <1>0, <1>8, SubscribeFields DEF SaveReport
  <2>3. d.pc = "error" => row' = row BY <1>0, <1>8, SubscribeFields
  <2>4. CleanOf(d, g) BY <1>0, <2>2 DEF StageOf, SameFlow, CleanOf
  <2>5. cache = {} BY <1>d, <2>1, <2>2 DEF LeadOf
  <2> QED BY <1>b, <1>d, <2>1, <2>2, <2>3, <2>4, <2>5 DEF LeadOf, Holding
<1>9. CASE Activate(p)
  <2>1. leader = p /\ cache' = cache BY <1>9, <1>c DEF Activate, Refused, Acquire, At
  <2>2. /\ c.pc = "activate" /\ d.pc \in {"error", "loop"} /\ d.prep = c.prep
        /\ row' = row \/ row.rev = c.snap.rev
        /\ d.queue = c.queue /\ d.pub = c.pub /\ d.obs = c.obs
        /\ \/ d.routes = c.routes /\ d.buf = c.buf
           \/ d.routes = c.snap.gen /\ d.buf = {} BY <1>0, <1>9, ActivateFields DEF Reported
  <2>3. c.prep = c.snap.rev BY <1>0, <2>2 DEF StageOf
  <2>4. c.prep >= g => CleanOf(d, g) /\ cache \subseteq {g}
    <3>1. c.prep >= g => c.snap.gen = g BY <1>0, <2>2, <2>3 DEF KnownOf, Holding
    <3> QED BY <1>d, <2>1, <2>2, <3>1 DEF LeadOf, CleanOf
  <2>5. Prepared(row') => c.prep >= g
    <3>1. CASE row.rev = c.snap.rev BY <1>0, <2>3, <3>1
    <3>2. CASE row' = row BY <1>0, <1>d, <2>1, <2>2, <2>3, <3>2 DEF LeadOf, Prepared, Holding
    <3> QED BY <2>2, <3>1, <3>2
  <2> QED BY <1>b, <2>1, <2>2, <2>4, <2>5 DEF LeadOf, Holding
<1>10. CASE Recover(p)
  <2>1. leader = p /\ cache' = cache BY <1>10, <1>c DEF Recover, Acquire, At
  <2>2. /\ d.pc = "loop" /\ d.prep = -1
        /\ row' = row \/ \E s \in Report : s.status = "error" /\ row' = [row EXCEPT !.col = s]
        /\ CleanOf(c, g) => CleanOf(d, g) BY <1>0, <1>10, RecoverFields DEF CleanOf
  <2>3. CASE row' = row BY <1>0, <1>d, <2>1, <2>2, <2>3 DEF LeadOf, Holding
  <2>4. ASSUME NEW s \in Report, s.status = "error", row' = [row EXCEPT !.col = s]
        PROVE  LeadOf(d, row', cache')
    <3>1. row'.col = s BY <1>0, <2>4 DEF TypeOK, Row
    <3>2. ~Prepared(row') BY <2>4, <3>1 DEF Prepared
    <3> QED BY <1>0, <1>b, <2>2, <3>2 DEF LeadOf, Holding
  <2> QED BY <2>2, <2>3, <2>4
<1>11. CASE Emit(p)
  <2>1. leader = p /\ row' = row /\ cache' = cache BY <1>11, <1>c DEF Emit, Acquire, At
  <2>2. d.prep = c.prep /\ d.pc \in {"emit", "error"} /\ (CleanOf(c, g) => CleanOf(d, g))
    BY <1>0, <1>11, EmitFields DEF SamePrep, CleanOf
  <2> QED BY <1>d, <2>1, <2>2 DEF LeadOf, Holding
<1>12. CASE EmitCommit(p) \/ EmitFails(p)
  <2>1. leader = p /\ row' = row BY <1>12, <1>c DEF EmitCommit, EmitFails, Acquire, At
  <2>2. /\ d.prep = c.prep /\ d.pc \in {"loop", "error"} /\ Shrinks(c, d)
        /\ cache' \in {cache, cache \cup c.obs} BY <1>0, <1>12, EmitEndFields DEF SamePrep
  <2>3. CleanOf(c, g) => CleanOf(d, g) /\ c.obs \subseteq {g} BY <2>2, ShrinksClean DEF CleanOf
  <2> QED BY <1>d, <2>1, <2>2, <2>3 DEF LeadOf, Holding
<1>13. CASE Receive(p)
  <2>1. leader = p /\ row' = row /\ cache' = cache
    BY <1>0, <1>13, <1>c, NothingFields, ReceiveFields DEF Receive, Empty, Acquire
  <2>2. /\ d.prep = c.prep /\ d.pc = c.pc /\ d.snap = c.snap
        /\ CleanOf(c, g) => CleanOf(d, g) BY <1>0, <1>13, ReceiveFields DEF SamePrep, CleanOf
  <2> QED BY <1>d, <2>1, <2>2 DEF LeadOf
<1>14. CASE Published(p) \/ Write(p) \/ Stop(p) \/ BrokerDrops(p)
  <2>1. leader' = leader /\ row' = row /\ cache' = cache BY <1>14 DEF Published, Write, Stop, BrokerDrops
  <2>2. /\ d.prep = c.prep /\ d.snap = c.snap /\ Shrinks(c, d)
        /\ d.pc = c.pc \/ d.pc = "stop" BY <1>0, <1>14, LetGoFields DEF SamePrep
  <2>3. CleanOf(c, g) => CleanOf(d, g) BY <2>2, ShrinksClean
  <2> QED BY <1>d, <2>1, <2>2, <2>3 DEF LeadOf, Holding
<1> QED BY <1>1, <1>2, <1>3, <1>4, <1>5, <1>6, <1>7, <1>8, <1>9, <1>10, <1>11, <1>12, <1>13, <1>14
  DEF MoverStep, Loop

\* The step of another leaves the row and the cache to the leader.
LEMMA OthersStep ==
  ASSUME Base, NEW p \in Proc, MoverStep(p), leader # p, leader # NoProc
  PROVE  row' = row /\ cache' = cache
<1>0. TypeOK /\ OneEffect /\ Stages BY DEF Base
<1>1. p \notin effect /\ col[p].pc # "emit" BY <1>0, StageOfOne DEF OneEffect
<1>2. ~EmitCommit(p) /\ ~Acquire(p) /\ ~Fenced(p) BY <1>1 DEF EmitCommit, At, Acquire, LockFree, Fenced
<1>3. row' = row BY <1>2 DEF MoverStep, Loop, Terminate, Poll, Connect, Adopt, Compare, Apply, Drain,
         Subscribe, Activate, Recover, Emit, Stopped, DrainTimesOut, EmitFails,
         Published, Write, Receive, Stop, BrokerDrops, Crash, Refused
<1>4. cache' = cache BY <1>2 DEF MoverStep, Loop, Terminate, Poll, Connect, Adopt, Compare, Apply, Drain,
         Subscribe, Activate, Recover, Emit, Stopped, DrainTimesOut, EmitFails,
         Published, Write, Receive, Stop, BrokerDrops, Crash, Refused
<1> QED BY <1>3, <1>4

\* Nothing of another generation is with the leader, by every step.
LEMMA LeadingNext ==
  ASSUME Base, Known, Leading, Next
  PROVE  Leading'
<1>0. TypeOK /\ OneEffect /\ row \in Row BY DEF Base, TypeOK
<1>a. Leading' <=> (leader' # NoProc => LeadOf(col'[leader'], row', cache'))
  BY DEF Leading, LeadOf, Clean, CleanOf
<1>1. ASSUME NEW p \in Proc, MoverStep(p) PROVE Leading'
  <2>1. CASE leader' = NoProc BY <1>a, <2>1
  <2>2. CASE leader' = p BY <1>1, <1>a, <2>2, LeaderStep
  <2>3. CASE leader' \notin {p, NoProc}
    <3>1. leader' = leader /\ leader \in Proc BY <1>0, <1>1, <2>3, MoverOwns
    <3>2. row' = row /\ cache' = cache BY <1>1, <2>3, <3>1, OthersStep
    <3>3. Moved(p) BY <1>1, MoverStage DEF MoverStep
    <3>4. col'[leader] = col[leader] BY <1>0, <2>3, <3>1, <3>3 DEF Moved, TypeOK
    <3> QED BY <1>a, <2>3, <3>1, <3>2, <3>4, LeadingIs
  <2> QED BY <2>1, <2>2, <2>3
<1>2. CASE \E p \in Proc : OwnershipLost(p)
  <2>1. leader' = NoProc BY <1>2 DEF OwnershipLost
  <2> QED BY <1>a, <2>1
<1>3. CASE Aside
  <2>1. UNCHANGED <<cache, leader, col>> BY <1>3, AsideAlone
  <2>2. CASE leader = NoProc BY <1>a, <2>1, <2>2
  <2>3. CASE leader # NoProc
    <3> DEFINE c == col[leader]
    <3>1. LeadOf(c, row, cache) BY <2>3, LeadingIs
    <3>2. leader \in Proc BY <1>0, <2>3 DEF TypeOK
    <3>3. /\ c.prep \in Int /\ row.rev \in Int /\ row.gen \in Int
          /\ row.rev >= 1
          /\ c.prep # -1 => c.prep <= row.rev BY <1>0, <3>2, Fields, KnownOfOne DEF Revision, KnownOf, PastOf
    <3>4. CASE row' = row BY <1>a, <2>1, <3>1, <3>4
    <3>5. ASSUME NEW s \in Report, row' = [row EXCEPT !.ing = s] PROVE Leading'
      <4>1. row'.rev = row.rev /\ row'.gen = row.gen /\ row'.col = row.col BY <1>0, <3>5, ReportedRow
      <4> QED BY <1>a, <2>1, <3>1, <4>1 DEF LeadOf, Prepared
    <3>6. CASE /\ row.rev + 1 \in Revision
               /\ row' = [row EXCEPT !.rev = row.rev + 1, !.col = NoReport, !.ing = NoReport]
      <4>1. row'.rev = row.rev + 1 /\ row'.gen = row.gen /\ row'.col = NoReport BY <1>0, <3>6 DEF Row
      <4>2. row'.col.rev # row'.rev BY <3>3, <4>1 DEF NoReport
      <4> QED BY <1>a, <2>1, <3>1, <4>1, <4>2 DEF LeadOf, Prepared
    <3>7. ASSUME NEW s \in Catalogue,
                 row' = [rev |-> row.rev + 1, gen |-> row.rev + 1, sel |-> s,
                         col |-> NoReport, ing |-> NoReport]
          PROVE  Leading'
      <4>1. row'.rev = row.rev + 1 /\ row'.gen = row.rev + 1 /\ row'.col = NoReport BY <3>7
      <4>2. row'.col.rev # row'.rev /\ ~(c.prep >= row'.gen) BY <3>3, <4>1 DEF NoReport
      <4> QED BY <1>a, <2>1, <3>1, <4>2 DEF LeadOf, Prepared
    <3> QED BY <1>0, <1>3, <3>4, <3>5, <3>6, <3>7, AsideTypes
  <2> QED BY <2>2, <2>3
<1> QED BY <1>1, <1>2, <1>3, NextCases

\* Of OnlyPresent what does not rest on the leader: the cache and the open transactions.
Cached ==
  Prepared(row) =>
    /\ cache \subseteq {row.gen}
    /\ \A p \in effect : col[p].obs \subseteq {row.gen}

\* No step brings readings of another generation into the cache of a prepared one.
LEMMA CachedNext ==
  ASSUME Base, Known, Leading, Cached, Next
  PROVE  Cached'
<1>0. TypeOK /\ OneEffect /\ Stages /\ row \in Row BY DEF Base, TypeOK
<1>1. ASSUME NEW p \in Proc, MoverStep(p) PROVE Cached'
  <2> DEFINE c == col[p]
             d == col'[p]
  <2>1. row'.rev = row.rev /\ row'.gen = row.gen BY <1>0, <1>1, MoverRow
  <2>2. /\ Moved(p) /\ (p \in effect' <=> d.pc = "emit") /\ (p \in effect <=> c.pc = "emit")
        /\ effect' \subseteq effect \cup {p} BY <1>1, <1>0, MoverStage, StageOfOne DEF MoverStep
  <2>3. \A q \in effect' \ {p} : q \in effect /\ col'[q] = col[q]
    <3>1. effect \subseteq Proc BY <1>0 DEF TypeOK
    <3> QED BY <1>0, <2>2, <3>1 DEF Moved, TypeOK
  <2>4. CASE row' # row
    <3>1. Apply(p) \/ Subscribe(p) \/ Activate(p) \/ Recover(p)
      BY <1>1, <2>4 DEF MoverStep, Loop, Acquire, Terminate, Poll, Connect, Adopt, Compare,
         Drain, Emit, EmitCommit, Stopped, DrainTimesOut, EmitFails, Published, Write,
         Receive, Stop, BrokerDrops, Crash, Refused
    <3>2. leader = p /\ leader' = p /\ cache' = cache /\ effect' = effect
      BY <2>4, <3>1 DEF Apply, Subscribe, Activate, Recover, Refused, Fenced
    <3>3. c.pc # "emit" BY <3>1 DEF Apply, Subscribe, Activate, Recover, At
    <3>4. effect' = {} BY <1>0, <2>2, <3>2, <3>3 DEF OneEffect
    <3>5. LeadOf(c, row, cache) /\ LeadOf(d, row', cache)
      <4>1. p # NoProc OBVIOUS
      <4> QED BY <1>1, <3>2, <4>1, LeadingIs, LeaderStep
    <3>6. Prepared(row') => cache \subseteq {row.gen}
      <4>1. CASE Apply(p)
        <5> DEFINE s == [rev |-> c.snap.rev, status |-> "applying"]
        <5>1. row' = [row EXCEPT !.col = s] BY <1>0, <2>4, <4>1, ApplyFields DEF SaveReport
        <5>2. row'.col = s BY <1>0, <5>1 DEF Row
        <5> QED BY <5>2 DEF Prepared
      <4>2. CASE Subscribe(p)
        <5>1. c.pc = "subscribe" BY <1>0, <4>2, SubscribeFields
        <5> QED BY <3>5, <5>1 DEF LeadOf
      <4>3. CASE Activate(p)
        <5>1. c.pc = "activate" /\ d.prep = c.prep /\ row.rev = c.snap.rev
          BY <1>0, <2>4, <4>3, ActivateFields DEF Reported
        <5>2. c.prep >= row.gen
          <6>1. c.prep = c.snap.rev BY <1>0, <5>1, StageOfOne DEF StageOf
          <6>2. row.rev >= row.gen BY <1>0 DEF Known, Row, Revision
          <6> QED BY <5>1, <6>1, <6>2
        <5> QED BY <3>5, <5>2 DEF LeadOf
      <4>4. CASE Recover(p)
        <5>1. PICK s \in Report : s.status = "error" /\ row' = [row EXCEPT !.col = s]
          BY <1>0, <2>4, <4>4, RecoverFields
        <5>2. row'.col = s BY <1>0, <5>1 DEF Row
        <5> QED BY <5>1, <5>2 DEF Prepared
      <4> QED BY <3>1, <4>1, <4>2, <4>3, <4>4
    <3> QED BY <2>1, <3>2, <3>4, <3>6 DEF Cached
  <2>5. CASE row' = row
    <3> SUFFICES ASSUME Prepared(row)
                 PROVE  cache' \subseteq {row.gen} /\ \A q \in effect' : col'[q].obs \subseteq {row.gen}
      BY <2>5 DEF Cached
    <3>1. /\ cache \subseteq {row.gen}
          /\ \A q \in effect : col[q].obs \subseteq {row.gen} BY DEF Cached
    <3>2. cache' \in {cache, {}} \/ (p \in effect /\ cache' = cache \cup c.obs)
      <4>1. EmitCommit(p) => p \in effect BY <2>2 DEF EmitCommit, At
      <4> QED BY <1>1, <4>1 DEF MoverStep, Loop, Acquire, Terminate, Poll, Connect, Adopt, Compare,
           Apply, Drain, Subscribe, Activate, Recover, Emit, EmitCommit, Stopped,
           DrainTimesOut, EmitFails, Published, Write, Receive, Stop, BrokerDrops, Crash, Refused
    <3>3. p \in effect' => d.obs \subseteq {row.gen}
      <4>1. CASE Emit(p)
        <5>1. p \in effect' => leader = p /\ d.obs = c.buf BY <1>0, <2>2, <4>1, EmitFields DEF Fenced
        <5>2. leader = p => c.buf \subseteq {row.gen}
          <6>1. p # NoProc OBVIOUS
          <6> QED BY <6>1, LeadingIs DEF LeadOf, CleanOf
        <5> QED BY <5>1, <5>2
      <4>2. CASE Receive(p) BY <1>0, <2>2, <3>1, <4>2, ReceiveFields
      <4>3. CASE Published(p) \/ Write(p) \/ Stop(p) \/ BrokerDrops(p)
        <5>1. d.obs \subseteq c.obs /\ (d.pc = "emit" => c.pc = "emit") BY <1>0, <4>3, LetGoFields DEF Shrinks
        <5> QED BY <2>2, <3>1, <5>1
      <4>4. CASE ~(Emit(p) \/ Receive(p) \/ Published(p) \/ Write(p) \/ Stop(p) \/ BrokerDrops(p))
        <5>1. CASE Acquire(p) \/ Terminate(p) \/ Stopped(p) \/ Crash(p) BY <1>0, <2>2, <5>1, NothingFields
        <5>2. CASE Poll(p) \/ Connect(p) \/ Adopt(p) \/ Compare(p)
          BY <1>0, <2>2, <5>2, PollFields, ConnectFields, AdoptFields, CompareFields
        <5>3. CASE Apply(p) \/ Drain(p) \/ DrainTimesOut(p) \/ Subscribe(p)
          BY <1>0, <2>2, <5>3, ApplyFields, DrainFields, SubscribeFields
        <5>4. CASE Activate(p) \/ Recover(p) \/ EmitCommit(p) \/ EmitFails(p)
          BY <1>0, <2>2, <5>4, ActivateFields, RecoverFields, EmitEndFields
        <5> QED BY <1>1, <4>4, <5>1, <5>2, <5>3, <5>4 DEF MoverStep, Loop
      <4> QED BY <4>1, <4>2, <4>3, <4>4
    <3> QED BY <2>3, <3>1, <3>2, <3>3
  <2> QED BY <2>4, <2>5
<1>2. CASE \E p \in Proc : OwnershipLost(p)
  <2>1. UNCHANGED <<row, cache, effect, col>> BY <1>2 DEF OwnershipLost
  <2> QED BY <2>1 DEF Cached, Prepared
<1>3. CASE Aside
  <2>1. UNCHANGED <<cache, effect, col>> BY <1>3, AsideAlone
  <2>2. row.rev \in Int /\ row.rev >= 1 BY <1>0 DEF Row, Revision
  <2>3. CASE row' = row BY <2>1, <2>3 DEF Cached, Prepared
  <2>4. ASSUME NEW s \in Report, row' = [row EXCEPT !.ing = s] PROVE Cached'
    <3>1. row'.rev = row.rev /\ row'.gen = row.gen /\ row'.col = row.col BY <1>0, <2>4, ReportedRow
    <3> QED BY <2>1, <3>1 DEF Cached, Prepared
  <2>5. CASE row' = [row EXCEPT !.rev = row.rev + 1, !.col = NoReport, !.ing = NoReport]
    <3>1. row'.rev = row.rev + 1 /\ row'.col = NoReport BY <1>0, <2>5 DEF Row
    <3> QED BY <2>2, <3>1 DEF Cached, Prepared, NoReport
  <2>6. CASE \E s \in Catalogue :
               row' = [rev |-> row.rev + 1, gen |-> row.rev + 1, sel |-> s,
                       col |-> NoReport, ing |-> NoReport]
    <3>1. row'.rev = row.rev + 1 /\ row'.col = NoReport BY <2>6
    <3> QED BY <2>2, <3>1 DEF Cached, Prepared, NoReport
  <2> QED BY <1>0, <1>3, <2>3, <2>4, <2>5, <2>6, AsideTypes
<1> QED BY <1>1, <1>2, <1>3, NextCases

\* The inductive invariant.
Whole == Base /\ Known /\ Leading /\ Cached

\* It holds in the beginning, when no process is there and the cache is empty.
LEMMA WholeInit == Init => Whole
<1> SUFFICES ASSUME Init PROVE Whole OBVIOUS
<1>1. NoCollector.pc = "down" /\ NoCollector.prep = -1 BY DEF NoCollector
<1>2. PICK s \in Initial : row = FirstRow(s) /\ used = {s} BY DEF Init
<1>3. row.rev = 1 /\ row.gen = 1 /\ row.sel = s BY <1>2 DEF FirstRow
<1>4. Known BY <1>1, <1>2, <1>3 DEF Init, Known, Holding
<1>5. Leading /\ Cached BY DEF Init, Leading, Cached
<1> QED BY <1>4, <1>5, BaseInit DEF Whole

\* Every step keeps it, as long as no selection comes back.
LEMMA WholeNext ==
  ASSUME Reverts = FALSE
  PROVE  Whole /\ [Next]_vars => Whole'
<1>1. ASSUME Whole, Next PROVE Whole' BY <1>1, BaseNext, KnownNext, LeadingNext, CachedNext DEF Whole
<1>2. ASSUME Whole, UNCHANGED vars PROVE Whole'
  <2>1. Base' BY <1>2, BaseNext DEF Whole
  <2>2. Known' /\ Cached' BY <1>2 DEF Whole, vars, Known, Past, Cached, Prepared
  <2>3. Leading' BY <1>2 DEF Whole, vars, Leading, Clean, Prepared
  <2> QED BY <2>1, <2>2, <2>3 DEF Whole
<1> QED BY <1>1, <1>2

\* Every part of CollectionInvariant follows from it.
LEMMA WholeGives == Whole => CollectionInvariant
<1> SUFFICES ASSUME Whole PROVE CollectionInvariant OBVIOUS
<1>1. TypeOK /\ OneEffect /\ Stages /\ Known /\ Leading /\ Cached BY DEF Whole, Base
<1>2. OnlyPresent BY <1>1, LeadingIs DEF OnlyPresent, Cached, LeadOf, CleanOf
<1>3. Routed
  <2> SUFFICES ASSUME NEW p \in Proc, col[p].rev = row.rev, leader = p
               PROVE  col[p].routes \in {0, row.gen} BY DEF Routed, Fenced
  <2>1. p # NoProc /\ LeadOf(col[p], row, cache) BY <1>1, LeadingIs
  <2>2. row.rev \in Int /\ row.rev >= row.gen /\ row.rev >= 1 BY <1>1, Fields DEF Known, Revision
  <2>3. col[p].rev \in {-1, col[p].prep} BY <1>1, StageOfOne DEF StageOf
  <2>4. col[p].prep >= row.gen BY <2>2, <2>3
  <2> QED BY <2>1, <2>4 DEF LeadOf, CleanOf
<1> QED BY <1>1, <1>2, <1>3 DEF CollectionInvariant

\* When no edit brings an earlier selection back, nothing of another generation is in the
\* cache, on its way into it or published once the present one is prepared, whoever leads
\* and however often the leadership changed hands.
THEOREM CollectionHolds ==
  ASSUME Reverts = FALSE
  PROVE  Spec => []CollectionInvariant
BY WholeInit, WholeNext, WholeGives, PTL DEF Spec
=============================================================================
