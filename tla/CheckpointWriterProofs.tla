------------------------ MODULE CheckpointWriterProofs ------------------------
(***************************************************************************)
(* What holds of the checkpoint and evidence writer for every number of    *)
(* workers, results and snapshots, and for queues and chunks of any size.  *)
(*                                                                         *)
(* The lemmas on the state of a worker are about values: what each part of *)
(* a step makes of its fields, and that it keeps what is whole about it.   *)
(* Then come the queue and the batch, the signatures, and the record of    *)
(* the run that the workers implement.                                     *)
(***************************************************************************)
EXTENDS CheckpointWriter, SequenceTheorems, TLAPS

USE ConstantsAssumption

-----------------------------------------------------------------------------
(* The state of a worker and what the parts of a step make of it.          *)

\* The types of the fields.
LEMMA StateFields ==
  ASSUME NEW s \in WorkerState
  PROVE  /\ s.phase \in Phase /\ s.hist \in Seq(Worker) /\ s.uncertain \in BOOLEAN
         /\ s.queue \in Seq(Position) /\ s.flight \in Flight /\ s.sig \in Token
         /\ s.pend \in Token /\ s.saves \in Nat /\ s.fenced \in BOOLEAN
         /\ s.closed \in BOOLEAN /\ s.main \in Main /\ s.loop \in Loop /\ s.beat \in Beat
         /\ s.flight.todo \in Seq(Position) /\ s.flight.kept \in Seq(Position)
         /\ s.flight.count \in Nat
<1>1. s.flight \in Flight BY DEF WorkerState
<1> QED BY <1>1 DEF WorkerState, Flight

SameData(s, d) ==
  d.hist = s.hist /\ d.sig = s.sig /\ d.saves = s.saves /\ d.uncertain = s.uncertain

SameFlow(s, d) == d.queue = s.queue /\ d.flight = s.flight

\* Nothing is in flight in NoFlight.
LEMMA NoFlightTyped ==
  /\ NoFlight \in Flight /\ NoFlight.todo = <<>> /\ NoFlight.kept = <<>> /\ NoFlight.count = 0
  /\ Positions(<<>>) = {}
BY DEF NoFlight, Flight, Positions

\* A process that is not there is a worker's state.
LEMMA NewTyped ==
  ASSUME NEW ph \in Phase
  PROVE  LET d == [NewWorker EXCEPT !.phase = ph]
         IN /\ d \in WorkerState /\ d.phase = ph /\ d.hist = <<>> /\ ~d.uncertain
            /\ d.queue = <<>> /\ d.flight = NoFlight /\ d.sig = NoToken /\ d.pend = NoToken
            /\ d.saves = 0 /\ ~d.fenced /\ ~d.closed /\ d.main = "idle" /\ d.loop = "idle"
            /\ d.beat = "idle"
<1>1. NoToken \in Token BY DEF NoToken, Token
<1>2. NewWorker \in WorkerState BY <1>1, NoFlightTyped DEF NewWorker, WorkerState, Phase, Main, Loop, Beat
<1> QED BY <1>2 DEF NewWorker, WorkerState

\* Fenced.
LEMMA FencedFields ==
  ASSUME NEW s \in WorkerState
  PROVE  LET d == Fenced(s)
         IN /\ d \in WorkerState /\ d.fenced /\ d.closed /\ d.phase = s.phase /\ d.main = s.main
            /\ d.loop = s.loop /\ d.pend = s.pend /\ d.beat = s.beat
            /\ SameData(s, d) /\ SameFlow(s, d)
BY DEF Fenced, WorkerState, SameData, SameFlow

\* Stopping.
LEMMA StoppingFields ==
  ASSUME NEW s \in WorkerState
  PROVE  LET d == Stopping(s)
         IN /\ d \in WorkerState /\ d.fenced = s.fenced /\ d.main = "idle"
            /\ d.loop = s.loop /\ d.pend = s.pend /\ d.beat = s.beat
            /\ SameData(s, d) /\ SameFlow(s, d)
            /\ \/ s.phase = "stopping" /\ d.phase = "draining" /\ d.closed
               \/ s.phase # "stopping" /\ d.phase = "stopping" /\ d.closed = s.closed
<1> DEFINE d1 == [s EXCEPT !.main = "idle", !.phase = "draining", !.closed = TRUE]
           d2 == [s EXCEPT !.main = "idle", !.phase = "stopping"]
<1>1. d1 \in WorkerState /\ d2 \in WorkerState BY DEF WorkerState, Main, Phase
<1>2. CASE s.phase = "stopping"
  <2>1. Stopping(s) = d1 BY <1>2 DEF Stopping
  <2>2. /\ d1.phase = "draining" /\ d1.closed /\ d1.fenced = s.fenced /\ d1.main = "idle"
        /\ d1.loop = s.loop /\ d1.pend = s.pend /\ d1.beat = s.beat
        /\ SameData(s, d1) /\ SameFlow(s, d1) BY DEF WorkerState, SameData, SameFlow
  <2> QED BY <1>1, <1>2, <2>1, <2>2
<1>3. CASE s.phase # "stopping"
  <2>1. Stopping(s) = d2 BY <1>3 DEF Stopping
  <2>2. /\ d2.phase = "stopping" /\ d2.closed = s.closed /\ d2.fenced = s.fenced
        /\ d2.main = "idle" /\ d2.loop = s.loop /\ d2.pend = s.pend /\ d2.beat = s.beat
        /\ SameData(s, d2) /\ SameFlow(s, d2) BY DEF WorkerState, SameData, SameFlow
  <2> QED BY <1>1, <1>3, <2>1, <2>2
<1> QED BY <1>2, <1>3

\* The elements of two sequences in a row.
LEMMA ConcatPositions ==
  ASSUME NEW q \in Seq(Position), NEW r \in Seq(Position)
  PROVE  /\ q \o r \in Seq(Position) /\ Len(q \o r) = Len(q) + Len(r)
         /\ Positions(q \o r) = Positions(q) \cup Positions(r)
<1>1. q \o r \in Seq(Position) /\ Len(q \o r) = Len(q) + Len(r) OBVIOUS
<1>2. ASSUME NEW i \in Positions(q \o r) PROVE i \in Positions(q) \cup Positions(r)
  <2>1. PICK k \in 1 .. Len(q) + Len(r) : i = (q \o r)[k] BY <1>1 DEF Positions
  <2>2. CASE k <= Len(q) BY <2>1, <2>2 DEF Positions
  <2>3. CASE k > Len(q)
    <3>1. i = r[k - Len(q)] /\ k - Len(q) \in 1 .. Len(r) BY <2>1, <2>3
    <3> QED BY <3>1 DEF Positions
  <2> QED BY <2>2, <2>3
<1>3. ASSUME NEW i \in Positions(q) PROVE i \in Positions(q \o r)
  <2>1. PICK k \in 1 .. Len(q) : i = q[k] BY <1>3 DEF Positions
  <2>2. k \in 1 .. Len(q \o r) /\ i = (q \o r)[k] BY <1>1, <2>1
  <2> QED BY <1>1, <2>2 DEF Positions
<1>4. ASSUME NEW i \in Positions(r) PROVE i \in Positions(q \o r)
  <2>1. PICK k \in 1 .. Len(r) : i = r[k] BY <1>4 DEF Positions
  <2>2. k + Len(q) \in 1 .. Len(q \o r) /\ i = (q \o r)[k + Len(q)] BY <1>1, <2>1
  <2> QED BY <1>1, <2>2 DEF Positions
<1> QED BY <1>1, <1>2, <1>3, <1>4

\* Requeued: the same results, all of them queued.
LEMMA RequeuedFields ==
  ASSUME NEW s \in WorkerState
  PROVE  LET d == Requeued(s)
         IN /\ d \in WorkerState /\ d.flight = NoFlight
            /\ Len(d.queue) = Len(s.flight.kept) + Len(s.flight.todo) + Len(s.queue)
            /\ HeldBy(d) = HeldBy(s) /\ SameData(s, d) /\ d.phase = s.phase
            /\ d.fenced = s.fenced /\ d.closed = s.closed /\ d.main = s.main
            /\ d.loop = s.loop /\ d.pend = s.pend /\ d.beat = s.beat
<1> DEFINE q == s.flight.kept \o s.flight.todo \o s.queue
           d == [s EXCEPT !.queue = q, !.flight = NoFlight]
<1>1. /\ q \in Seq(Position)
      /\ Len(q) = Len(s.flight.kept) + Len(s.flight.todo) + Len(s.queue)
      /\ Positions(q) = HeldBy(s)
  <2>1. /\ s.flight.kept \in Seq(Position) /\ s.flight.todo \in Seq(Position)
        /\ s.queue \in Seq(Position) BY StateFields
  <2>2. PICK r : r = s.flight.kept \o s.flight.todo OBVIOUS
  <2>3. /\ r \in Seq(Position) /\ Len(r) = Len(s.flight.kept) + Len(s.flight.todo)
        /\ Positions(r) = Positions(s.flight.kept) \cup Positions(s.flight.todo)
    BY <2>1, <2>2, ConcatPositions
  <2>4. q = r \o s.queue BY <2>2
  <2>5. /\ q \in Seq(Position) /\ Len(q) = Len(r) + Len(s.queue)
        /\ Positions(q) = Positions(r) \cup Positions(s.queue) BY <2>1, <2>3, <2>4, ConcatPositions
  <2>6. Len(q) = Len(s.flight.kept) + Len(s.flight.todo) + Len(s.queue) BY <2>3, <2>5
  <2> QED BY <2>3, <2>5, <2>6 DEF HeldBy
<1>2. Requeued(s) = d BY DEF Requeued
<1> HIDE DEF q
<1>3. d \in WorkerState BY <1>1, NoFlightTyped DEF WorkerState
<1>4. /\ d.queue = q /\ d.flight = NoFlight /\ SameData(s, d) /\ d.phase = s.phase
      /\ d.fenced = s.fenced /\ d.closed = s.closed /\ d.main = s.main
      /\ d.loop = s.loop /\ d.pend = s.pend /\ d.beat = s.beat BY DEF WorkerState, SameData
<1> HIDE DEF d
<1>5. HeldBy(d) = HeldBy(s) BY <1>1, <1>4, NoFlightTyped DEF HeldBy
<1> QED BY <1>1, <1>2, <1>3, <1>4, <1>5

\* A flush is over: what is left is queued again, and nothing in flight.
LEMMA FlushOverFields ==
  ASSUME NEW s \in WorkerState, NEW l \in Loop
  PROVE  LET d == FlushOver(s, l)
         IN /\ d \in WorkerState /\ d.flight = NoFlight
            /\ Len(d.queue) = Len(s.flight.kept) + Len(s.flight.todo) + Len(s.queue)
            /\ HeldBy(d) = HeldBy(s) /\ SameData(s, d)
            /\ d.fenced = s.fenced /\ d.closed = s.closed /\ d.main = s.main
            /\ d.loop = l /\ d.pend = s.pend /\ d.beat = s.beat
            /\ \/ s.phase = "draining" /\ d.phase = "drained"
               \/ s.phase # "draining" /\ d.phase = s.phase
<1> DEFINE r == Requeued(s)
           ph == IF r.phase = "draining" THEN "drained" ELSE r.phase
           d == [r EXCEPT !.loop = l, !.phase = ph]
<1>1. /\ r \in WorkerState /\ r.flight = NoFlight
      /\ Len(r.queue) = Len(s.flight.kept) + Len(s.flight.todo) + Len(s.queue)
      /\ HeldBy(r) = HeldBy(s) /\ SameData(s, r) /\ r.phase = s.phase
      /\ r.fenced = s.fenced /\ r.closed = s.closed /\ r.main = s.main
      /\ r.loop = s.loop /\ r.pend = s.pend /\ r.beat = s.beat BY RequeuedFields
<1>2. FlushOver(s, l) = d BY <1>1 DEF FlushOver, WorkerState
<1> HIDE DEF r
<1>3. ph \in Phase BY <1>1 DEF Phase, WorkerState
<1> HIDE DEF ph
<1>4. d \in WorkerState BY <1>1, <1>3 DEF WorkerState
<1>5. /\ d.queue = r.queue /\ d.flight = r.flight /\ SameData(r, d) /\ d.phase = ph
      /\ d.fenced = r.fenced /\ d.closed = r.closed /\ d.main = r.main
      /\ d.loop = l /\ d.pend = r.pend /\ d.beat = r.beat BY <1>1 DEF WorkerState, SameData
<1>6. HeldBy(d) = HeldBy(r) BY <1>5 DEF HeldBy
<1> HIDE DEF d
<1> QED BY <1>1, <1>2, <1>4, <1>5, <1>6 DEF SameData, ph

\* The writer loop ends.
LEMMA LoopDiesFields ==
  ASSUME NEW s \in WorkerState
  PROVE  LET d == LoopDies(s)
         IN /\ d \in WorkerState /\ d.flight = NoFlight
            /\ Len(d.queue) = Len(s.flight.kept) + Len(s.flight.todo) + Len(s.queue)
            /\ HeldBy(d) = HeldBy(s) /\ SameData(s, d)
            /\ d.fenced = s.fenced /\ d.closed /\ d.main = s.main
            /\ d.loop = "off" /\ d.pend = s.pend /\ d.beat = s.beat
            /\ \/ s.phase = "draining" /\ d.phase = "drained"
               \/ s.phase # "draining" /\ d.phase = s.phase
<1> DEFINE r == FlushOver(s, "off")
           d == [r EXCEPT !.closed = TRUE]
<1>1. /\ r \in WorkerState /\ r.flight = NoFlight
      /\ Len(r.queue) = Len(s.flight.kept) + Len(s.flight.todo) + Len(s.queue)
      /\ HeldBy(r) = HeldBy(s) /\ SameData(s, r)
      /\ r.fenced = s.fenced /\ r.main = s.main
      /\ r.loop = "off" /\ r.pend = s.pend /\ r.beat = s.beat
      /\ \/ s.phase = "draining" /\ r.phase = "drained"
         \/ s.phase # "draining" /\ r.phase = s.phase
  <2>1. "off" \in Loop BY DEF Loop
  <2> QED BY <2>1, FlushOverFields
<1>2. LoopDies(s) = d BY DEF LoopDies
<1> HIDE DEF r
<1>3. d \in WorkerState BY <1>1 DEF WorkerState
<1>4. /\ d.queue = r.queue /\ d.flight = r.flight /\ SameData(r, d) /\ d.phase = r.phase
      /\ d.fenced = r.fenced /\ d.closed /\ d.main = r.main
      /\ d.loop = r.loop /\ d.pend = r.pend /\ d.beat = r.beat BY <1>1 DEF WorkerState, SameData
<1>5. HeldBy(d) = HeldBy(r) BY <1>4 DEF HeldBy
<1> HIDE DEF d
<1> QED BY <1>1, <1>2, <1>3, <1>4, <1>5 DEF SameData

\* A batch is its first chunk and the rest.
LEMMA ChunkParts ==
  ASSUME NEW s \in WorkerState
  PROVE  /\ Chunk(s) \in Seq(Position) /\ Rest(s) \in Seq(Position)
         /\ Len(Chunk(s)) + Len(Rest(s)) = Len(s.flight.todo)
         /\ Positions(s.flight.todo) = Positions(Chunk(s)) \cup Positions(Rest(s))
<1> DEFINE q == s.flight.todo
           n == ChunkLength(s)
<1>1. q \in Seq(Position) BY StateFields
<1>2. n \in 0 .. Len(q)
  <2>1. Len(q) \in Nat /\ ChunkSize \in Nat BY <1>1
  <2>2. n = IF ChunkSize < Len(q) THEN ChunkSize ELSE Len(q) BY DEF ChunkLength, Shorter
  <2> QED BY <2>1, <2>2
<1> HIDE DEF n
<1>3. PICK a : a = SubSeq(q, 1, n) OBVIOUS
<1>4. PICK b : b = SubSeq(q, n + 1, Len(q)) OBVIOUS
<1>5. /\ a \in Seq(Position) /\ Len(a) = n
      /\ \A k \in 1 .. n : a[k] = q[k] BY <1>1, <1>2, <1>3
<1>6. /\ b \in Seq(Position) /\ Len(b) = Len(q) - n
      /\ \A k \in 1 .. Len(q) - n : b[k] = q[n + k] BY <1>1, <1>2, <1>4
<1>7. Len(a) + Len(b) = Len(q) BY <1>1, <1>2, <1>5, <1>6
<1>8. ASSUME NEW i \in Positions(q) PROVE i \in Positions(a) \cup Positions(b)
  <2>1. PICK k \in 1 .. Len(q) : i = q[k] BY <1>1, <1>8 DEF Positions
  <2>2. CASE k <= n
    <3>1. k \in 1 .. n /\ i = a[k] BY <1>2, <1>5, <2>1, <2>2
    <3> QED BY <1>5, <3>1 DEF Positions
  <2>3. CASE k > n
    <3>1. k - n \in 1 .. Len(q) - n /\ i = b[k - n] BY <1>1, <1>2, <1>6, <2>1, <2>3
    <3> QED BY <1>6, <3>1 DEF Positions
  <2> QED BY <1>2, <2>1, <2>2, <2>3
<1>9. ASSUME NEW i \in Positions(a) \cup Positions(b) PROVE i \in Positions(q)
  <2>1. CASE i \in Positions(a)
    <3>1. PICK k \in 1 .. n : i = a[k] BY <1>5, <2>1 DEF Positions
    <3>2. k \in 1 .. Len(q) /\ i = q[k] BY <1>1, <1>2, <1>5, <3>1
    <3> QED BY <1>1, <3>2 DEF Positions
  <2>2. CASE i \in Positions(b)
    <3>1. PICK k \in 1 .. Len(q) - n : i = b[k] BY <1>6, <2>2 DEF Positions
    <3>2. n + k \in 1 .. Len(q) /\ i = q[n + k] BY <1>1, <1>2, <1>6, <3>1
    <3> QED BY <1>1, <3>2 DEF Positions
  <2> QED BY <1>9, <2>1, <2>2
<1>10. Chunk(s) = a /\ Rest(s) = b BY <1>3, <1>4 DEF Chunk, Rest, n
<1> QED BY <1>5, <1>6, <1>7, <1>8, <1>9, <1>10

\* The reply to a transaction does not arrive: what waits for it goes on.
LEMMA ReplyLostFields ==
  ASSUME NEW s \in WorkerState,
         s.loop = "writing" \/ s.main \in {"saving", "failing"},
         s.main \in {"saving", "failing"} => s.loop \in {"idle", "off"}
  PROVE  LET d == ReplyLost(s)
         IN /\ d \in WorkerState /\ SameData(s, d) /\ SameFlow(s, d) /\ d.phase = s.phase
            /\ d.fenced = s.fenced /\ d.closed = s.closed /\ d.pend = s.pend /\ d.beat = s.beat
            /\ \/ s.loop = "writing" /\ d.loop = "retry" /\ d.main = s.main
               \/ s.main = "saving" /\ d.main = "undo" /\ d.loop = s.loop
               \/ s.main = "failing" /\ d.main = "fail" /\ d.loop = s.loop
<1> DEFINE d1 == [s EXCEPT !.loop = "retry"]
           d2 == [s EXCEPT !.main = "undo"]
           d3 == [s EXCEPT !.main = "fail"]
<1>1. CASE s.loop = "writing"
  <2>1. ReplyLost(s) = d1 BY <1>1 DEF ReplyLost
  <2>2. d1 \in WorkerState BY DEF WorkerState, Loop
  <2>3. /\ SameData(s, d1) /\ SameFlow(s, d1) /\ d1.phase = s.phase /\ d1.fenced = s.fenced
        /\ d1.closed = s.closed /\ d1.pend = s.pend /\ d1.beat = s.beat
        /\ d1.loop = "retry" /\ d1.main = s.main BY DEF WorkerState, SameData, SameFlow
  <2> QED BY <1>1, <2>1, <2>2, <2>3
<1>2. CASE s.main = "saving"
  <2>1. ReplyLost(s) = d2 BY <1>2 DEF ReplyLost
  <2>2. d2 \in WorkerState BY DEF WorkerState, Main, Committing
  <2>3. /\ SameData(s, d2) /\ SameFlow(s, d2) /\ d2.phase = s.phase /\ d2.fenced = s.fenced
        /\ d2.closed = s.closed /\ d2.pend = s.pend /\ d2.beat = s.beat
        /\ d2.loop = s.loop /\ d2.main = "undo" BY DEF WorkerState, SameData, SameFlow
  <2> QED BY <1>2, <2>1, <2>2, <2>3
<1>3. CASE s.main = "failing"
  <2>1. ReplyLost(s) = d3 BY <1>3 DEF ReplyLost
  <2>2. d3 \in WorkerState BY DEF WorkerState, Main
  <2>3. /\ SameData(s, d3) /\ SameFlow(s, d3) /\ d3.phase = s.phase /\ d3.fenced = s.fenced
        /\ d3.closed = s.closed /\ d3.pend = s.pend /\ d3.beat = s.beat
        /\ d3.loop = s.loop /\ d3.main = "fail" BY DEF WorkerState, SameData, SameFlow
  <2> QED BY <1>3, <2>1, <2>2, <2>3
<1> QED BY <1>1, <1>2, <1>3

-----------------------------------------------------------------------------
(* Quiet steps of a worker: it computes, stores and saves nothing by them. *)

Busy == {"starting", "running", "stopping"}

\* The results behind the detector are accounted for.
Open(s) == s.phase \in Busy /\ (s.closed => s.main \in Committing)

Quiet(s, d) ==
  /\ SameData(s, d) /\ HeldBy(d) = HeldBy(s)
  /\ s.phase \notin {"new", "admitted", "off"} /\ d.phase \notin {"new", "admitted", "off"}
  /\ Open(d) => Open(s) /\ (s.main = "write" => d.main = "write")
  /\ d.phase \in {"starting", "running"} =>
       /\ s.phase \in {"starting", "running"}
       /\ s.main \in {"publish", "undo"} => d.main \in {"publish", "undo"}
       /\ s.main = "saving" => d.main \in {"saving", "undo"}
  /\ d.main \in Committing => s.main \in Committing /\ d.pend = s.pend
  /\ d.main \in {"await", "begin", "publish"} => s.main = d.main
  /\ d.main = "publish" => SameFlow(s, d)
  /\ d.main \in {"saving", "failing"} => s.main = d.main /\ SameFlow(s, d)
  /\ d.loop = "writing" => s.loop = "writing" /\ SameFlow(s, d)

\* Of two quiet steps in a row.
LEMMA QuietTwice ==
  ASSUME NEW s, NEW e, NEW d, Quiet(s, e), Quiet(e, d)
  PROVE  Quiet(s, d)
BY DEF Quiet, SameData, SameFlow

LocalOf(w, s) == s \in WorkerState /\ PhaseOf(w, s) /\ FlightOf(w, s)

\* The lists of stages, as sets.
LEMMA Stages ==
  ASSUME NEW s \in WorkerState
  PROVE  /\ s.main \in {"idle", "write", "due", "await", "fail", "failing", "begin", "saving",
                        "publish", "undo"}
         /\ s.main \in Committing <=> s.main \in {"begin", "saving", "publish", "undo"}
BY DEF WorkerState, Main, Committing

\* A worker that is fenced goes on with what it was at.
LEMMA FenceQuiet ==
  ASSUME NEW w \in Worker, NEW s, LocalOf(w, s), s.phase \notin {"new", "admitted", "off"}
  PROVE  LocalOf(w, Fenced(s)) /\ Quiet(s, Fenced(s))
<1> DEFINE d == Fenced(s)
<1>1. /\ s \in WorkerState /\ d \in WorkerState /\ d.fenced /\ d.closed /\ d.phase = s.phase
      /\ d.main = s.main /\ d.loop = s.loop /\ d.pend = s.pend /\ d.beat = s.beat
      /\ SameData(s, d) /\ SameFlow(s, d) BY FencedFields DEF LocalOf
<1> HIDE DEF d
<1>2. HeldBy(d) = HeldBy(s) BY <1>1 DEF HeldBy, SameFlow
<1>3. PhaseOf(w, d) BY <1>1 DEF LocalOf, PhaseOf, SameData
<1>4. FlightOf(w, d) BY <1>1, <1>2 DEF LocalOf, FlightOf, SameData, SameFlow
<1>5. Quiet(s, d) BY <1>1, <1>2 DEF Quiet, Open
<1> QED BY <1>1, <1>3, <1>4, <1>5 DEF LocalOf, d

\* A worker that stops, other than in the middle of a commit.
LEMMA StopQuiet ==
  ASSUME NEW w \in Worker, NEW s, LocalOf(w, s), s.phase \in Busy,
         s.main \in {"idle", "write", "due", "await", "fail", "failing"},
         s.main = "write" => s.closed
  PROVE  LocalOf(w, Stopping(s)) /\ Quiet(s, Stopping(s))
<1> DEFINE d == Stopping(s)
<1>1. /\ s \in WorkerState /\ d \in WorkerState /\ d.fenced = s.fenced /\ d.main = "idle"
      /\ d.loop = s.loop /\ d.pend = s.pend /\ d.beat = s.beat
      /\ SameData(s, d) /\ SameFlow(s, d)
      /\ \/ s.phase = "stopping" /\ d.phase = "draining" /\ d.closed
         \/ s.phase # "stopping" /\ d.phase = "stopping" /\ d.closed = s.closed BY StoppingFields DEF LocalOf
<1> HIDE DEF d
<1>2. HeldBy(d) = HeldBy(s) BY <1>1 DEF HeldBy, SameFlow
<1>3. PhaseOf(w, d) BY <1>1 DEF LocalOf, PhaseOf, SameData, Committing, Busy
<1>4. FlightOf(w, d) BY <1>1, <1>2 DEF LocalOf, FlightOf, SameData, SameFlow, Committing
<1>5. Quiet(s, d) BY <1>1, <1>2 DEF Quiet, Open, Busy, Committing
<1> QED BY <1>1, <1>3, <1>4, <1>5 DEF LocalOf, d

\* The writer's loop is over, by itself or because the worker was fenced.
LEMMA FlushQuiet ==
  ASSUME NEW w \in Worker, NEW s, LocalOf(w, s), s.loop \in {"rows", "retry", "writing"},
         s.phase \notin {"new", "admitted", "off"}
  PROVE  /\ LocalOf(w, FlushOver(s, "idle")) /\ Quiet(s, FlushOver(s, "idle"))
         /\ s.fenced => LocalOf(w, LoopDies(s)) /\ Quiet(s, LoopDies(s))
<1>0. s \in WorkerState /\ "idle" \in Loop BY DEF LocalOf, Loop
<1>a. s.main \notin Committing \cup {"failing"} BY DEF LocalOf, FlightOf
<1>b. /\ Len(s.flight.kept) \in Nat /\ Len(s.flight.todo) \in Nat /\ Len(s.queue) \in Nat
      /\ s.flight.count \in Nat BY <1>0, StateFields
<1>c. ASSUME NEW d \in WorkerState, NEW l \in {"idle", "off"}, d.flight = NoFlight,
             Len(d.queue) = Len(s.flight.kept) + Len(s.flight.todo) + Len(s.queue),
             HeldBy(d) = HeldBy(s), SameData(s, d), d.fenced = s.fenced,
             d.closed = s.closed \/ (d.closed /\ s.fenced),
             d.main = s.main, d.loop = l, d.pend = s.pend,
             \/ s.phase = "draining" /\ d.phase = "drained"
             \/ s.phase # "draining" /\ d.phase = s.phase
      PROVE  LocalOf(w, d) /\ Quiet(s, d)
  <2>1. PhaseOf(w, d) BY <1>a, <1>c DEF LocalOf, PhaseOf, SameData
  <2>2. FlightOf(w, d)
    <3>1. Len(d.flight.todo) + Len(d.flight.kept) <= d.flight.count BY <1>c, NoFlightTyped
    <3>2. Len(d.queue) + d.flight.count <= QueueLimit
      <4>1. Len(s.flight.todo) + Len(s.flight.kept) <= s.flight.count
            /\ Len(s.queue) + s.flight.count <= QueueLimit BY DEF LocalOf, FlightOf
      <4>2. d.flight.count = 0 BY <1>c, NoFlightTyped
      <4>3. PICK k \in Nat, n \in Nat, m \in Nat, c \in Nat :
              /\ k = Len(s.flight.kept) /\ n = Len(s.flight.todo) /\ m = Len(s.queue)
              /\ c = s.flight.count BY <1>b
      <4>4. Len(d.queue) = k + n + m /\ n + k <= c /\ m + c <= QueueLimit BY <1>c, <4>1, <4>3
      <4> QED BY <4>2, <4>4
    <3> QED BY <1>a, <1>c, <3>1, <3>2 DEF LocalOf, FlightOf, SameData
  <2>3. Quiet(s, d) BY <1>a, <1>c DEF Quiet, Open, Busy, Committing
  <2> QED BY <1>c, <2>1, <2>2, <2>3 DEF LocalOf
<1>1. LocalOf(w, FlushOver(s, "idle")) /\ Quiet(s, FlushOver(s, "idle")) BY <1>0, <1>c, FlushOverFields
<1>2. ASSUME s.fenced PROVE LocalOf(w, LoopDies(s)) /\ Quiet(s, LoopDies(s))
  BY <1>0, <1>2, <1>c, LoopDiesFields
<1> QED BY <1>1, <1>2

\* A commit that is given up, and a reply that is lost.
LEMMA UndoQuiet ==
  ASSUME NEW w \in Worker, NEW s, LocalOf(w, s)
  PROVE  /\ s.main \in Committing =>
              LET d == [s EXCEPT !.main = "undo"] IN LocalOf(w, d) /\ Quiet(s, d)
         /\ (s.loop = "writing" /\ s.phase \notin {"new", "admitted", "off"})
              \/ s.main \in {"saving", "failing"} =>
              LocalOf(w, ReplyLost(s)) /\ Quiet(s, ReplyLost(s))
<1>0. s \in WorkerState BY DEF LocalOf
<1>1. ASSUME s.main \in Committing
      PROVE  LET d == [s EXCEPT !.main = "undo"] IN LocalOf(w, d) /\ Quiet(s, d)
  <2> DEFINE d == [s EXCEPT !.main = "undo"]
  <2>1. /\ d \in WorkerState /\ d.fenced = s.fenced /\ d.closed = s.closed /\ d.phase = s.phase
        /\ d.main = "undo" /\ d.loop = s.loop /\ d.pend = s.pend
        /\ SameData(s, d) /\ SameFlow(s, d) BY <1>0 DEF WorkerState, Main, Committing, SameData, SameFlow
  <2> HIDE DEF d
  <2>2. HeldBy(d) = HeldBy(s) BY <2>1 DEF HeldBy, SameFlow
  <2>3. "undo" \in Committing /\ s.main \in {"begin", "saving", "publish", "undo"} BY <1>1 DEF Committing
  <2>4. PhaseOf(w, d) BY <1>1, <2>1, <2>3 DEF LocalOf, PhaseOf, SameData
  <2>5. FlightOf(w, d) BY <1>1, <2>1, <2>2, <2>3 DEF LocalOf, FlightOf, SameData, SameFlow
  <2>6. s.phase \in Busy BY <1>1 DEF LocalOf, PhaseOf, Busy
  <2>7. Quiet(s, d)
    <3>1. s.loop \in {"idle", "off"} BY <1>1 DEF LocalOf, FlightOf
    <3> QED BY <1>1, <2>1, <2>2, <2>3, <2>6, <3>1 DEF Quiet, Open, Busy
  <2> QED BY <2>1, <2>4, <2>5, <2>7 DEF LocalOf, d
<1>2. ASSUME \/ s.loop = "writing" /\ s.phase \notin {"new", "admitted", "off"}
             \/ s.main \in {"saving", "failing"}
      PROVE  LocalOf(w, ReplyLost(s)) /\ Quiet(s, ReplyLost(s))
  <2> DEFINE d == ReplyLost(s)
  <2>1. s.main \in {"saving", "failing"} => s.loop \in {"idle", "off"} BY DEF LocalOf, FlightOf, Committing
  <2>2. /\ d \in WorkerState /\ SameData(s, d) /\ SameFlow(s, d) /\ d.phase = s.phase
        /\ d.fenced = s.fenced /\ d.closed = s.closed /\ d.pend = s.pend /\ d.beat = s.beat
        /\ \/ s.loop = "writing" /\ d.loop = "retry" /\ d.main = s.main
           \/ s.main = "saving" /\ d.main = "undo" /\ d.loop = s.loop
           \/ s.main = "failing" /\ d.main = "fail" /\ d.loop = s.loop BY <1>0, <1>2, <2>1, ReplyLostFields
  <2> HIDE DEF d
  <2>3. HeldBy(d) = HeldBy(s) BY <2>2 DEF HeldBy, SameFlow
  <2>4. s.phase \notin {"new", "admitted", "off"} BY <1>2 DEF LocalOf, PhaseOf, Committing
  <2>5. PhaseOf(w, d) BY <2>2, <2>4 DEF LocalOf, PhaseOf, SameData, Committing
  <2>6. FlightOf(w, d)
    <3>1. s.loop = "writing" => s.main \notin Committing \cup {"failing"} BY DEF LocalOf, FlightOf
    <3> QED BY <2>1, <2>2, <2>3, <3>1 DEF LocalOf, FlightOf, SameData, SameFlow, Committing
  <2>7. Quiet(s, d)
    <3>1. s.loop = "writing" => s.main \notin Committing \cup {"failing"} BY DEF LocalOf, FlightOf
    <3> QED BY <2>1, <2>2, <2>3, <2>4, <3>1 DEF Quiet, Open, Busy, Committing
  <2> QED BY <2>2, <2>5, <2>6, <2>7 DEF LocalOf, d
<1> QED BY <1>1, <1>2

-----------------------------------------------------------------------------
(* The steps of a worker that are not quiet, by what they change.          *)

Local == TypeOK /\ Phases /\ Flights

\* The row shows another worker's signature to w.
Refused(w) ==
  \/ ~Owns(w) /\ (ws[w].main \in {"begin", "fail"} \/ ws[w].loop \in {"rows", "retry"})
  \/ ~OwnsForHealth(w)

\* Only w moved, and what is whole about it was kept.
StepOf(w) ==
  /\ ws' = [ws EXCEPT ![w] = ws'[w]]
  /\ LocalOf(w, ws'[w])
  /\ ws'[w].fenced => ws[w].fenced \/ Refused(w)
  /\ ws'[w].beat = "updated" => ws[w].beat = "updated" \/ outcome' = "open"

\* The state a step gives to its worker.
LEMMA StepMade ==
  ASSUME TypeOK, NEW w \in Worker, NEW d, LocalOf(w, d), Become(w, d),
         d.fenced => ws[w].fenced \/ Refused(w),
         d.beat = "updated" => ws[w].beat = "updated" \/ outcome' = "open"
  PROVE  StepOf(w) /\ ws'[w] = d
<1>1. ws'[w] = d /\ ws' = [ws EXCEPT ![w] = d] BY DEF TypeOK, Become
<1> QED BY <1>1 DEF StepOf

\* What is whole about one worker.
LEMMA WorkerLocal ==
  ASSUME Local, NEW w \in Worker
  PROVE  LocalOf(w, ws[w])
BY DEF Local, TypeOK, Phases, Flights, LocalOf

\* Admit.
Admits(s, d) ==
  s.phase = "new" /\ d.phase = "admitted" /\ SameData(s, d) /\ d.main = "idle" /\ d.loop = "idle"

\* Load: the last state that was saved, and the token of a first snapshot.
Loads(s, d) ==
  /\ s.phase = "admitted" /\ d.phase = "starting"
  /\ d.hist = saved.hist /\ d.sig = saved.token /\ d.saves = s.saves + 1 /\ ~d.uncertain
  /\ d.main = "await" /\ d.loop = "idle" /\ ~d.closed

\* Receive: an observation that has a result.
Computes(w, s, d) ==
  /\ s.phase = "running" /\ s.main = "idle" /\ d.phase = "running" /\ d.main = "write"
  /\ d.hist = Append(s.hist, w) /\ d.sig = s.sig /\ d.saves = s.saves
  /\ d.uncertain = s.uncertain /\ SameFlow(s, d) /\ d.closed = s.closed /\ d.loop = s.loop

\* Break.
Breaks(s, d) ==
  /\ s.phase = "running" /\ s.main \in {"idle", "due"} /\ d.phase = "running" /\ d.main = "fail"
  /\ d.hist = s.hist /\ d.sig = s.sig /\ d.saves = s.saves
  /\ SameFlow(s, d) /\ d.closed = s.closed /\ d.loop = s.loop

\* WriteResult: there is room in the queue.
Queues(s, d) ==
  /\ s.phase = "running" /\ s.main = "write" /\ d.phase = "running" /\ d.main = "due"
  /\ SameData(s, d) /\ d.flight = s.flight /\ d.closed = s.closed
  /\ HeldBy(d) = HeldBy(s) \cup {Len(s.hist)} /\ d.loop = s.loop

\* CheckpointIfDue and FinalCheckpoint: a snapshot is frozen.
Freezes(s, d) ==
  /\ s.phase \in {"running", "stopping"} /\ s.main \in {"idle", "due"} /\ ~s.uncertain
  /\ d.phase = s.phase /\ d.main = "await" /\ d.saves = s.saves + 1
  /\ d.hist = s.hist /\ d.sig = s.sig /\ ~d.uncertain
  /\ SameFlow(s, d) /\ d.closed = s.closed /\ d.loop = s.loop

\* TakePending: everything that is queued goes with the snapshot.
Takes(w, s, d) ==
  /\ s.main = "await" /\ d.main = "begin" /\ ~s.fenced /\ d.phase = s.phase
  /\ SameData(s, d) /\ d.pend = <<w, s.saves>> /\ HeldBy(d) = HeldBy(s)
  /\ d.closed = s.closed /\ d.loop \in {"idle", "off"}

\* ReplaceCheckpoint, FailPipelineRun and WriteRows begin a transaction.
Begins(s, d) ==
  /\ SameData(s, d) /\ SameFlow(s, d) /\ d.phase = s.phase /\ d.pend = s.pend
  /\ d.closed = s.closed
BeginsSave(s, d) == Begins(s, d) /\ s.main = "begin" /\ d.main = "saving" /\ d.loop = s.loop
BeginsFail(s, d) == Begins(s, d) /\ s.main = "fail" /\ d.main = "failing" /\ d.loop = s.loop
BeginsRows(s, d) ==
  Begins(s, d) /\ s.loop \in {"rows", "retry"} /\ d.loop = "writing" /\ d.main = s.main

\* Publish: the snapshot that was saved is the worker's own from now on.
Publishes(s, d) ==
  /\ s.main = "publish" /\ d.main = "idle" /\ d.hist = s.hist /\ d.saves = s.saves
  /\ d.uncertain = s.uncertain /\ d.sig = s.pend /\ d.flight = NoFlight /\ d.queue = <<>>
  /\ d.loop \in {"idle", "off"}
  /\ \/ s.phase \in {"starting", "running"} /\ d.phase = "running" /\ d.closed = s.closed
     \/ s.phase = "stopping" /\ d.phase = "draining" /\ d.closed

\* Exit and Crash.
Ends(d) ==
  /\ d.phase = "off" /\ d.hist = <<>> /\ d.sig = NoToken /\ ~d.uncertain
  /\ d.main = "idle" /\ d.loop = "idle"

\* Admit and Load.
LEMMA StartFields ==
  ASSUME Local, NEW w \in Worker
  PROVE  LET s == ws[w]
             d == ws'[w]
         IN /\ Admit(w) => StepOf(w) /\ Admits(s, d)
            /\ Load(w) => StepOf(w) /\ Loads(s, d)
<1> DEFINE s == ws[w]
<1>0. s \in WorkerState /\ PhaseOf(w, s) /\ FlightOf(w, s) /\ TypeOK BY WorkerLocal DEF LocalOf, Local
<1>a. HeldBy(NewWorker) = {} BY NoFlightTyped DEF HeldBy, NewWorker
<1>1. ASSUME Admit(w)
      PROVE  StepOf(w) /\ Admits(s, ws'[w])
  <2> DEFINE d == [NewWorker EXCEPT !.phase = "admitted"]
  <2>1. s.phase = "new" BY <1>1 DEF Admit
  <2>2. s = [NewWorker EXCEPT !.phase = "new"] BY <1>0, <2>1 DEF PhaseOf
  <2>3. [s EXCEPT !.phase = "admitted"] = d BY <2>2 DEF NewWorker
  <2>4. Become(w, d) BY <1>1, <2>3 DEF Admit
  <2>5. "admitted" \in Phase /\ "new" \in Phase BY DEF Phase
  <2>6. /\ d \in WorkerState /\ d.phase = "admitted" /\ d.hist = <<>> /\ ~d.uncertain
        /\ d.queue = <<>> /\ d.flight = NoFlight /\ d.sig = NoToken /\ d.pend = NoToken
        /\ d.saves = 0 /\ ~d.fenced /\ ~d.closed /\ d.main = "idle" /\ d.loop = "idle"
        /\ d.beat = "idle" BY <2>5, NewTyped
  <2>7. s.hist = <<>> /\ ~s.uncertain /\ s.sig = NoToken /\ s.saves = 0 BY <2>2, <2>5, NewTyped
  <2>8. PhaseOf(w, d) BY <2>6 DEF PhaseOf, Committing
  <2>9. HeldBy(d) = {} BY <2>6, NoFlightTyped DEF HeldBy
  <2> HIDE DEF d
  <2>10. FlightOf(w, d) BY <2>6, <2>9, NoFlightTyped DEF FlightOf, Committing
  <2>11. Admits(s, d) BY <1>0, <2>1, <2>6, <2>7, Zenon DEF Admits, SameData, WorkerState
  <2> QED BY <1>0, <2>4, <2>6, <2>8, <2>10, <2>11, StepMade DEF LocalOf
<1>2. ASSUME Load(w)
      PROVE  StepOf(w) /\ Loads(s, ws'[w])
  <2>1. s.phase = "admitted" /\ "admitted" \in Phase BY <1>2 DEF Load, Phase
  <2>2. s = [NewWorker EXCEPT !.phase = "admitted"] BY <1>0, <2>1 DEF PhaseOf
  <2>3. /\ s.hist = <<>> /\ ~s.uncertain
        /\ s.queue = <<>> /\ s.flight = NoFlight /\ s.sig = NoToken /\ s.pend = NoToken
        /\ s.saves = 0 /\ ~s.fenced /\ ~s.closed /\ s.main = "idle" /\ s.loop = "idle"
        /\ s.beat = "idle" BY <2>1, <2>2, NewTyped
  <2> DEFINE e == [s EXCEPT !.phase = "starting", !.hist = saved.hist, !.sig = saved.token]
             d == [e EXCEPT !.main = "await", !.saves = @ + 1]
  <2>4. saved.hist \in Seq(Worker) /\ saved.token \in Token BY <1>0 DEF TypeOK, Saved
  <2>5. e \in WorkerState BY <1>0, <2>4 DEF WorkerState, Phase
  <2>6. /\ e.phase = "starting" /\ e.hist = saved.hist /\ e.sig = saved.token
        /\ e.uncertain = s.uncertain
        /\ e.queue = <<>> /\ e.flight = NoFlight /\ e.pend = NoToken
        /\ e.saves = 0 /\ e.closed = s.closed /\ e.loop = "idle"
        /\ ~e.fenced /\ e.beat = "idle" BY <1>0, <2>3 DEF WorkerState
  <2> HIDE DEF e
  <2>7. d \in WorkerState
    <3>1. e.saves + 1 \in Nat /\ "await" \in Main BY <2>6 DEF Main
    <3>2. PICK n \in Nat : n = e.saves + 1 BY <3>1
    <3>3. d = [e EXCEPT !.main = "await", !.saves = n] BY <3>2
    <3> QED BY <2>5, <3>1, <3>3 DEF WorkerState
  <2>8. /\ d.phase = "starting" /\ d.hist = saved.hist /\ d.sig = saved.token
        /\ d.uncertain = e.uncertain
        /\ d.queue = <<>> /\ d.flight = NoFlight /\ d.pend = NoToken
        /\ d.saves = 1 /\ d.closed = e.closed /\ d.main = "await" /\ d.loop = "idle"
        /\ ~d.fenced /\ d.beat = "idle" BY <2>5, <2>6 DEF WorkerState
  <2>9. Become(w, d) BY <1>2 DEF Load, Await, e
  <2> HIDE DEF d
  <2>10. PhaseOf(w, d) BY <2>3, <2>6, <2>8 DEF PhaseOf, Committing
  <2>11. HeldBy(d) = {} BY <2>8, NoFlightTyped DEF HeldBy
  <2>12. FlightOf(w, d) BY <2>8, <2>11, NoFlightTyped DEF FlightOf, Committing
  <2>13. Loads(s, d) BY <2>1, <2>3, <2>6, <2>8 DEF Loads
  <2> QED BY <1>0, <2>7, <2>8, <2>9, <2>10, <2>12, <2>13, StepMade DEF LocalOf
<1> QED BY <1>1, <1>2

\* What a step of the processing lock's holder does to its worker, other than to stop
\* it or to go on: Receive, Break and WriteResult.
LEMMA ResultSteps ==
  ASSUME Local, NEW w \in Worker
  PROVE  LET s == ws[w]
             d == ws'[w]
         IN /\ Receive(w) => StepOf(w) /\ (Quiet(s, d) \/ Computes(w, s, d))
            /\ Break(w) => StepOf(w) /\ Breaks(s, d)
            /\ WriteResult(w) => StepOf(w) /\ (Quiet(s, d) \/ Queues(s, d))
<1> DEFINE s == ws[w]
<1>0. s \in WorkerState /\ PhaseOf(w, s) /\ FlightOf(w, s) /\ LocalOf(w, s) /\ TypeOK
  BY WorkerLocal DEF LocalOf, Local
<1>a. s.hist \in Seq(Worker) /\ s.queue \in Seq(Position) /\ s.flight \in Flight BY <1>0, StateFields
<1>b. Len(s.queue) \in Nat /\ s.flight.count \in Nat BY <1>0, StateFields
<1>1. ASSUME Receive(w)
      PROVE  StepOf(w) /\ (Quiet(s, ws'[w]) \/ Computes(w, s, ws'[w]))
  <2>1. s.phase = "running" /\ s.main = "idle" BY <1>1 DEF Receive, Ready
  <2>2. CASE Become(w, Stopping(s))
    <3>1. LocalOf(w, Stopping(s)) /\ Quiet(s, Stopping(s)) BY <1>0, <2>1, StopQuiet DEF Busy
    <3>2. Stopping(s).fenced = s.fenced /\ Stopping(s).beat = s.beat BY <1>0, StoppingFields
    <3> QED BY <1>0, <2>2, <3>1, <3>2, StepMade
  <2>3. CASE Become(w, [s EXCEPT !.hist = Append(@, w), !.main = "write"])
    <3> DEFINE h == Append(s.hist, w)
               d == [s EXCEPT !.hist = h, !.main = "write"]
    <3>1. /\ h \in Seq(Worker) /\ Len(h) = Len(s.hist) + 1 /\ h # <<>> /\ h[Len(h)] = w
          /\ \A i \in DOMAIN s.hist : i \in DOMAIN h /\ h[i] = s.hist[i] BY <1>a
    <3> HIDE DEF h
    <3>2. d \in WorkerState BY <1>0, <3>1 DEF WorkerState, Main
    <3>3. /\ d.hist = h /\ d.main = "write" /\ d.sig = s.sig /\ d.saves = s.saves
          /\ d.uncertain = s.uncertain /\ SameFlow(s, d) /\ d.closed = s.closed
          /\ d.loop = s.loop /\ d.phase = s.phase /\ d.fenced = s.fenced /\ d.pend = s.pend
          /\ d.beat = s.beat BY <1>0 DEF WorkerState, SameFlow
    <3>4. Become(w, d) BY <2>3 DEF h
    <3> HIDE DEF d
    <3>5. HeldBy(d) = HeldBy(s) BY <3>3 DEF HeldBy, SameFlow
    <3>6. PhaseOf(w, d) BY <1>0, <2>1, <3>3 DEF PhaseOf, Committing
    <3>7. FlightOf(w, d)
      <4>1. \A i \in HeldBy(d) : i \in DOMAIN d.hist /\ d.hist[i] = w /\ d.sig[1] = w
        BY <1>0, <3>1, <3>3, <3>5 DEF FlightOf
      <4>2. d.main = "write" => d.hist # <<>> /\ d.hist[Len(d.hist)] = w BY <3>1, <3>3
      <4>3. d.flight = s.flight /\ d.queue = s.queue BY <3>3 DEF SameFlow
      <4> QED BY <1>0, <2>1, <3>3, <4>1, <4>2, <4>3 DEF FlightOf, Committing
    <3>8. Computes(w, s, d) BY <2>1, <3>3 DEF Computes, h
    <3> QED BY <1>0, <3>2, <3>3, <3>4, <3>6, <3>7, <3>8, StepMade DEF LocalOf
  <2> QED BY <1>1, <2>2, <2>3 DEF Receive
<1>2. ASSUME Break(w)
      PROVE  StepOf(w) /\ Breaks(s, ws'[w])
  <2> DEFINE d == [s EXCEPT !.uncertain = TRUE, !.main = "fail"]
  <2>1. s.phase = "running" /\ s.main \in {"idle", "due"} BY <1>0, <1>2 DEF Break, Ready, PhaseOf
  <2>2. d \in WorkerState BY <1>0 DEF WorkerState, Main
  <2>3. /\ d.hist = s.hist /\ d.main = "fail" /\ d.sig = s.sig /\ d.saves = s.saves
        /\ SameFlow(s, d) /\ d.closed = s.closed
        /\ d.loop = s.loop /\ d.phase = s.phase /\ d.fenced = s.fenced /\ d.pend = s.pend
        /\ d.beat = s.beat BY <1>0 DEF WorkerState, SameFlow
  <2>4. Become(w, d) BY <1>2 DEF Break
  <2> HIDE DEF d
  <2>5. HeldBy(d) = HeldBy(s) BY <2>3 DEF HeldBy, SameFlow
  <2>6. PhaseOf(w, d) BY <1>0, <2>1, <2>3 DEF PhaseOf, Committing
  <2>7. FlightOf(w, d) BY <1>0, <2>1, <2>3, <2>5 DEF FlightOf, SameFlow, Committing
  <2>8. Breaks(s, d) BY <2>1, <2>3 DEF Breaks
  <2> QED BY <1>0, <2>2, <2>3, <2>4, <2>6, <2>7, <2>8, StepMade DEF LocalOf
<1>3. ASSUME WriteResult(w)
      PROVE  StepOf(w) /\ (Quiet(s, ws'[w]) \/ Queues(s, ws'[w]))
  <2>1. s.phase = "running" /\ s.main = "write" BY <1>0, <1>3 DEF WriteResult, PhaseOf
  <2>2. CASE s.closed /\ Become(w, Stopping(s))
    <3>1. LocalOf(w, Stopping(s)) /\ Quiet(s, Stopping(s)) BY <1>0, <2>1, <2>2, StopQuiet DEF Busy
    <3>2. Stopping(s).fenced = s.fenced /\ Stopping(s).beat = s.beat BY <1>0, StoppingFields
    <3> QED BY <1>0, <2>2, <3>1, <3>2, StepMade
  <2>3. CASE Room(w) /\ Become(w, [s EXCEPT !.queue = Append(@, LastResult(w)), !.main = "due"])
    <3> DEFINE n == Len(s.hist)
               q == Append(s.queue, n)
               d == [s EXCEPT !.queue = q, !.main = "due"]
    <3>1. n \in Position /\ n \in DOMAIN s.hist /\ s.hist[n] = w BY <1>0, <1>a, <2>1 DEF FlightOf, Position
    <3> HIDE DEF n
    <3>2. q \in Seq(Position) /\ Len(q) = Len(s.queue) + 1 BY <1>a, <3>1
    <3>3. Positions(q) = Positions(s.queue) \cup {n}
      <4>1. /\ DOMAIN q = 1 .. Len(s.queue) + 1 /\ DOMAIN s.queue = 1 .. Len(s.queue)
            /\ Len(s.queue) \in Nat
            /\ \A i \in DOMAIN q : q[i] = IF i = Len(s.queue) + 1 THEN n ELSE s.queue[i] BY <1>a, <3>1
      <4>2. ASSUME NEW i \in Positions(q) PROVE i \in Positions(s.queue) \cup {n} BY <4>1, <4>2 DEF Positions
      <4>3. ASSUME NEW i \in Positions(s.queue) PROVE i \in Positions(q)
        <5>1. PICK k \in 1 .. Len(s.queue) : i = s.queue[k] BY <4>1, <4>3 DEF Positions
        <5>2. k \in DOMAIN q /\ q[k] = i BY <4>1, <5>1
        <5> QED BY <5>2 DEF Positions
      <4>4. n \in Positions(q)
        <5>1. Len(s.queue) + 1 \in DOMAIN q /\ q[Len(s.queue) + 1] = n BY <4>1
        <5> QED BY <5>1 DEF Positions
      <4> QED BY <4>2, <4>3, <4>4
    <3>4. Become(w, d) BY <2>3 DEF LastResult, n
    <3> HIDE DEF q
    <3>5. d \in WorkerState BY <1>0, <3>2 DEF WorkerState, Main
    <3>6. /\ d.hist = s.hist /\ d.main = "due" /\ d.sig = s.sig /\ d.saves = s.saves
          /\ d.uncertain = s.uncertain /\ d.queue = q /\ d.flight = s.flight
          /\ d.closed = s.closed /\ d.beat = s.beat
          /\ d.loop = s.loop /\ d.phase = s.phase /\ d.fenced = s.fenced /\ d.pend = s.pend
      BY <1>0 DEF WorkerState
    <3> HIDE DEF d
    <3>7. HeldBy(d) = HeldBy(s) \cup {n} BY <3>3, <3>6 DEF HeldBy
    <3>8. PhaseOf(w, d) BY <1>0, <2>1, <3>6 DEF PhaseOf, Committing
    <3>9. FlightOf(w, d)
      <4>1. Len(d.queue) + d.flight.count <= QueueLimit
        <5>1. Len(s.queue) + s.flight.count < QueueLimit BY <2>3 DEF Room
        <5>2. PICK k \in Nat, c \in Nat : k = Len(s.queue) /\ c = s.flight.count BY <1>b
        <5>3. k + c < QueueLimit BY <5>1, <5>2
        <5>4. Len(d.queue) = k + 1 /\ d.flight.count = c BY <3>2, <3>6, <5>2
        <5>5. k + 1 + c <= QueueLimit BY <5>3
        <5> QED BY <5>4, <5>5
      <4>2. \A i \in HeldBy(d) : i \in DOMAIN d.hist /\ d.hist[i] = w /\ d.sig[1] = w
        BY <1>0, <2>1, <3>1, <3>6, <3>7 DEF FlightOf
      <4> QED BY <1>0, <2>1, <3>6, <4>1, <4>2 DEF FlightOf, Committing
    <3>10. Queues(s, d) BY <2>1, <3>6, <3>7 DEF Queues, SameData, n
    <3> QED BY <1>0, <3>4, <3>5, <3>6, <3>8, <3>9, <3>10, StepMade DEF LocalOf
  <2> QED BY <1>3, <2>2, <2>3 DEF WriteResult
<1> QED BY <1>1, <1>2, <1>3

\* The holder of the processing lock goes on with m.
LEMMA MainFields ==
  ASSUME NEW s \in WorkerState, NEW m \in Main
  PROVE  LET d == [s EXCEPT !.main = m]
         IN /\ d \in WorkerState /\ SameData(s, d) /\ SameFlow(s, d) /\ d.phase = s.phase
            /\ d.fenced = s.fenced /\ d.closed = s.closed /\ d.pend = s.pend /\ d.beat = s.beat
            /\ d.loop = s.loop /\ d.main = m /\ HeldBy(d) = HeldBy(s)
BY DEF WorkerState, SameData, SameFlow, HeldBy

\* A snapshot is frozen.
LEMMA AwaitFields ==
  ASSUME NEW s \in WorkerState
  PROVE  LET d == Await(s)
         IN /\ d \in WorkerState /\ d.hist = s.hist /\ d.sig = s.sig
            /\ d.uncertain = s.uncertain /\ d.saves = s.saves + 1
            /\ SameFlow(s, d) /\ d.phase = s.phase
            /\ d.fenced = s.fenced /\ d.closed = s.closed /\ d.pend = s.pend /\ d.beat = s.beat
            /\ d.loop = s.loop /\ d.main = "await" /\ HeldBy(d) = HeldBy(s)
<1>1. PICK n \in Nat : n = s.saves + 1 BY StateFields
<1> DEFINE d == [s EXCEPT !.main = "await", !.saves = n]
<1>2. Await(s) = d BY <1>1 DEF Await, WorkerState
<1>3. d \in WorkerState BY DEF WorkerState, Main
<1>4. /\ d.hist = s.hist /\ d.sig = s.sig /\ d.uncertain = s.uncertain /\ d.saves = n
      /\ SameFlow(s, d) /\ d.phase = s.phase
      /\ d.fenced = s.fenced /\ d.closed = s.closed /\ d.pend = s.pend /\ d.beat = s.beat
      /\ d.loop = s.loop /\ d.main = "await" BY DEF WorkerState, SameFlow
<1> HIDE DEF d
<1>5. HeldBy(d) = HeldBy(s) BY <1>4 DEF HeldBy, SameFlow
<1> QED BY <1>1, <1>2, <1>3, <1>4, <1>5

\* A worker that may, freezes a snapshot.
LEMMA Freezing ==
  ASSUME Local, NEW w \in Worker, ws[w].phase \in {"running", "stopping"},
         ws[w].main \in {"idle", "due"}, ~ws[w].uncertain, Become(w, Await(ws[w]))
  PROVE  StepOf(w) /\ Freezes(ws[w], ws'[w])
<1> DEFINE s == ws[w]
           d == Await(s)
<1>0. s \in WorkerState /\ PhaseOf(w, s) /\ FlightOf(w, s) /\ TypeOK BY WorkerLocal DEF LocalOf, Local
<1>1. /\ d \in WorkerState /\ d.hist = s.hist /\ d.sig = s.sig
      /\ d.uncertain = s.uncertain /\ d.saves = s.saves + 1
      /\ SameFlow(s, d) /\ d.phase = s.phase
      /\ d.fenced = s.fenced /\ d.closed = s.closed /\ d.pend = s.pend /\ d.beat = s.beat
      /\ d.loop = s.loop /\ d.main = "await" /\ HeldBy(d) = HeldBy(s) BY <1>0, AwaitFields
<1> HIDE DEF d
<1>2. PhaseOf(w, d) BY <1>0, <1>1 DEF PhaseOf, Committing
<1>3. FlightOf(w, d) BY <1>0, <1>1 DEF FlightOf, SameFlow, Committing
<1>4. Freezes(s, d) BY <1>1 DEF Freezes
<1> QED BY <1>0, <1>1, <1>2, <1>3, <1>4, StepMade DEF LocalOf, d

\* A worker that stops, or goes on as if nothing was due.
LEMMA Stops ==
  ASSUME Local, NEW w \in Worker, ws[w].phase \in Busy,
         ws[w].main \in {"idle", "write", "due", "await", "fail"},
         ws[w].main = "write" => ws[w].closed, Become(w, Stopping(ws[w]))
  PROVE  StepOf(w) /\ Quiet(ws[w], ws'[w])
<1>1. LocalOf(w, ws[w]) /\ TypeOK BY WorkerLocal DEF Local
<1>2. LocalOf(w, Stopping(ws[w])) /\ Quiet(ws[w], Stopping(ws[w])) BY <1>1, StopQuiet
<1>3. Stopping(ws[w]).fenced = ws[w].fenced /\ Stopping(ws[w]).beat = ws[w].beat
  BY <1>1, StoppingFields DEF LocalOf
<1> QED BY <1>1, <1>2, <1>3, StepMade

\* A worker that is fenced and stops.
LEMMA StopsFenced ==
  ASSUME Local, NEW w \in Worker, ws[w].phase \in Busy, Refused(w),
         ws[w].main \in {"idle", "due", "await", "fail"}, Become(w, Stopping(Fenced(ws[w])))
  PROVE  StepOf(w) /\ Quiet(ws[w], ws'[w])
<1> DEFINE s == ws[w]
           f == Fenced(s)
<1>1. LocalOf(w, s) /\ s \in WorkerState /\ TypeOK BY WorkerLocal DEF Local, LocalOf
<1>2. LocalOf(w, f) /\ Quiet(s, f) BY <1>1, FenceQuiet DEF Busy
<1>3. f \in WorkerState /\ f.main = s.main /\ f.phase = s.phase /\ f.beat = s.beat BY <1>1, FencedFields
<1> HIDE DEF f
<1>4. LocalOf(w, Stopping(f)) /\ Quiet(f, Stopping(f)) BY <1>2, <1>3, StopQuiet
<1>5. Stopping(f).beat = f.beat BY <1>3, StoppingFields
<1>6. Quiet(s, Stopping(f)) BY <1>2, <1>4, QuietTwice
<1> QED BY <1>1, <1>3, <1>4, <1>5, <1>6, StepMade DEF f

\* CheckpointIfDue, FinalCheckpoint and Shutdown.
LEMMA DueSteps ==
  ASSUME Local, NEW w \in Worker
  PROVE  LET s == ws[w]
             d == ws'[w]
         IN /\ CheckpointIfDue(w) => StepOf(w) /\ (Quiet(s, d) \/ Freezes(s, d))
            /\ FinalCheckpoint(w) => StepOf(w) /\ (Quiet(s, d) \/ Freezes(s, d))
            /\ Shutdown(w) => StepOf(w) /\ Quiet(s, d)
<1> DEFINE s == ws[w]
<1>0. s \in WorkerState /\ PhaseOf(w, s) /\ FlightOf(w, s) /\ LocalOf(w, s) /\ TypeOK
  BY WorkerLocal DEF LocalOf, Local
<1>1. ASSUME CheckpointIfDue(w)
      PROVE  StepOf(w) /\ (Quiet(s, ws'[w]) \/ Freezes(s, ws'[w]))
  <2>1. s.phase = "running" /\ s.main \in {"idle", "due"} BY <1>0, <1>1 DEF CheckpointIfDue, Ready, PhaseOf
  <2>2. CASE Become(w, Stopping(s)) BY <2>1, <2>2, Stops DEF Busy
  <2>3. CASE Become(w, Await(s))
    <3>1. ~s.uncertain BY <1>0, <2>1 DEF PhaseOf
    <3> QED BY <2>1, <2>3, <3>1, Freezing
  <2>4. CASE s.main = "due" /\ Become(w, [s EXCEPT !.main = "idle"])
    <3> DEFINE d == [s EXCEPT !.main = "idle"]
    <3>0. "idle" \in Main BY DEF Main
    <3>1. /\ d \in WorkerState /\ SameData(s, d) /\ SameFlow(s, d) /\ d.phase = s.phase
          /\ d.fenced = s.fenced /\ d.closed = s.closed /\ d.pend = s.pend /\ d.beat = s.beat
          /\ d.loop = s.loop /\ d.main = "idle" /\ HeldBy(d) = HeldBy(s) BY <1>0, <3>0, MainFields
    <3> HIDE DEF d
    <3>2. PhaseOf(w, d) BY <1>0, <2>1, <2>4, <3>1 DEF PhaseOf, SameData, Committing
    <3>3. FlightOf(w, d) BY <1>0, <2>1, <3>1 DEF FlightOf, SameData, SameFlow, Committing
    <3>4. Quiet(s, d) BY <2>1, <2>4, <3>1 DEF Quiet, Open, Busy, Committing
    <3>5. LocalOf(w, d) BY <3>1, <3>2, <3>3 DEF LocalOf
    <3>6. Become(w, d) BY <2>4 DEF d
    <3>7. StepOf(w) /\ ws'[w] = d BY <1>0, <3>1, <3>5, <3>6, StepMade
    <3> QED BY <3>4, <3>7
  <2> QED BY <1>1, <2>2, <2>3, <2>4 DEF CheckpointIfDue
<1>2. ASSUME FinalCheckpoint(w)
      PROVE  StepOf(w) /\ (Quiet(s, ws'[w]) \/ Freezes(s, ws'[w]))
  <2>1. s.phase = "stopping" /\ s.main = "idle" BY <1>2 DEF FinalCheckpoint
  <2>2. CASE MaySave(w) /\ Become(w, Await(s)) BY <2>1, <2>2, Freezing DEF MaySave
  <2>3. CASE Become(w, Stopping(s)) BY <2>1, <2>3, Stops DEF Busy
  <2> QED BY <1>2, <2>2, <2>3 DEF FinalCheckpoint
<1>3. ASSUME Shutdown(w)
      PROVE  StepOf(w) /\ Quiet(s, ws'[w]) BY <1>3, Stops DEF Shutdown, Busy
<1> QED BY <1>1, <1>2, <1>3

\* TakePending and CheckpointTimesOut.
LEMMA TakeSteps ==
  ASSUME Local, NEW w \in Worker
  PROVE  LET s == ws[w]
             d == ws'[w]
         IN /\ TakePending(w) => StepOf(w) /\ (Quiet(s, d) \/ Takes(w, s, d))
            /\ CheckpointTimesOut(w) => StepOf(w) /\ Quiet(s, d)
<1> DEFINE s == ws[w]
<1>0. s \in WorkerState /\ PhaseOf(w, s) /\ FlightOf(w, s) /\ LocalOf(w, s) /\ TypeOK
  BY WorkerLocal DEF LocalOf, Local
<1>a. /\ s.hist \in Seq(Worker) /\ s.queue \in Seq(Position) /\ s.flight \in Flight
      /\ s.saves \in Nat /\ Len(s.queue) \in Nat BY <1>0, StateFields
<1>1. ASSUME TakePending(w)
      PROVE  StepOf(w) /\ (Quiet(s, ws'[w]) \/ Takes(w, s, ws'[w]))
  <2>1. s.main = "await" /\ s.phase \in Busy /\ FlushLockFree(w) BY <1>0, <1>1 DEF TakePending, PhaseOf, Busy
  <2>2. CASE Become(w, Stopping(s)) BY <2>1, <2>2, Stops
  <2> DEFINE f == [count |-> Len(s.queue), todo |-> s.queue, kept |-> <<>>]
             d == [s EXCEPT !.main = "begin", !.pend = NextToken(w), !.queue = <<>>, !.flight = f]
  <2>3. CASE ~s.fenced /\ Become(w, d)
    <3>1. f \in Flight /\ f.count = Len(s.queue) /\ f.todo = s.queue /\ f.kept = <<>>
      <4>1. <<>> \in Seq(Position) OBVIOUS
      <4> QED BY <1>a, <4>1, Zenon DEF Flight
    <3> HIDE DEF f
    <3>2. NextToken(w) \in Token /\ NextToken(w) = <<w, s.saves>> BY <1>a DEF NextToken, Token
    <3>3. d \in WorkerState
      <4>1. "begin" \in Main /\ <<>> \in Seq(Position) BY DEF Main, Committing
      <4> QED BY <1>0, <3>1, <3>2, <4>1 DEF WorkerState
    <3>4. /\ SameData(s, d) /\ d.phase = s.phase /\ d.main = "begin" /\ d.loop = s.loop
          /\ d.fenced = s.fenced /\ d.closed = s.closed /\ d.pend = NextToken(w)
          /\ d.beat = s.beat /\ d.queue = <<>> /\ d.flight = f BY <1>0 DEF WorkerState, SameData
    <3> HIDE DEF d
    <3>5. s.loop \in {"idle", "off"} /\ s.main \notin Committing BY <2>1 DEF FlushLockFree, Committing
    <3>6. s.flight = NoFlight BY <1>0, <3>5 DEF FlightOf
    <3>7. HeldBy(d) = HeldBy(s) BY <3>1, <3>4, <3>6, NoFlightTyped DEF HeldBy
    <3>8. PhaseOf(w, d) BY <1>0, <2>1, <3>2, <3>4 DEF PhaseOf, SameData, Committing, Busy
    <3>9. FlightOf(w, d)
      <4>1. /\ Len(d.flight.todo) + Len(d.flight.kept) <= d.flight.count
            /\ Len(d.queue) + d.flight.count <= QueueLimit
        <5>0. Len(s.queue) + s.flight.count <= QueueLimit /\ s.flight.count = 0
          BY <1>0, <3>6, NoFlightTyped DEF FlightOf
        <5>1. Len(s.queue) <= QueueLimit BY <1>a, <5>0
        <5>2. PICK k \in Nat : k = Len(s.queue) BY <1>a
        <5>3. /\ Len(d.flight.todo) = k /\ Len(d.flight.kept) = 0 /\ Len(d.queue) = 0
              /\ d.flight.count = k BY <3>1, <3>4, <5>2
        <5> QED BY <5>1, <5>2, <5>3
      <4>2. d.queue = <<>> /\ d.flight.kept = <<>> BY <3>1, <3>4
      <4>3. "begin" \in Committing /\ d.main = "begin" BY <3>4 DEF Committing
      <4> QED BY <1>0, <2>1, <3>4, <3>5, <3>7, <4>1, <4>2, <4>3 DEF FlightOf, SameData
    <3>10. Takes(w, s, d) BY <2>1, <2>3, <3>2, <3>4, <3>5, <3>7 DEF Takes
    <3>11. LocalOf(w, d) BY <3>3, <3>8, <3>9 DEF LocalOf
    <3>12. StepOf(w) /\ ws'[w] = d BY <1>0, <2>3, <3>4, <3>11, StepMade
    <3> QED BY <3>10, <3>12
  <2> QED BY <1>1, <2>2, <2>3 DEF TakePending
<1>2. ASSUME CheckpointTimesOut(w)
      PROVE  StepOf(w) /\ Quiet(s, ws'[w])
  <2>1. CASE s.main = "await" /\ Become(w, Stopping(s))
    <3>1. s.phase \in Busy BY <1>0, <2>1 DEF PhaseOf, Busy
    <3> QED BY <2>1, <3>1, Stops
  <2>2. CASE s.main \in {"begin", "publish"} /\ Become(w, [s EXCEPT !.main = "undo"])
    <3> DEFINE d == [s EXCEPT !.main = "undo"]
    <3>1. s.main \in Committing /\ "undo" \in Main BY <2>2 DEF Committing, Main
    <3>2. LocalOf(w, d) /\ Quiet(s, d) BY <1>0, <3>1, UndoQuiet
    <3>3. d.fenced = s.fenced /\ d.beat = s.beat BY <1>0, <3>1, MainFields
    <3>4. Become(w, d) BY <2>2
    <3> HIDE DEF d
    <3>5. StepOf(w) /\ ws'[w] = d BY <1>0, <3>2, <3>3, <3>4, StepMade
    <3> QED BY <3>2, <3>5
  <2> QED BY <1>2, <2>1, <2>2 DEF CheckpointTimesOut
<1> QED BY <1>1, <1>2

\* ReplaceCheckpoint and FailPipelineRun.
LEMMA TransactionSteps ==
  ASSUME Local, NEW w \in Worker
  PROVE  LET s == ws[w]
             d == ws'[w]
         IN /\ ReplaceCheckpoint(w) =>
                 /\ StepOf(w)
                 /\ \/ Quiet(s, d) /\ UNCHANGED db
                    \/ Owns(w) /\ BeginsSave(s, d) /\ BeginTxn(w, "save", PendingRows(w))
            /\ FailPipelineRun(w) =>
                 /\ StepOf(w)
                 /\ \/ Quiet(s, d) /\ UNCHANGED db
                    \/ Owns(w) /\ BeginsFail(s, d) /\ BeginTxn(w, "fail", {})
<1> DEFINE s == ws[w]
<1>0. s \in WorkerState /\ PhaseOf(w, s) /\ FlightOf(w, s) /\ LocalOf(w, s) /\ TypeOK
  BY WorkerLocal DEF LocalOf, Local
<1>1. ASSUME ReplaceCheckpoint(w)
      PROVE  /\ StepOf(w)
             /\ \/ Quiet(s, ws'[w]) /\ UNCHANGED db
                \/ Owns(w) /\ BeginsSave(s, ws'[w]) /\ BeginTxn(w, "save", PendingRows(w))
  <2>0. s.main = "begin" /\ "begin" \in Committing BY <1>1 DEF ReplaceCheckpoint, Committing
  <2>1. CASE Owns(w) /\ BeginTxn(w, "save", PendingRows(w)) /\ Become(w, [s EXCEPT !.main = "saving"])
    <3> DEFINE d == [s EXCEPT !.main = "saving"]
    <3>0. "saving" \in Main /\ "saving" \in Committing BY DEF Main, Committing
    <3>1. /\ d \in WorkerState /\ SameData(s, d) /\ SameFlow(s, d) /\ d.phase = s.phase
          /\ d.fenced = s.fenced /\ d.closed = s.closed /\ d.pend = s.pend /\ d.beat = s.beat
          /\ d.loop = s.loop /\ d.main = "saving" /\ HeldBy(d) = HeldBy(s) BY <1>0, <3>0, MainFields
    <3>2. Become(w, d) BY <2>1
    <3> HIDE DEF d
    <3>3. PhaseOf(w, d) BY <1>0, <2>0, <3>0, <3>1 DEF PhaseOf, SameData
    <3>4. FlightOf(w, d) BY <1>0, <2>0, <3>0, <3>1 DEF FlightOf, SameData, SameFlow
    <3>5. LocalOf(w, d) BY <3>1, <3>3, <3>4 DEF LocalOf
    <3>6. StepOf(w) /\ ws'[w] = d BY <1>0, <3>1, <3>2, <3>5, StepMade
    <3>7. BeginsSave(s, d) BY <2>0, <3>1 DEF BeginsSave, Begins
    <3> QED BY <2>1, <3>6, <3>7
  <2>2. CASE ~Owns(w) /\ Become(w, [Fenced(s) EXCEPT !.main = "undo"]) /\ UNCHANGED db
    <3>0. s.phase \in Busy /\ "undo" \in Main BY <1>0, <2>0 DEF PhaseOf, Busy, Main, Committing
    <3> DEFINE f == Fenced(s)
               d == [f EXCEPT !.main = "undo"]
    <3>1. LocalOf(w, f) /\ Quiet(s, f) BY <1>0, <3>0, FenceQuiet DEF Busy
    <3>2. f \in WorkerState /\ f.main = s.main /\ f.beat = s.beat BY <1>0, FencedFields
    <3>3. Become(w, d) BY <2>2
    <3> HIDE DEF f
    <3>4. LocalOf(w, d) /\ Quiet(f, d) BY <2>0, <3>1, <3>2, UndoQuiet
    <3>5. d.beat = f.beat BY <3>0, <3>2, MainFields
    <3> HIDE DEF d
    <3>6. Quiet(s, d) BY <3>1, <3>4, QuietTwice
    <3>7. Refused(w) BY <2>0, <2>2 DEF Refused
    <3>8. StepOf(w) /\ ws'[w] = d BY <1>0, <3>2, <3>3, <3>4, <3>5, <3>7, StepMade
    <3> QED BY <2>2, <3>6, <3>8
  <2> QED BY <1>1, <2>1, <2>2 DEF ReplaceCheckpoint
<1>2. ASSUME FailPipelineRun(w)
      PROVE  /\ StepOf(w)
             /\ \/ Quiet(s, ws'[w]) /\ UNCHANGED db
                \/ Owns(w) /\ BeginsFail(s, ws'[w]) /\ BeginTxn(w, "fail", {})
  <2>0. s.main = "fail" /\ s.phase = "running" /\ FlushLockFree(w) BY <1>0, <1>2 DEF FailPipelineRun, PhaseOf
  <2>1. CASE Become(w, Stopping(s)) /\ UNCHANGED db BY <2>0, <2>1, Stops DEF Busy
  <2>2. CASE Owns(w) /\ BeginTxn(w, "fail", {}) /\ Become(w, [s EXCEPT !.main = "failing"])
    <3> DEFINE d == [s EXCEPT !.main = "failing"]
    <3>0. "failing" \in Main /\ s.loop \in {"idle", "off"} BY <2>0 DEF Main, FlushLockFree
    <3>1. /\ d \in WorkerState /\ SameData(s, d) /\ SameFlow(s, d) /\ d.phase = s.phase
          /\ d.fenced = s.fenced /\ d.closed = s.closed /\ d.pend = s.pend /\ d.beat = s.beat
          /\ d.loop = s.loop /\ d.main = "failing" /\ HeldBy(d) = HeldBy(s) BY <1>0, <3>0, MainFields
    <3>2. Become(w, d) BY <2>2
    <3> HIDE DEF d
    <3>3. PhaseOf(w, d) BY <1>0, <2>0, <3>0, <3>1 DEF PhaseOf, SameData, Committing
    <3>4. FlightOf(w, d) BY <1>0, <2>0, <3>0, <3>1 DEF FlightOf, SameData, SameFlow, Committing
    <3>5. LocalOf(w, d) BY <3>1, <3>3, <3>4 DEF LocalOf
    <3>6. StepOf(w) /\ ws'[w] = d BY <1>0, <3>1, <3>2, <3>5, StepMade
    <3>7. BeginsFail(s, d) BY <2>0, <3>1 DEF BeginsFail, Begins
    <3> QED BY <2>2, <3>6, <3>7
  <2>3. CASE ~Owns(w) /\ Become(w, Stopping(Fenced(s))) /\ UNCHANGED db
    <3>1. Refused(w) BY <2>0, <2>3 DEF Refused
    <3> QED BY <2>0, <2>3, <3>1, StopsFenced DEF Busy
  <2> QED BY <1>2, <2>1, <2>2, <2>3 DEF FailPipelineRun
<1> QED BY <1>1, <1>2

\* Publish.
LEMMA PublishStep ==
  ASSUME Local, NEW w \in Worker, Publish(w)
  PROVE  StepOf(w) /\ Publishes(ws[w], ws'[w])
<1> DEFINE s == ws[w]
           r == [s EXCEPT !.sig = s.pend, !.pend = NoToken, !.flight = NoFlight]
           d == Resumed(r)
<1>0. s \in WorkerState /\ PhaseOf(w, s) /\ FlightOf(w, s) /\ TypeOK BY WorkerLocal DEF LocalOf, Local
<1>1. s.main = "publish" /\ "publish" \in Committing BY DEF Publish, Committing
<1>2. /\ s.phase \in Busy /\ s.loop \in {"idle", "off"} /\ s.queue = <<>>
      /\ s.pend = <<w, s.saves>> /\ ~s.uncertain BY <1>0, <1>1 DEF PhaseOf, FlightOf, Busy
<1>3. NoToken \in Token /\ s.pend \in Token /\ s.pend[1] = w BY <1>0, <1>2 DEF NoToken, Token, WorkerState
<1>4. r \in WorkerState BY <1>0, <1>3, NoFlightTyped DEF WorkerState
<1>5. /\ r.hist = s.hist /\ r.saves = s.saves /\ r.uncertain = s.uncertain /\ r.sig = s.pend
      /\ r.pend = NoToken /\ r.flight = NoFlight /\ r.queue = s.queue /\ r.loop = s.loop
      /\ r.phase = s.phase /\ r.fenced = s.fenced /\ r.closed = s.closed /\ r.beat = s.beat
  BY <1>0 DEF WorkerState
<1>6. Become(w, d) BY DEF Publish
<1> HIDE DEF r
<1>7. /\ d \in WorkerState /\ d.hist = r.hist /\ d.saves = r.saves /\ d.uncertain = r.uncertain
      /\ d.sig = r.sig /\ d.pend = r.pend /\ d.flight = r.flight /\ d.queue = r.queue
      /\ d.loop = r.loop /\ d.fenced = r.fenced /\ d.beat = r.beat /\ d.main = "idle"
      /\ \/ s.phase \in {"starting", "running"} /\ d.phase = "running" /\ d.closed = s.closed
         \/ s.phase = "stopping" /\ d.phase = "draining" /\ d.closed
  <2> DEFINE d1 == [r EXCEPT !.main = "idle", !.phase = "running"]
             d2 == [r EXCEPT !.main = "idle"]
  <2>1. CASE s.phase = "starting"
    <3>1. d = d1 BY <1>5, <2>1 DEF Resumed
    <3>2. d1 \in WorkerState BY <1>4 DEF WorkerState, Main, Phase
    <3>3. /\ d1.hist = r.hist /\ d1.saves = r.saves /\ d1.uncertain = r.uncertain
          /\ d1.sig = r.sig /\ d1.pend = r.pend /\ d1.flight = r.flight /\ d1.queue = r.queue
          /\ d1.loop = r.loop /\ d1.fenced = r.fenced /\ d1.beat = r.beat /\ d1.main = "idle"
          /\ d1.phase = "running" /\ d1.closed = r.closed BY <1>4 DEF WorkerState
    <3> QED BY <1>5, <2>1, <3>1, <3>2, <3>3
  <2>2. CASE s.phase = "running"
    <3>1. d = d2 BY <1>5, <2>2 DEF Resumed
    <3>2. d2 \in WorkerState BY <1>4 DEF WorkerState, Main
    <3>3. /\ d2.hist = r.hist /\ d2.saves = r.saves /\ d2.uncertain = r.uncertain
          /\ d2.sig = r.sig /\ d2.pend = r.pend /\ d2.flight = r.flight /\ d2.queue = r.queue
          /\ d2.loop = r.loop /\ d2.fenced = r.fenced /\ d2.beat = r.beat /\ d2.main = "idle"
          /\ d2.phase = r.phase /\ d2.closed = r.closed BY <1>4 DEF WorkerState
    <3> QED BY <1>5, <2>2, <3>1, <3>2, <3>3
  <2>3. CASE s.phase = "stopping"
    <3>1. d = Stopping(r) BY <1>5, <2>3 DEF Resumed
    <3> QED BY <1>4, <1>5, <2>3, <3>1, StoppingFields DEF SameData, SameFlow
  <2> QED BY <1>2, <2>1, <2>2, <2>3 DEF Busy
<1> HIDE DEF d
<1>8. HeldBy(d) = {} BY <1>2, <1>5, <1>7, NoFlightTyped DEF HeldBy
<1>9. PhaseOf(w, d) BY <1>0, <1>2, <1>5, <1>7 DEF PhaseOf, Committing
<1>10. FlightOf(w, d)
  <2>1. /\ Len(d.flight.todo) + Len(d.flight.kept) <= d.flight.count
        /\ Len(d.queue) + d.flight.count <= QueueLimit
    <3>1. /\ Len(d.flight.todo) = 0 /\ Len(d.flight.kept) = 0 /\ d.flight.count = 0
          /\ Len(d.queue) = 0 BY <1>2, <1>5, <1>7, NoFlightTyped
    <3> QED BY <3>1
  <2> QED BY <1>2, <1>3, <1>5, <1>7, <1>8, <2>1 DEF FlightOf, Committing
<1>11. Publishes(s, d) BY <1>1, <1>2, <1>5, <1>7 DEF Publishes
<1>12. LocalOf(w, d) BY <1>7, <1>9, <1>10 DEF LocalOf
<1>13. StepOf(w) /\ ws'[w] = d BY <1>0, <1>5, <1>6, <1>7, <1>12, StepMade
<1> QED BY <1>11, <1>13

\* Undo: the results of the snapshot are queued again, and the worker stops.
LEMMA UndoStep ==
  ASSUME Local, NEW w \in Worker, Undo(w)
  PROVE  StepOf(w) /\ Quiet(ws[w], ws'[w])
<1> DEFINE s == ws[w]
           q == Requeued(s)
           r == [q EXCEPT !.pend = NoToken]
           d == Stopping(r)
<1>0. s \in WorkerState /\ PhaseOf(w, s) /\ FlightOf(w, s) /\ TypeOK BY WorkerLocal DEF LocalOf, Local
<1>1. s.main = "undo" /\ "undo" \in Committing BY DEF Undo, Committing
<1>2. s.phase \in Busy /\ s.loop \in {"idle", "off"} BY <1>0, <1>1 DEF PhaseOf, FlightOf, Busy
<1>3. /\ q \in WorkerState /\ q.flight = NoFlight
      /\ Len(q.queue) = Len(s.flight.kept) + Len(s.flight.todo) + Len(s.queue)
      /\ HeldBy(q) = HeldBy(s) /\ SameData(s, q) /\ q.phase = s.phase
      /\ q.fenced = s.fenced /\ q.closed = s.closed
      /\ q.loop = s.loop /\ q.beat = s.beat BY <1>0, RequeuedFields
<1>4. Become(w, d) BY DEF Undo
<1> HIDE DEF q
<1>5. NoToken \in Token BY DEF NoToken, Token
<1>6. r \in WorkerState BY <1>3, <1>5 DEF WorkerState
<1>7. /\ SameData(q, r) /\ SameFlow(q, r) /\ r.phase = q.phase /\ r.fenced = q.fenced
      /\ r.closed = q.closed /\ r.loop = q.loop /\ r.pend = NoToken /\ r.beat = q.beat
  BY <1>3 DEF WorkerState, SameData, SameFlow
<1> HIDE DEF r
<1>8. /\ d \in WorkerState /\ d.fenced = r.fenced /\ d.main = "idle"
      /\ d.loop = r.loop /\ d.pend = r.pend /\ d.beat = r.beat
      /\ SameData(r, d) /\ SameFlow(r, d)
      /\ \/ r.phase = "stopping" /\ d.phase = "draining" /\ d.closed
         \/ r.phase # "stopping" /\ d.phase = "stopping" /\ d.closed = r.closed BY <1>6, StoppingFields
<1> HIDE DEF d
<1>9. HeldBy(d) = HeldBy(s) BY <1>3, <1>7, <1>8 DEF HeldBy, SameFlow
<1>10. PhaseOf(w, d) BY <1>0, <1>2, <1>3, <1>7, <1>8 DEF PhaseOf, SameData, Committing, Busy
<1>11. FlightOf(w, d)
  <2>1. /\ Len(d.flight.todo) + Len(d.flight.kept) <= d.flight.count
        /\ Len(d.queue) + d.flight.count <= QueueLimit
    <3>1. /\ Len(s.flight.todo) + Len(s.flight.kept) <= s.flight.count
          /\ Len(s.queue) + s.flight.count <= QueueLimit BY <1>0 DEF FlightOf
    <3>2. /\ Len(s.flight.kept) \in Nat /\ Len(s.flight.todo) \in Nat /\ Len(s.queue) \in Nat
          /\ s.flight.count \in Nat
      <4>1. /\ s.flight.kept \in Seq(Position) /\ s.flight.todo \in Seq(Position)
            /\ s.queue \in Seq(Position) /\ s.flight.count \in Nat BY <1>0, StateFields
      <4>2. Len(s.flight.kept) \in Nat BY <4>1
      <4>3. Len(s.flight.todo) \in Nat BY <4>1
      <4>4. Len(s.queue) \in Nat BY <4>1
      <4> QED BY <4>1, <4>2, <4>3, <4>4
    <3>3. PICK k \in Nat, n \in Nat, m \in Nat, c \in Nat :
            /\ k = Len(s.flight.kept) /\ n = Len(s.flight.todo) /\ m = Len(s.queue)
            /\ c = s.flight.count BY <3>2
    <3>4. /\ Len(d.flight.todo) = 0 /\ Len(d.flight.kept) = 0 /\ d.flight.count = 0
      BY <1>3, <1>7, <1>8, NoFlightTyped DEF SameFlow
    <3>5. Len(d.queue) = k + n + m BY <1>3, <1>7, <1>8, <3>3 DEF SameFlow
    <3>6. n + k <= c /\ m + c <= QueueLimit BY <3>1, <3>3
    <3>7. k + n + m <= QueueLimit
      <4>1. k \in Nat /\ n \in Nat /\ m \in Nat /\ c \in Nat /\ QueueLimit \in Nat BY <3>3
      <4> QED BY <3>6, <4>1
    <3> QED BY <3>4, <3>5, <3>7
  <2>2. d.flight = NoFlight /\ d.main = "idle" /\ d.loop = s.loop BY <1>3, <1>7, <1>8 DEF SameFlow
  <2>3. d.hist = s.hist /\ d.sig = s.sig BY <1>3, <1>7, <1>8 DEF SameData
  <2>4. \A i \in HeldBy(d) : i \in DOMAIN d.hist /\ d.hist[i] = w /\ d.sig[1] = w
    BY <1>0, <1>9, <2>3 DEF FlightOf
  <2>5. d.phase # "running" BY <1>8
  <2> QED BY <2>1, <2>2, <2>4, <2>5 DEF FlightOf, Committing
<1>12. Quiet(s, d) BY <1>1, <1>2, <1>3, <1>7, <1>8, <1>9 DEF Quiet, Open, SameData, Busy, Committing
<1>13. LocalOf(w, d) BY <1>8, <1>10, <1>11 DEF LocalOf
<1>14. StepOf(w) /\ ws'[w] = d BY <1>0, <1>3, <1>4, <1>7, <1>8, <1>13, StepMade
<1> QED BY <1>12, <1>14

\* The heartbeat goes on with b.
LEMMA BeatQuiet ==
  ASSUME NEW w \in Worker, NEW s, LocalOf(w, s), NEW b \in Beat,
         s.phase \notin {"new", "admitted", "off"}
  PROVE  LET d == [s EXCEPT !.beat = b]
         IN LocalOf(w, d) /\ Quiet(s, d) /\ d.beat = b /\ d.fenced = s.fenced
<1> DEFINE d == [s EXCEPT !.beat = b]
<1>1. /\ d \in WorkerState /\ SameData(s, d) /\ SameFlow(s, d) /\ d.phase = s.phase
      /\ d.fenced = s.fenced /\ d.closed = s.closed /\ d.pend = s.pend /\ d.main = s.main
      /\ d.loop = s.loop /\ d.beat = b BY DEF LocalOf, WorkerState, SameData, SameFlow
<1> HIDE DEF d
<1>2. HeldBy(d) = HeldBy(s) BY <1>1 DEF HeldBy, SameFlow
<1>3. PhaseOf(w, d) BY <1>1 DEF LocalOf, PhaseOf, SameData
<1>4. FlightOf(w, d) BY <1>1, <1>2 DEF LocalOf, FlightOf, SameData, SameFlow
<1>5. Quiet(s, d) BY <1>1, <1>2 DEF Quiet, Open
<1> QED BY <1>1, <1>3, <1>4, <1>5 DEF LocalOf, d

\* StartHeartbeat, UpdateStatus, CommitStatus and HeartbeatFails.
LEMMA BeatSteps ==
  ASSUME Local, NEW w \in Worker,
         StartHeartbeat(w) \/ UpdateStatus(w) \/ CommitStatus(w) \/ HeartbeatFails(w)
  PROVE  StepOf(w) /\ Quiet(ws[w], ws'[w])
<1> DEFINE s == ws[w]
<1>0. s \in WorkerState /\ PhaseOf(w, s) /\ LocalOf(w, s) /\ TypeOK BY WorkerLocal DEF LocalOf, Local
<1>1. s.beat # "idle" => s.phase \notin {"new", "admitted", "off"}
  <2> SUFFICES ASSUME s.phase \in {"new", "admitted", "off"} PROVE s.beat = "idle" OBVIOUS
  <2>1. s = [NewWorker EXCEPT !.phase = s.phase] BY <1>0 DEF PhaseOf
  <2>2. s.phase \in Phase BY DEF Phase
  <2> QED BY <2>1, <2>2, NewTyped
<1>2. s.phase \notin {"new", "admitted", "off"}
  BY <1>1 DEF StartHeartbeat, UpdateStatus, CommitStatus, HeartbeatFails
<1>3. ASSUME NEW b \in Beat, Become(w, [s EXCEPT !.beat = b]), b = "updated" => outcome' = "open"
      PROVE  StepOf(w) /\ Quiet(s, ws'[w])
  <2> DEFINE d == [s EXCEPT !.beat = b]
  <2>1. LocalOf(w, d) /\ Quiet(s, d) /\ d.beat = b /\ d.fenced = s.fenced BY <1>0, <1>2, BeatQuiet
  <2>2. Become(w, d) BY <1>3
  <2> HIDE DEF d
  <2> QED BY <1>0, <1>3, <2>1, <2>2, StepMade
<1>4. ASSUME Become(w, Fenced(s)), Refused(w)
      PROVE  StepOf(w) /\ Quiet(s, ws'[w])
  <2>1. LocalOf(w, Fenced(s)) /\ Quiet(s, Fenced(s)) BY <1>0, <1>2, FenceQuiet
  <2>2. Fenced(s).beat = s.beat BY <1>0, FencedFields
  <2> QED BY <1>0, <1>4, <2>1, <2>2, StepMade
<1>5. ASSUME Become(w, [Fenced(s) EXCEPT !.beat = "idle"]), Refused(w)
      PROVE  StepOf(w) /\ Quiet(s, ws'[w])
  <2> DEFINE f == Fenced(s)
             d == [f EXCEPT !.beat = "idle"]
  <2>1. LocalOf(w, f) /\ Quiet(s, f) BY <1>0, <1>2, FenceQuiet
  <2>2. f.phase = s.phase /\ "idle" \in Beat BY <1>0, FencedFields DEF Beat
  <2>3. Become(w, d) BY <1>5
  <2> HIDE DEF f
  <2>4. LocalOf(w, d) /\ Quiet(f, d) /\ d.beat = "idle" BY <1>2, <2>1, <2>2, BeatQuiet
  <2> HIDE DEF d
  <2>5. Quiet(s, d) BY <2>1, <2>4, QuietTwice
  <2> QED BY <1>0, <1>5, <2>3, <2>4, <2>5, StepMade
<1>6. {"idle", "checked", "updated"} \subseteq Beat BY DEF Beat
<1>7. ~OwnsForHealth(w) => Refused(w) BY DEF Refused
<1>8. CASE StartHeartbeat(w) BY <1>3, <1>4, <1>6, <1>7, <1>8 DEF StartHeartbeat
<1>9. CASE UpdateStatus(w) BY <1>3, <1>5, <1>6, <1>7, <1>9 DEF UpdateStatus, RunOpen, db
<1>10. CASE CommitStatus(w) \/ HeartbeatFails(w) BY <1>3, <1>6, <1>10 DEF CommitStatus, HeartbeatFails
<1> QED BY <1>8, <1>9, <1>10

\* A process that is not there does nothing.
LEMMA Absent ==
  ASSUME NEW w \in Worker, NEW s, LocalOf(w, s), s.phase \in {"new", "admitted", "off"}
  PROVE  s.main = "idle" /\ s.loop = "idle" /\ s.beat = "idle" /\ ~s.fenced
<1>1. s = [NewWorker EXCEPT !.phase = s.phase] BY DEF LocalOf, PhaseOf
<1>2. s.phase \in Phase BY DEF Phase
<1> QED BY <1>1, <1>2, NewTyped

\* FlushBatch: the queue becomes the batch.
LEMMA FlushStep ==
  ASSUME Local, NEW w \in Worker, FlushBatch(w)
  PROVE  StepOf(w) /\ Quiet(ws[w], ws'[w])
<1> DEFINE s == ws[w]
           f == [count |-> Len(s.queue), todo |-> s.queue, kept |-> <<>>]
           d == [s EXCEPT !.loop = "rows", !.queue = <<>>, !.flight = f]
<1>0. s \in WorkerState /\ PhaseOf(w, s) /\ FlightOf(w, s) /\ TypeOK BY WorkerLocal DEF LocalOf, Local
<1>a. /\ s.queue \in Seq(Position) /\ s.flight \in Flight /\ Len(s.queue) \in Nat
      /\ <<>> \in Seq(Position) BY <1>0, StateFields
<1>1. /\ s.loop = "idle" /\ s.main \notin Committing \cup {"failing"}
      /\ s.phase \notin {"new", "admitted", "off"} BY DEF FlushBatch, FlushLockFree
<1>2. Become(w, d) BY DEF FlushBatch
<1>3. f \in Flight /\ f.count = Len(s.queue) /\ f.todo = s.queue /\ f.kept = <<>> BY <1>a, Zenon DEF Flight
<1> HIDE DEF f
<1>4. d \in WorkerState
  <2>1. "rows" \in Loop BY DEF Loop
  <2> QED BY <1>0, <1>a, <1>3, <2>1 DEF WorkerState
<1>5. /\ SameData(s, d) /\ d.phase = s.phase /\ d.main = s.main /\ d.loop = "rows"
      /\ d.fenced = s.fenced /\ d.closed = s.closed /\ d.pend = s.pend
      /\ d.beat = s.beat /\ d.queue = <<>> /\ d.flight = f BY <1>0 DEF WorkerState, SameData
<1> HIDE DEF d
<1>6. s.flight = NoFlight BY <1>0, <1>1 DEF FlightOf
<1>7. HeldBy(d) = HeldBy(s) BY <1>3, <1>5, <1>6, NoFlightTyped DEF HeldBy
<1>8. PhaseOf(w, d) BY <1>0, <1>1, <1>5 DEF PhaseOf, SameData
<1>9. FlightOf(w, d)
  <2>1. /\ Len(d.flight.todo) + Len(d.flight.kept) <= d.flight.count
        /\ Len(d.queue) + d.flight.count <= QueueLimit
    <3>1. Len(s.queue) + s.flight.count <= QueueLimit /\ s.flight.count = 0
      BY <1>0, <1>6, NoFlightTyped DEF FlightOf
    <3>2. PICK k \in Nat : k = Len(s.queue) BY <1>a
    <3>3. /\ Len(d.flight.todo) = k /\ Len(d.flight.kept) = 0 /\ Len(d.queue) = 0
          /\ d.flight.count = k BY <1>3, <1>5, <3>2
    <3> QED BY <3>1, <3>2, <3>3
  <2>2. d.hist = s.hist /\ d.sig = s.sig BY <1>5 DEF SameData
  <2>3. d.loop \notin {"idle", "off"} /\ d.main \notin Committing \cup {"failing"} BY <1>1, <1>5
  <2> QED BY <1>0, <1>5, <1>7, <2>1, <2>2, <2>3 DEF FlightOf
<1>10. Quiet(s, d) BY <1>1, <1>5, <1>7 DEF Quiet, Open, Busy, Committing
<1>11. LocalOf(w, d) BY <1>4, <1>8, <1>9 DEF LocalOf
<1>12. StepOf(w) /\ ws'[w] = d BY <1>0, <1>2, <1>5, <1>11, StepMade
<1> QED BY <1>10, <1>12

\* WriteRows: the writer begins a transaction, or its loop ends.
LEMMA RowsStep ==
  ASSUME Local, NEW w \in Worker, WriteRows(w)
  PROVE  /\ StepOf(w)
         /\ \/ Quiet(ws[w], ws'[w]) /\ UNCHANGED db
            \/ /\ Owns(w) /\ BeginsRows(ws[w], ws'[w])
               /\ BeginTxn(w, "rows", Positions(Batch(w)))
<1> DEFINE s == ws[w]
<1>0. s \in WorkerState /\ PhaseOf(w, s) /\ FlightOf(w, s) /\ LocalOf(w, s) /\ TypeOK
  BY WorkerLocal DEF LocalOf, Local
<1>1. s.loop \in {"rows", "retry"} BY DEF WriteRows
<1>2. s.phase \notin {"new", "admitted", "off"} BY <1>0, <1>1, Absent
<1>3. CASE s.fenced /\ Become(w, LoopDies(s)) /\ UNCHANGED db
  <2>1. LocalOf(w, LoopDies(s)) /\ Quiet(s, LoopDies(s)) BY <1>0, <1>1, <1>2, <1>3, FlushQuiet
  <2>2. LoopDies(s).fenced = s.fenced /\ LoopDies(s).beat = s.beat BY <1>0, LoopDiesFields
  <2> QED BY <1>0, <1>3, <2>1, <2>2, StepMade
<1>4. CASE /\ Owns(w) /\ BeginTxn(w, "rows", Positions(Batch(w)))
           /\ Become(w, [s EXCEPT !.loop = "writing"])
  <2> DEFINE d == [s EXCEPT !.loop = "writing"]
  <2>1. d \in WorkerState BY <1>0 DEF WorkerState, Loop
  <2>2. /\ SameData(s, d) /\ SameFlow(s, d) /\ d.phase = s.phase /\ d.main = s.main
        /\ d.fenced = s.fenced /\ d.closed = s.closed /\ d.pend = s.pend /\ d.beat = s.beat
        /\ d.loop = "writing" BY <1>0 DEF WorkerState, SameData, SameFlow
  <2>3. Become(w, d) BY <1>4
  <2> HIDE DEF d
  <2>4. HeldBy(d) = HeldBy(s) BY <2>2 DEF HeldBy, SameFlow
  <2>5. PhaseOf(w, d) BY <1>0, <1>2, <2>2 DEF PhaseOf, SameData
  <2>6. FlightOf(w, d) BY <1>0, <1>1, <2>2, <2>4 DEF FlightOf, SameData, SameFlow
  <2>7. LocalOf(w, d) BY <2>1, <2>5, <2>6 DEF LocalOf
  <2>8. StepOf(w) /\ ws'[w] = d BY <1>0, <2>2, <2>3, <2>7, StepMade
  <2>9. BeginsRows(s, d) BY <1>1, <2>2 DEF BeginsRows, Begins
  <2> QED BY <1>4, <2>8, <2>9
<1>5. CASE ~Owns(w) /\ Become(w, LoopDies(Fenced(s))) /\ UNCHANGED db
  <2> DEFINE f == Fenced(s)
  <2>1. LocalOf(w, f) /\ Quiet(s, f) BY <1>0, <1>2, FenceQuiet
  <2>2. f \in WorkerState /\ f.phase = s.phase /\ f.loop = s.loop /\ f.fenced /\ f.beat = s.beat
    BY <1>0, FencedFields
  <2> HIDE DEF f
  <2>3. LocalOf(w, LoopDies(f)) /\ Quiet(f, LoopDies(f)) BY <1>1, <1>2, <2>1, <2>2, FlushQuiet
  <2>4. LoopDies(f).beat = f.beat BY <2>2, LoopDiesFields
  <2>5. Quiet(s, LoopDies(f)) BY <2>1, <2>3, QuietTwice
  <2>6. Refused(w) BY <1>1, <1>5 DEF Refused
  <2>7. Become(w, LoopDies(f)) BY <1>5 DEF f
  <2>8. StepOf(w) /\ ws'[w] = LoopDies(f) BY <1>0, <2>2, <2>3, <2>4, <2>6, <2>7, StepMade
  <2> QED BY <1>5, <2>5, <2>8
<1> QED BY <1>3, <1>4, <1>5 DEF WriteRows, AssertOwnership

\* RetryExhausted: a chunk is put aside.
LEMMA ExhaustedStep ==
  ASSUME Local, NEW w \in Worker, RetryExhausted(w)
  PROVE  StepOf(w) /\ Quiet(ws[w], ws'[w])
<1> DEFINE s == ws[w]
           k == s.flight.kept \o Chunk(s)
           d == [s EXCEPT !.flight.kept = k, !.flight.todo = Rest(s)]
<1>0. s \in WorkerState /\ PhaseOf(w, s) /\ FlightOf(w, s) /\ LocalOf(w, s) /\ TypeOK
  BY WorkerLocal DEF LocalOf, Local
<1>1. s.loop = "retry" /\ s.main \notin Committing \cup {"failing"} BY <1>0 DEF RetryExhausted, FlightOf
<1>2. s.phase \notin {"new", "admitted", "off"} BY <1>0, <1>1, Absent
<1>3. /\ Chunk(s) \in Seq(Position) /\ Rest(s) \in Seq(Position)
      /\ Len(Chunk(s)) + Len(Rest(s)) = Len(s.flight.todo)
      /\ Positions(s.flight.todo) = Positions(Chunk(s)) \cup Positions(Rest(s)) BY <1>0, ChunkParts
<1>4. s.flight.kept \in Seq(Position) /\ s.flight.todo \in Seq(Position) /\ s.flight \in Flight
  BY <1>0, StateFields
<1>5. /\ k \in Seq(Position) /\ Len(k) = Len(s.flight.kept) + Len(Chunk(s))
      /\ Positions(k) = Positions(s.flight.kept) \cup Positions(Chunk(s)) BY <1>3, <1>4, ConcatPositions
<1>6. Become(w, IF Rest(s) = <<>> THEN FlushOver(d, "idle") ELSE d)
  <2>1. [s EXCEPT !.flight.kept = @ \o Chunk(s), !.flight.todo = Rest(s)] = d
    BY <1>0, <1>4 DEF WorkerState, Flight
  <2> QED BY <2>1 DEF RetryExhausted
<1> HIDE DEF k
<1>7. d \in WorkerState BY <1>0, <1>3, <1>4, <1>5 DEF WorkerState, Flight
<1>8. /\ SameData(s, d) /\ d.phase = s.phase /\ d.main = s.main /\ d.loop = s.loop
      /\ d.fenced = s.fenced /\ d.closed = s.closed /\ d.pend = s.pend
      /\ d.beat = s.beat /\ d.queue = s.queue
      /\ d.flight.count = s.flight.count /\ d.flight.todo = Rest(s) /\ d.flight.kept = k
  BY <1>0, <1>4 DEF WorkerState, SameData, Flight
<1> HIDE DEF d
<1>9. HeldBy(d) = HeldBy(s) BY <1>3, <1>5, <1>8 DEF HeldBy
<1>10. PhaseOf(w, d) BY <1>0, <1>2, <1>8 DEF PhaseOf, SameData
<1>11. FlightOf(w, d)
  <2>1. Len(d.flight.todo) + Len(d.flight.kept) <= d.flight.count
    <3>1. PICK a \in Nat, b \in Nat, c \in Nat :
            a = Len(s.flight.kept) /\ b = Len(Chunk(s)) /\ c = Len(Rest(s)) BY <1>3, <1>4
    <3>2. /\ Len(s.flight.todo) = b + c /\ Len(k) = a + b
          /\ Len(s.flight.todo) + Len(s.flight.kept) <= s.flight.count BY <1>0, <1>3, <1>5, <3>1 DEF FlightOf
    <3>3. s.flight.count \in Nat BY <1>4 DEF Flight
    <3>4. PICK n \in Nat : n = s.flight.count BY <3>3
    <3>5. Len(d.flight.todo) = c /\ Len(d.flight.kept) = a + b /\ d.flight.count = n BY <1>8, <3>1, <3>2, <3>4
    <3>6. b + c + a <= n BY <3>1, <3>2, <3>4
    <3>7. c + (a + b) <= n
      <4>1. a \in Nat /\ b \in Nat /\ c \in Nat /\ n \in Nat BY <3>1, <3>4
      <4> QED BY <3>6, <4>1
    <3> QED BY <3>5, <3>7
  <2>2. d.hist = s.hist /\ d.sig = s.sig BY <1>8 DEF SameData
  <2> QED BY <1>0, <1>1, <1>8, <1>9, <2>1, <2>2 DEF FlightOf
<1>12. Quiet(s, d) BY <1>1, <1>2, <1>8, <1>9 DEF Quiet, Open, Busy, Committing
<1>13. LocalOf(w, d) BY <1>7, <1>10, <1>11 DEF LocalOf
<1>14. CASE Rest(s) = <<>>
  <2>1. LocalOf(w, FlushOver(d, "idle")) /\ Quiet(d, FlushOver(d, "idle"))
    BY <1>1, <1>2, <1>8, <1>13, FlushQuiet
  <2>2. FlushOver(d, "idle").fenced = d.fenced /\ FlushOver(d, "idle").beat = d.beat
    BY <1>7, FlushOverFields DEF Loop
  <2>3. Quiet(s, FlushOver(d, "idle")) BY <1>12, <2>1, QuietTwice
  <2>4. StepOf(w) /\ ws'[w] = FlushOver(d, "idle") BY <1>0, <1>6, <1>8, <1>14, <2>1, <2>2, StepMade
  <2> QED BY <2>3, <2>4
<1>15. CASE Rest(s) # <<>>
  <2>1. StepOf(w) /\ ws'[w] = d BY <1>0, <1>6, <1>8, <1>13, <1>15, StepMade
  <2> QED BY <1>12, <2>1
<1> QED BY <1>14, <1>15

\* Exit and Crash: nothing is left of the process.
LEMMA EndSteps ==
  ASSUME Local, NEW w \in Worker, Exit(w) \/ Crash(w)
  PROVE  StepOf(w) /\ Ends(ws'[w])
<1> DEFINE d == [NewWorker EXCEPT !.phase = "off"]
<1>1. Become(w, d) BY DEF Exit, Crash
<1>2. /\ d \in WorkerState /\ d.phase = "off" /\ d.hist = <<>> /\ ~d.uncertain
      /\ d.queue = <<>> /\ d.flight = NoFlight /\ d.sig = NoToken /\ d.pend = NoToken
      /\ d.saves = 0 /\ ~d.fenced /\ ~d.closed /\ d.main = "idle" /\ d.loop = "idle"
      /\ d.beat = "idle"
  <2>1. "off" \in Phase BY DEF Phase
  <2> QED BY <2>1, NewTyped
<1>3. PhaseOf(w, d) BY <1>2 DEF PhaseOf, Committing
<1> HIDE DEF d
<1>4. HeldBy(d) = {} BY <1>2, NoFlightTyped DEF HeldBy
<1>5. FlightOf(w, d)
  <2>1. /\ Len(d.flight.todo) + Len(d.flight.kept) <= d.flight.count
        /\ Len(d.queue) + d.flight.count <= QueueLimit
    <3>1. /\ Len(d.flight.todo) = 0 /\ Len(d.flight.kept) = 0 /\ d.flight.count = 0
          /\ Len(d.queue) = 0 BY <1>2, NoFlightTyped
    <3> QED BY <3>1
  <2> QED BY <1>2, <1>4, <2>1 DEF FlightOf, Committing
<1>6. Ends(d) BY <1>2 DEF Ends
<1>7. LocalOf(w, d) BY <1>2, <1>3, <1>5 DEF LocalOf
<1>8. StepOf(w) /\ ws'[w] = d BY <1>1, <1>2, <1>7, StepMade DEF Local
<1> QED BY <1>6, <1>8

-----------------------------------------------------------------------------
(* The replies of the database.                                            *)

\* A transaction is a worker's.
TxnOwned == txn = NoTxn \/ txn.by \in Worker

\* Nothing waits for a reply.
Waitless(s) == s.loop # "writing" /\ s.main \notin {"saving", "failing"}

\* LoseReply and AbortTxn: who waited goes on without a reply.
LEMMA LostSteps ==
  ASSUME Local, TxnOwned, Awaited
  PROVE  LET w == txn.by
         IN /\ w \in Worker
            /\ Become(w, ReplyLost(ws[w])) =>
                 StepOf(w) /\ Quiet(ws[w], ws'[w]) /\ Waitless(ws'[w])
<1> DEFINE w == txn.by
           s == ws[w]
<1>1. w \in Worker BY DEF Awaited, TxnOwned
<1>0. s \in WorkerState /\ LocalOf(w, s) /\ TypeOK BY <1>1, WorkerLocal DEF LocalOf, Local
<1> HIDE DEF w
<1>2. s.loop = "writing" \/ s.main \in {"saving", "failing"} BY DEF Awaited, w
<1>3. s.loop = "writing" => s.phase \notin {"new", "admitted", "off"} BY <1>0, <1>1, Absent
<1>4. s.main \in {"saving", "failing"} => s.loop \in {"idle", "off"} BY <1>0 DEF LocalOf, FlightOf, Committing
<1>5. LocalOf(w, ReplyLost(s)) /\ Quiet(s, ReplyLost(s)) BY <1>0, <1>1, <1>2, <1>3, UndoQuiet
<1>6. ReplyLost(s).fenced = s.fenced /\ ReplyLost(s).beat = s.beat BY <1>0, <1>2, <1>4, ReplyLostFields
<1>8. Waitless(ReplyLost(s))
  <2>1. s.loop = "writing" => s.main \notin {"saving", "failing"} BY <1>0 DEF LocalOf, FlightOf, Committing
  <2> QED BY <1>0, <1>2, <1>4, <2>1, ReplyLostFields DEF Waitless
<1>7. ASSUME Become(w, ReplyLost(s))
      PROVE  StepOf(w) /\ Quiet(s, ws'[w]) /\ Waitless(ws'[w]) BY <1>0, <1>1, <1>5, <1>6, <1>7, <1>8, StepMade
<1> QED BY <1>1, <1>7 DEF w

\* A batch, or its first chunk, was stored.
Stores(s, d, rows) ==
  /\ SameData(s, d) /\ HeldBy(d) \subseteq HeldBy(s) /\ HeldBy(s) \subseteq HeldBy(d) \cup rows
  /\ d.main = s.main /\ s.main \notin Committing \cup {"failing"}
  /\ d.loop \in {"idle", "retry"} /\ d.closed = s.closed
  /\ s.phase \notin {"new", "admitted", "off"}
  /\ d.phase = s.phase \/ (s.phase = "draining" /\ d.phase = "drained")

\* A snapshot was saved.
Saves(s, d) ==
  /\ SameData(s, d) /\ SameFlow(s, d) /\ s.main = "saving" /\ d.main = "publish"
  /\ d.phase = s.phase /\ d.closed = s.closed /\ d.pend = s.pend /\ d.loop = s.loop
  /\ s.loop \in {"idle", "off"} /\ s.phase \in Busy

\* What the writer makes of a stored transaction.
LEMMA WrittenFields ==
  ASSUME NEW w \in Worker, NEW s, LocalOf(w, s), s.loop = "writing", WaitOf(w, s, txn)
  PROVE  LET d == Written(s)
         IN /\ LocalOf(w, d) /\ Stores(s, d, txn.rows)
            /\ d.fenced = s.fenced /\ d.beat = s.beat
<1>0. s \in WorkerState /\ PhaseOf(w, s) /\ FlightOf(w, s) BY DEF LocalOf
<1>1. s.phase \notin {"new", "admitted", "off"} BY Absent
<1>2. s.main \notin Committing \cup {"failing"} BY <1>0 DEF FlightOf
<1>3. /\ Rest(s) \in Seq(Position) /\ Chunk(s) \in Seq(Position)
      /\ Len(Chunk(s)) + Len(Rest(s)) = Len(s.flight.todo)
      /\ Positions(s.flight.todo) = Positions(Chunk(s)) \cup Positions(Rest(s)) BY <1>0, ChunkParts
<1>4. s.flight \in Flight /\ s.flight.todo \in Seq(Position) /\ s.flight.kept \in Seq(Position)
      /\ s.flight.count \in Nat BY <1>0, StateFields
<1>5. ASSUME NEW q \in Seq(Position), NEW l \in {"writing", "retry"},
             Len(q) <= Len(s.flight.todo), Positions(q) \subseteq Positions(s.flight.todo)
      PROVE  LET e == [s EXCEPT !.flight.todo = q, !.loop = l]
             IN /\ LocalOf(w, e) /\ SameData(s, e) /\ e.phase = s.phase /\ e.main = s.main
                /\ e.closed = s.closed /\ e.fenced = s.fenced /\ e.beat = s.beat /\ e.loop = l
                /\ HeldBy(e) = Positions(s.queue) \cup Positions(q) \cup Positions(s.flight.kept)
  <2> DEFINE e == [s EXCEPT !.flight.todo = q, !.loop = l]
  <2>1. e \in WorkerState BY <1>0, <1>4, <1>5 DEF WorkerState, Flight, Loop
  <2>2. /\ SameData(s, e) /\ e.phase = s.phase /\ e.main = s.main /\ e.pend = s.pend
        /\ e.closed = s.closed /\ e.fenced = s.fenced /\ e.beat = s.beat /\ e.loop = l
        /\ e.queue = s.queue /\ e.flight.todo = q /\ e.flight.kept = s.flight.kept
        /\ e.flight.count = s.flight.count BY <1>0, <1>4 DEF WorkerState, SameData, Flight
  <2> HIDE DEF e
  <2>3. HeldBy(e) = Positions(s.queue) \cup Positions(q) \cup Positions(s.flight.kept) BY <2>2 DEF HeldBy
  <2>4. HeldBy(e) \subseteq HeldBy(s) BY <1>5, <2>3 DEF HeldBy
  <2>5. PhaseOf(w, e) BY <1>0, <1>1, <2>2 DEF PhaseOf, SameData
  <2>6. FlightOf(w, e)
    <3>1. Len(e.flight.todo) + Len(e.flight.kept) <= e.flight.count
      <4>1. PICK a \in Nat, b \in Nat, c \in Nat, n \in Nat :
              /\ a = Len(s.flight.kept) /\ b = Len(q) /\ c = Len(s.flight.todo)
              /\ n = s.flight.count BY <1>4, <1>5
      <4>2. c + a <= n BY <1>0, <4>1 DEF FlightOf
      <4>3. b <= c BY <1>5, <4>1
      <4>4. b + a <= n
        <5>1. a \in Nat /\ b \in Nat /\ c \in Nat /\ n \in Nat BY <4>1
        <5> QED BY <4>2, <4>3, <5>1
      <4> QED BY <2>2, <4>1, <4>4
    <3>2. e.hist = s.hist /\ e.sig = s.sig BY <2>2 DEF SameData
    <3>3. e.loop \notin {"idle", "off"} /\ e.main \notin Committing \cup {"failing"} BY <1>2, <1>5, <2>2
    <3> QED BY <1>0, <2>2, <2>4, <3>1, <3>2, <3>3 DEF FlightOf
  <2> QED BY <2>1, <2>2, <2>3, <2>5, <2>6 DEF LocalOf, e
<1>6. CASE Positions(s.flight.todo) \subseteq txn.rows
  <2> DEFINE e == [s EXCEPT !.flight.todo = <<>>, !.loop = "writing"]
             d == FlushOver(e, "idle")
  <2>0. <<>> \in Seq(Position) /\ Len(<<>>) <= Len(s.flight.todo) /\ Positions(<<>>) = {}
    BY <1>4, NoFlightTyped
  <2>1. /\ LocalOf(w, e) /\ SameData(s, e) /\ e.phase = s.phase /\ e.main = s.main
        /\ e.closed = s.closed /\ e.fenced = s.fenced /\ e.beat = s.beat /\ e.loop = "writing"
        /\ HeldBy(e) = Positions(s.queue) \cup Positions(s.flight.kept) BY <1>5, <2>0
  <2>2. [s EXCEPT !.flight.todo = <<>>] = e BY <1>0 DEF WorkerState
  <2>3. Written(s) = d BY <1>6, <2>2 DEF Written
  <2> HIDE DEF e
  <2>4. LocalOf(w, d) BY <1>1, <2>1, FlushQuiet
  <2>5. /\ HeldBy(d) = HeldBy(e) /\ SameData(e, d)
        /\ d.fenced = e.fenced /\ d.closed = e.closed /\ d.main = e.main
        /\ d.loop = "idle" /\ d.beat = e.beat
        /\ \/ e.phase = "draining" /\ d.phase = "drained"
           \/ e.phase # "draining" /\ d.phase = e.phase BY <2>1, FlushOverFields DEF LocalOf, Loop
  <2> HIDE DEF d
  <2>6. HeldBy(d) \subseteq HeldBy(s) /\ HeldBy(s) \subseteq HeldBy(d) \cup txn.rows
    BY <1>6, <2>1, <2>5 DEF HeldBy
  <2>7. Stores(s, d, txn.rows) BY <1>1, <1>2, <2>1, <2>5, <2>6 DEF Stores, SameData
  <2> QED BY <2>1, <2>3, <2>4, <2>5, <2>7
<1>7. CASE ~(Positions(s.flight.todo) \subseteq txn.rows)
  <2> DEFINE d == [s EXCEPT !.flight.todo = Rest(s), !.loop = "retry"]
  <2>0. Len(Rest(s)) <= Len(s.flight.todo) /\ Positions(Rest(s)) \subseteq Positions(s.flight.todo)
    <3>1. Len(Chunk(s)) \in Nat /\ Len(Rest(s)) \in Nat BY <1>3
    <3> QED BY <1>3, <3>1
  <2>1. /\ LocalOf(w, d) /\ SameData(s, d) /\ d.phase = s.phase /\ d.main = s.main
        /\ d.closed = s.closed /\ d.fenced = s.fenced /\ d.beat = s.beat /\ d.loop = "retry"
        /\ HeldBy(d) = Positions(s.queue) \cup Positions(Rest(s)) \cup Positions(s.flight.kept)
    BY <1>3, <1>5, <2>0
  <2>2. Written(s) = d BY <1>7 DEF Written
  <2> HIDE DEF d
  <2>3. txn.rows = Positions(Chunk(s)) BY <1>7 DEF WaitOf
  <2>4. HeldBy(d) \subseteq HeldBy(s) /\ HeldBy(s) \subseteq HeldBy(d) \cup txn.rows
    BY <1>3, <2>1, <2>3 DEF HeldBy
  <2>5. Stores(s, d, txn.rows) BY <1>1, <1>2, <2>1, <2>4 DEF Stores
  <2> QED BY <2>1, <2>2, <2>5
<1> QED BY <1>6, <1>7

\* CommitTxn, for the worker that waits for the reply.
LEMMA CommitStep ==
  ASSUME Local, Waiting, TxnOwned, Awaited, Become(txn.by, ReplyArrives(ws[txn.by]))
  PROVE  LET w == txn.by
             s == ws[w]
             d == ws'[w]
         IN /\ w \in Worker /\ StepOf(w) /\ Waitless(d)
            /\ \/ txn.kind = "rows" /\ s.loop = "writing" /\ Stores(s, d, txn.rows)
               \/ txn.kind = "save" /\ Saves(s, d)
               \/ txn.kind = "fail" /\ s.main = "failing" /\ Quiet(s, d)
<1> DEFINE w == txn.by
           s == ws[w]
<1>1. w \in Worker BY DEF Awaited, TxnOwned
<1>0. /\ s \in WorkerState /\ LocalOf(w, s) /\ PhaseOf(w, s) /\ FlightOf(w, s) /\ TypeOK
      /\ WaitOf(w, s, txn) BY <1>1, WorkerLocal DEF LocalOf, Local, Waiting
<1>2. Become(w, ReplyArrives(s)) OBVIOUS
<1>3. \/ txn.kind = "rows" /\ s.loop = "writing"
      \/ txn.kind = "save" /\ s.main = "saving"
      \/ txn.kind = "fail" /\ s.main = "failing" BY DEF Awaited
<1> HIDE DEF w
<1>4. CASE txn.kind = "rows" /\ s.loop = "writing"
  <2>1. ReplyArrives(s) = Written(s) BY <1>4 DEF ReplyArrives
  <2>2. /\ LocalOf(w, Written(s)) /\ Stores(s, Written(s), txn.rows)
        /\ Written(s).fenced = s.fenced /\ Written(s).beat = s.beat BY <1>0, <1>1, <1>4, WrittenFields
  <2>3. StepOf(w) /\ ws'[w] = Written(s) BY <1>0, <1>1, <1>2, <2>1, <2>2, StepMade
  <2>4. Waitless(Written(s)) BY <2>2 DEF Stores, Waitless, Committing
  <2> QED BY <1>1, <1>4, <2>2, <2>3, <2>4 DEF w
<1>5. CASE txn.kind = "save" /\ s.main = "saving"
  <2> DEFINE d == [s EXCEPT !.main = "publish"]
  <2>1. ReplyArrives(s) = d BY <1>5 DEF ReplyArrives
  <2>2. /\ "publish" \in Main /\ s.main \in Committing /\ s.phase \in Busy
        /\ s.loop \in {"idle", "off"} /\ "publish" \in Committing
    BY <1>0, <1>5 DEF Main, Committing, PhaseOf, FlightOf, Busy
  <2>3. /\ d \in WorkerState /\ SameData(s, d) /\ SameFlow(s, d) /\ d.phase = s.phase
        /\ d.fenced = s.fenced /\ d.closed = s.closed /\ d.pend = s.pend /\ d.beat = s.beat
        /\ d.loop = s.loop /\ d.main = "publish" /\ HeldBy(d) = HeldBy(s) BY <1>0, <2>2, MainFields
  <2>4. Become(w, d) BY <1>2, <2>1
  <2> HIDE DEF d
  <2>5. PhaseOf(w, d) BY <1>0, <1>5, <2>2, <2>3 DEF PhaseOf, SameData, Busy
  <2>6. FlightOf(w, d) BY <1>0, <1>5, <2>2, <2>3 DEF FlightOf, SameData, SameFlow
  <2>7. LocalOf(w, d) BY <2>3, <2>5, <2>6 DEF LocalOf
  <2>8. StepOf(w) /\ ws'[w] = d BY <1>0, <1>1, <2>3, <2>4, <2>7, StepMade
  <2>9. Saves(s, d) BY <1>5, <2>2, <2>3 DEF Saves
  <2>10. Waitless(d) BY <2>9 DEF Saves, Waitless
  <2> QED BY <1>1, <1>5, <2>8, <2>9, <2>10 DEF w
<1>6. CASE txn.kind = "fail" /\ s.main = "failing"
  <2>1. ReplyArrives(s) = Stopping(s) BY <1>6 DEF ReplyArrives
  <2>2. s.phase \in Busy BY <1>0, <1>6 DEF PhaseOf, Busy
  <2>3. LocalOf(w, Stopping(s)) /\ Quiet(s, Stopping(s)) BY <1>0, <1>1, <1>6, <2>2, StopQuiet
  <2>4. Stopping(s).fenced = s.fenced /\ Stopping(s).beat = s.beat BY <1>0, StoppingFields
  <2>5. StepOf(w) /\ ws'[w] = Stopping(s) BY <1>0, <1>1, <1>2, <2>1, <2>3, <2>4, StepMade
  <2>6. Stopping(s).main = "idle" /\ Stopping(s).loop = s.loop BY <1>0, StoppingFields
  <2>7. s.loop \in {"idle", "off"} BY <1>0, <1>6 DEF FlightOf
  <2>8. Waitless(Stopping(s)) BY <2>6, <2>7 DEF Waitless
  <2> QED BY <1>1, <1>6, <2>3, <2>5, <2>8 DEF w
<1> QED BY <1>3, <1>4, <1>5, <1>6

-----------------------------------------------------------------------------
(* The steps of the whole: of a worker alone, and of a transaction.        *)

\* What a step that leaves the database alone does to its worker.
LocalKind(w, s, d) ==
  \/ Quiet(s, d) \/ Admits(s, d) \/ Loads(s, d) \/ Computes(w, s, d) \/ Breaks(s, d)
  \/ Queues(s, d) \/ Freezes(s, d) \/ Takes(w, s, d) \/ Publishes(s, d) \/ Ends(d)

\* The worker alone moves, or its heartbeat commits the status.
LocalStep(w) ==
  /\ StepOf(w) /\ LocalKind(w, ws[w], ws'[w])
  /\ UNCHANGED <<saved, evidence, outcome, txn>>
  /\ shown' = shown \/ (ws[w].beat = "updated" /\ shown' = w)

\* The owner of the row begins a transaction.
BeginStep(w) ==
  /\ StepOf(w) /\ Owns(w)
  /\ \/ BeginsSave(ws[w], ws'[w]) /\ BeginTxn(w, "save", PendingRows(w))
     \/ BeginsFail(ws[w], ws'[w]) /\ BeginTxn(w, "fail", {})
     \/ BeginsRows(ws[w], ws'[w]) /\ BeginTxn(w, "rows", Positions(Batch(w)))

\* A transaction ends without a trace.
AbortStep(w) ==
  /\ txn # NoTxn /\ w = txn.by /\ txn' = NoTxn
  /\ UNCHANGED <<saved, evidence, outcome, shown>>
  /\ \/ ~Awaited /\ ws' = ws
     \/ w \in Worker /\ StepOf(w) /\ Quiet(ws[w], ws'[w]) /\ Waitless(ws'[w])

\* A transaction is committed.
Commits(w) ==
  /\ txn # NoTxn /\ w = txn.by /\ txn' = NoTxn
  /\ txn.kind = "fail" => ServiceRowFree
  /\ evidence' = evidence \cup {<<p, w>> : p \in txn.rows}
  /\ saved' = IF txn.kind = "save"
              THEN [token |-> txn.token, hist |-> txn.hist,
                    past |-> saved.past \cup ({saved.token[1]} \ {w, NoWorker})]
              ELSE saved
  /\ outcome' = IF txn.kind = "fail" THEN "failed" ELSE outcome
  /\ shown' = IF txn.kind = "fail" THEN "failed" ELSE shown

CommitEnds(w) ==
  /\ Commits(w)
  /\ \/ ~Awaited /\ ws' = ws
     \/ /\ w \in Worker /\ StepOf(w) /\ Waitless(ws'[w])
        /\ \/ txn.kind = "rows" /\ ws[w].loop = "writing" /\ Stores(ws[w], ws'[w], txn.rows)
           \/ txn.kind = "save" /\ Saves(ws[w], ws'[w])
           \/ txn.kind = "fail" /\ ws[w].main = "failing" /\ Quiet(ws[w], ws'[w])

AnyStep ==
  \/ \E w \in Worker : LocalStep(w) \/ BeginStep(w)
  \/ AbortStep(txn.by) \/ CommitEnds(txn.by)

\* Every step is one of these.
LEMMA StepCases ==
  ASSUME Local, Waiting, TxnOwned, Next
  PROVE  AnyStep
<1>1. CASE CommitTxn
  <2>1. Commits(txn.by) BY <1>1 DEF CommitTxn, Commits
  <2>2. CASE Awaited
    <3>1. Become(txn.by, ReplyArrives(ws[txn.by])) BY <1>1, <2>2 DEF CommitTxn, Become
    <3> QED BY <2>1, <2>2, <3>1, CommitStep DEF CommitEnds, AnyStep
  <2>3. CASE ~Awaited
    <3>1. ws' = ws BY <1>1, <2>3 DEF CommitTxn
    <3> QED BY <2>1, <2>3, <3>1 DEF CommitEnds, AnyStep
  <2> QED BY <2>2, <2>3
<1>2. CASE AbortTxn
  <2>1. CASE Awaited
    <3>1. Become(txn.by, ReplyLost(ws[txn.by])) BY <1>2, <2>1 DEF AbortTxn, Become
    <3> QED BY <1>2, <2>1, <3>1, LostSteps DEF AbortTxn, AbortStep, AnyStep
  <2>2. CASE ~Awaited BY <1>2, <2>2 DEF AbortTxn, AbortStep, AnyStep
  <2> QED BY <2>1, <2>2
<1>3. ASSUME NEW w \in Worker, Processing(w)
      PROVE  LocalStep(w) \/ BeginStep(w)
  <2>1. CASE Load(w) BY <2>1, StartFields DEF Load, LocalStep, LocalKind, db
  <2>2. CASE WriteResult(w) BY <2>2, ResultSteps DEF WriteResult, LocalStep, LocalKind, db
  <2>3. CASE CheckpointIfDue(w) BY <2>3, DueSteps DEF CheckpointIfDue, LocalStep, LocalKind, db
  <2>4. CASE TakePending(w) BY <2>4, TakeSteps DEF TakePending, LocalStep, LocalKind, db
  <2>5. CASE ReplaceCheckpoint(w) BY <2>5, TransactionSteps DEF LocalStep, LocalKind, BeginStep, db
  <2>6. CASE Publish(w) BY <2>6, PublishStep DEF Publish, LocalStep, LocalKind, db
  <2>7. CASE Undo(w) BY <2>7, UndoStep DEF Undo, LocalStep, LocalKind, db
  <2>8. CASE FailPipelineRun(w) BY <2>8, TransactionSteps DEF LocalStep, LocalKind, BeginStep, db
  <2>9. CASE FinalCheckpoint(w) BY <2>9, DueSteps DEF FinalCheckpoint, LocalStep, LocalKind, db
  <2>10. CASE Exit(w) BY <2>10, EndSteps DEF Exit, LocalStep, LocalKind, db
  <2> QED BY <1>3, <2>1, <2>2, <2>3, <2>4, <2>5, <2>6, <2>7, <2>8, <2>9, <2>10 DEF Processing
<1>4. ASSUME NEW w \in Worker, Writing(w)
      PROVE  LocalStep(w) \/ BeginStep(w)
  <2>1. CASE FlushBatch(w) BY <2>1, FlushStep DEF FlushBatch, LocalStep, LocalKind, db
  <2>2. CASE WriteRows(w) BY <2>2, RowsStep DEF LocalStep, LocalKind, BeginStep, db
  <2> QED BY <1>4, <2>1, <2>2 DEF Writing
<1>5. ASSUME NEW w \in Worker, UpdateStatus(w) \/ StartHeartbeat(w) \/ HeartbeatFails(w)
      PROVE  LocalStep(w)
  <2>1. StepOf(w) /\ Quiet(ws[w], ws'[w]) BY <1>5, BeatSteps
  <2>2. UNCHANGED db BY <1>5 DEF UpdateStatus, StartHeartbeat, HeartbeatFails
  <2> QED BY <2>1, <2>2 DEF LocalStep, LocalKind, db
<1>6. ASSUME NEW w \in Worker, CommitStatus(w)
      PROVE  LocalStep(w)
  <2>1. StepOf(w) /\ Quiet(ws[w], ws'[w]) BY <1>6, BeatSteps
  <2> QED BY <1>6, <2>1 DEF CommitStatus, LocalStep, LocalKind
<1>7. ASSUME NEW w \in Worker, Admit(w) \/ Receive(w) \/ Break(w) \/ Shutdown(w)
      PROVE  LocalStep(w)
  <2>1. CASE Admit(w) BY <2>1, StartFields DEF Admit, LocalStep, LocalKind, db
  <2>2. CASE Receive(w) BY <2>2, ResultSteps DEF Receive, LocalStep, LocalKind, db
  <2>3. CASE Break(w) BY <2>3, ResultSteps DEF Break, LocalStep, LocalKind, db
  <2>4. CASE Shutdown(w) BY <2>4, DueSteps DEF Shutdown, LocalStep, LocalKind, db
  <2> QED BY <1>7, <2>1, <2>2, <2>3, <2>4
<1>8. ASSUME NEW w \in Worker,
             LoseReply(w) \/ CheckpointTimesOut(w) \/ RetryExhausted(w) \/ Crash(w)
      PROVE  LocalStep(w)
  <2>1. CASE LoseReply(w)
    <3>1. Awaited /\ w = txn.by /\ Become(w, ReplyLost(ws[w])) BY <2>1 DEF LoseReply
    <3>2. StepOf(w) /\ Quiet(ws[w], ws'[w]) BY <3>1, LostSteps
    <3> QED BY <2>1, <3>2 DEF LoseReply, LocalStep, LocalKind, db
  <2>2. CASE CheckpointTimesOut(w) BY <2>2, TakeSteps DEF CheckpointTimesOut, LocalStep, LocalKind, db
  <2>3. CASE RetryExhausted(w) BY <2>3, ExhaustedStep DEF RetryExhausted, LocalStep, LocalKind, db
  <2>4. CASE Crash(w) BY <2>4, EndSteps DEF Crash, LocalStep, LocalKind, db
  <2> QED BY <1>8, <2>1, <2>2, <2>3, <2>4
<1> QED BY <1>1, <1>2, <1>3, <1>4, <1>5, <1>6, <1>7, <1>8 DEF AnyStep, Next, Reporting, Environment, Fault

\* The worker that moved, and every other.
LEMMA OneMoves ==
  ASSUME Local, NEW w \in Worker, StepOf(w)
  PROVE  /\ ws' \in [Worker -> WorkerState] /\ LocalOf(w, ws'[w])
         /\ \A v \in Worker : v # w => ws'[v] = ws[v]
<1>1. LocalOf(w, ws'[w]) /\ ws' = [ws EXCEPT ![w] = ws'[w]] BY DEF StepOf
<1>2. ws \in [Worker -> WorkerState] /\ ws'[w] \in WorkerState BY <1>1 DEF Local, TypeOK, LocalOf
<1>3. PICK d \in WorkerState : d = ws'[w] BY <1>2
<1>4. ws' = [ws EXCEPT ![w] = d] BY <1>1, <1>3
<1> QED BY <1>1, <1>2, <1>4

\* The elements of a sequence of positions.
LEMMA PositionsTyped ==
  ASSUME NEW q \in Seq(Position)
  PROVE  Positions(q) \in SUBSET Position
BY DEF Positions

\* The transaction that begins is well-typed.
LEMMA BeginTyped ==
  ASSUME Local, NEW w \in Worker, BeginStep(w)
  PROVE  /\ txn' \in Txn /\ txn'.by = w /\ txn = NoTxn
         /\ UNCHANGED <<saved, evidence, outcome, shown>>
         /\ txn'.kind = "save" => txn'.token = ws[w].pend /\ txn'.hist = ws[w].hist
<1> DEFINE s == ws[w]
<1>0. s \in WorkerState BY WorkerLocal DEF LocalOf
<1>1. s.pend \in Token /\ s.hist \in Seq(Worker) /\ s.flight.todo \in Seq(Position) BY <1>0, StateFields
<1>2. Chunk(s) \in Seq(Position) BY <1>0, ChunkParts
<1>3. ASSUME NEW kind \in {"save", "rows", "fail"}, NEW rows \in SUBSET Position,
             BeginTxn(w, kind, rows)
      PROVE  /\ txn' \in Txn /\ txn'.by = w /\ txn = NoTxn
             /\ UNCHANGED <<saved, evidence, outcome, shown>>
             /\ txn'.kind = "save" => txn'.token = s.pend /\ txn'.hist = s.hist
  <2> DEFINE tk == IF kind = "save" THEN s.pend ELSE NoToken
             h == IF kind = "save" THEN s.hist ELSE <<>>
  <2>1. txn' = [by |-> w, kind |-> kind, rows |-> rows, token |-> tk, hist |-> h] BY <1>3 DEF BeginTxn
  <2>2. tk \in Token /\ (kind = "save" => tk = s.pend) BY <1>1 DEF NoToken, Token
  <2>3. h \in Seq(Worker) /\ (kind = "save" => h = s.hist)
    <3>1. <<>> \in Seq(Worker) OBVIOUS
    <3> QED BY <1>1, <3>1
  <2> HIDE DEF tk, h
  <2>4. txn' \in Txn /\ txn'.by = w /\ txn'.kind = kind /\ txn'.token = tk /\ txn'.hist = h
    BY <1>3, <2>1, <2>2, <2>3 DEF Txn, Kind
  <2> QED BY <1>3, <2>2, <2>3, <2>4 DEF BeginTxn, RowFree
<1>4. PendingRows(w) \in SUBSET Position BY <1>1, PositionsTyped DEF PendingRows
<1>5. Positions(Batch(w)) \in SUBSET Position BY <1>1, <1>2, PositionsTyped DEF Batch
<1>6. CASE BeginTxn(w, "save", PendingRows(w)) BY <1>3, <1>4, <1>6
<1>7. CASE BeginTxn(w, "fail", {}) BY <1>3, <1>7
<1>8. CASE BeginTxn(w, "rows", Positions(Batch(w))) BY <1>3, <1>5, <1>8
<1> QED BY <1>6, <1>7, <1>8 DEF BeginStep

\* The row after a commit.
LEMMA CommitTyped ==
  ASSUME TypeOK, TxnOwned, Commits(txn.by)
  PROVE  /\ saved' \in Saved /\ evidence' \in SUBSET (Position \X Worker)
         /\ evidence \subseteq evidence' /\ txn.by \in Worker
         /\ outcome' \in {"open", "failed"} /\ shown' \in Worker \cup {NoWorker, "failed"}
<1>1. txn.by \in Worker BY DEF TxnOwned, Commits
<1>2. /\ txn.token \in Token /\ txn.hist \in Seq(Worker) /\ txn.rows \in SUBSET Position
      /\ saved \in Saved /\ evidence \in SUBSET (Position \X Worker) BY DEF TypeOK, Txn
<1>3. saved.token[1] \in Worker \cup {NoWorker} /\ saved.past \in SUBSET Worker BY <1>2 DEF Saved, Token
<1>4. saved' \in Saved
  <2> DEFINE p == saved.past \cup ({saved.token[1]} \ {txn.by, NoWorker})
  <2>1. p \in SUBSET Worker BY <1>3
  <2>2. saved' = saved \/ saved' = [token |-> txn.token, hist |-> txn.hist, past |-> p] BY DEF Commits
  <2> HIDE DEF p
  <2> QED BY <1>2, <2>1, <2>2 DEF Saved
<1>5. evidence' = evidence \cup {<<p, txn.by>> : p \in txn.rows} BY DEF Commits
<1>6. {<<p, txn.by>> : p \in txn.rows} \in SUBSET (Position \X Worker) BY <1>1, <1>2
<1>7. outcome' \in {"open", "failed"} /\ shown' \in Worker \cup {NoWorker, "failed"} BY DEF Commits, TypeOK
<1> QED BY <1>1, <1>2, <1>4, <1>5, <1>6, <1>7

\* NoTxn is nobody's.
LEMMA NoTxnTyped ==
  NoTxn \in Txn /\ NoTxn.by = NoWorker /\ NoTxn.kind = "none" /\ NoTxn.rows = {}
<1>1. NoToken \in Token /\ <<>> \in Seq(Worker) BY DEF NoToken, Token
<1> QED BY <1>1, Zenon DEF NoTxn, Txn, Kind

\* Types, and what is whole about each worker, are kept.
LEMMA LocalKept ==
  ASSUME Local, TxnOwned, AnyStep
  PROVE  Local' /\ TxnOwned'
<1>0. TypeOK /\ Phases /\ Flights BY DEF Local
<1>1. ASSUME ws' \in [Worker -> WorkerState], \A v \in Worker : LocalOf(v, ws'[v])
      PROVE  Phases' /\ Flights' BY <1>1 DEF Phases, Flights, LocalOf
<1>2. ASSUME NEW w \in Worker, StepOf(w)
      PROVE  ws' \in [Worker -> WorkerState] /\ Phases' /\ Flights'
  <2>1. /\ ws' \in [Worker -> WorkerState] /\ LocalOf(w, ws'[w])
        /\ \A v \in Worker : v # w => ws'[v] = ws[v] BY <1>2, OneMoves
  <2>2. \A v \in Worker : LocalOf(v, ws'[v]) BY <2>1, WorkerLocal
  <2> QED BY <1>1, <2>1, <2>2
<1>3. ASSUME ws' = ws
      PROVE  ws' \in [Worker -> WorkerState] /\ Phases' /\ Flights' BY <1>0, <1>3 DEF TypeOK, Phases, Flights
<1>4. ASSUME NEW w \in Worker, LocalStep(w) PROVE Local' /\ TxnOwned'
  <2>1. ws' \in [Worker -> WorkerState] /\ Phases' /\ Flights' BY <1>2, <1>4 DEF LocalStep
  <2>2. TypeOK' /\ TxnOwned' BY <1>0, <1>4, <2>1 DEF TypeOK, TxnOwned, LocalStep
  <2> QED BY <2>1, <2>2 DEF Local
<1>5. ASSUME NEW w \in Worker, BeginStep(w) PROVE Local' /\ TxnOwned'
  <2>1. ws' \in [Worker -> WorkerState] /\ Phases' /\ Flights' BY <1>2, <1>5 DEF BeginStep
  <2>2. txn' \in Txn /\ txn'.by = w /\ UNCHANGED <<saved, evidence, outcome, shown>> BY <1>5, BeginTyped
  <2>3. TypeOK' /\ TxnOwned' BY <1>0, <2>1, <2>2 DEF TypeOK, TxnOwned
  <2> QED BY <2>1, <2>3 DEF Local
<1>6. ASSUME AbortStep(txn.by) PROVE Local' /\ TxnOwned'
  <2>1. ws' \in [Worker -> WorkerState] /\ Phases' /\ Flights' BY <1>2, <1>3, <1>6 DEF AbortStep
  <2>2. TypeOK' /\ TxnOwned' BY <1>0, <1>6, <2>1, NoTxnTyped DEF TypeOK, TxnOwned, AbortStep
  <2> QED BY <2>1, <2>2 DEF Local
<1>7. ASSUME CommitEnds(txn.by) PROVE Local' /\ TxnOwned'
  <2>1. ws' \in [Worker -> WorkerState] /\ Phases' /\ Flights' BY <1>2, <1>3, <1>7 DEF CommitEnds
  <2>2. Commits(txn.by) /\ txn' = NoTxn BY <1>7 DEF CommitEnds, Commits
  <2>3. /\ saved' \in Saved /\ evidence' \in SUBSET (Position \X Worker)
        /\ outcome' \in {"open", "failed"} /\ shown' \in Worker \cup {NoWorker, "failed"}
    BY <1>0, <2>2, CommitTyped
  <2>4. TypeOK' /\ TxnOwned' BY <2>1, <2>2, <2>3, NoTxnTyped DEF TypeOK, TxnOwned
  <2> QED BY <2>1, <2>4 DEF Local
<1> QED BY <1>4, <1>5, <1>6, <1>7 DEF AnyStep

-----------------------------------------------------------------------------
(* Every result is accounted for, and who waits has the transaction.       *)

\* The results behind a detector stay accounted for by a step of its worker.
LEMMA AccountMoves ==
  ASSUME NEW w \in Worker, NEW s, NEW d, AccountOf(w, s, evidence), SnapshotCovered,
         PhaseOf(w, s), FlightOf(w, s), LocalKind(w, s, d)
  PROVE  AccountOf(w, d, evidence)
<1>1. CASE Quiet(s, d) BY <1>1 DEF AccountOf, Quiet, Open, Busy, SameData, SameFlow
<1>2. CASE Admits(s, d) BY <1>2 DEF AccountOf, Admits
<1>3. CASE Loads(s, d) BY <1>3 DEF AccountOf, Loads, SnapshotCovered
<1>4. CASE Computes(w, s, d)
  <2>1. /\ s.phase = "running" /\ s.main = "idle" /\ d.main = "write" /\ d.hist = Append(s.hist, w)
        /\ d.closed = s.closed /\ HeldBy(d) = HeldBy(s) BY <1>4 DEF Computes, SameFlow, HeldBy
  <2>2. ASSUME NEW i \in DOMAIN d.hist, ~s.closed
        PROVE  \/ <<i, d.hist[i]>> \in evidence \/ i \in HeldBy(d) \/ i = Len(d.hist)
    <3>1. CASE i \in DOMAIN s.hist /\ d.hist[i] = s.hist[i] BY <2>1, <2>2, <3>1 DEF AccountOf
    <3>2. CASE i = Len(d.hist) BY <3>2
    <3>3. i = Len(d.hist) \/ (i \in DOMAIN s.hist /\ d.hist[i] = s.hist[i]) BY <2>1, <2>2, AppendProperties
    <3> QED BY <3>1, <3>2, <3>3
  <2> QED BY <2>1, <2>2 DEF AccountOf, Committing
<1>5. CASE Breaks(s, d) BY <1>5 DEF AccountOf, Breaks, SameFlow, HeldBy, Committing
<1>6. CASE Queues(s, d) BY <1>6 DEF AccountOf, Queues, SameData, Committing
<1>7. CASE Freezes(s, d) BY <1>7 DEF AccountOf, Freezes, SameFlow, HeldBy, Committing
<1>8. CASE Takes(w, s, d) BY <1>8 DEF AccountOf, Takes, SameData, Committing, PhaseOf
<1>9. CASE Publishes(s, d)
  <2>1. CASE d.phase = "running"
    <3>1. s.phase \in {"starting", "running"} /\ s.main \in Committing /\ d.hist = s.hist
      BY <1>9, <2>1 DEF Publishes, Committing
    <3>2. s.queue = <<>> /\ s.flight.kept = <<>> BY <3>1 DEF FlightOf
    <3>3. HeldBy(s) = Positions(s.flight.todo) BY <3>2, NoFlightTyped DEF HeldBy
    <3>4. \A i \in Positions(s.flight.todo) : <<i, w>> \in evidence BY <1>9 DEF AccountOf, Publishes
    <3>5. \A i \in HeldBy(s) : <<i, s.hist[i]>> \in evidence BY <3>3, <3>4 DEF FlightOf
    <3> QED BY <1>9, <3>1, <3>5 DEF AccountOf, Publishes
  <2>2. CASE d.phase = "draining" BY <1>9, <2>2 DEF AccountOf, Publishes
  <2> QED BY <1>9, <2>1, <2>2 DEF Publishes
<1>10. CASE Ends(d) BY <1>10 DEF AccountOf, Ends
<1> QED BY <1>1, <1>2, <1>3, <1>4, <1>5, <1>6, <1>7, <1>8, <1>9, <1>10 DEF LocalKind

\* More evidence accounts for more results.
LEMMA AccountGrows ==
  ASSUME NEW w \in Worker, NEW s, AccountOf(w, s, evidence), evidence \subseteq evidence'
  PROVE  AccountOf(w, s, evidence')
BY DEF AccountOf

\* Who waits is the transaction's worker.
LEMMA NobodyWaits ==
  ASSUME Local, Waiting, NEW v \in Worker, v # txn.by \/ ~Awaited
  PROVE  Waitless(ws[v])
<1>1. WaitOf(v, ws[v], txn) BY DEF Waiting
<1>2. txn = NoTxn => v # txn.by BY NoTxnTyped
<1> QED BY <1>1, <1>2 DEF WaitOf, Awaited, Waitless

\* Waiting is kept.
LEMMA WaitingKept ==
  ASSUME Local, Waiting, TxnOwned, AnyStep
  PROVE  Waiting'
<1>1. ASSUME NEW w \in Worker, LocalStep(w) PROVE Waiting'
  <2> DEFINE s == ws[w]
             d == ws'[w]
  <2>0. WaitOf(w, s, txn) /\ FlightOf(w, s) BY WorkerLocal DEF Waiting, LocalOf
  <2>a. LocalKind(w, s, d) /\ txn' = txn /\ \A v \in Worker : v # w => ws'[v] = ws[v]
    BY <1>1, OneMoves DEF LocalStep
  <2>1. WaitOf(w, d, txn)
    <3> HIDE DEF s, d
    <3>0. SameFlow(s, d) => Chunk(d) = Chunk(s) BY DEF SameFlow, Chunk, ChunkLength
    <3>b. d.flight = s.flight => Chunk(d) = Chunk(s) BY DEF Chunk, ChunkLength
    <3>1. CASE Quiet(s, d) BY <2>0, <3>0, <3>1 DEF WaitOf, Quiet, SameFlow
    <3>2. CASE Admits(s, d) BY <3>2 DEF WaitOf, Admits
    <3>3. CASE Loads(s, d) BY <3>3 DEF WaitOf, Loads
    <3>4. CASE Computes(w, s, d) BY <2>0, <3>0, <3>4 DEF WaitOf, Computes, SameFlow
    <3>5. CASE Breaks(s, d) BY <2>0, <3>0, <3>5 DEF WaitOf, Breaks, SameFlow
    <3>6. CASE Queues(s, d) BY <2>0, <3>b, <3>6 DEF WaitOf, Queues
    <3>7. CASE Freezes(s, d) BY <2>0, <3>0, <3>7 DEF WaitOf, Freezes, SameFlow
    <3>8. CASE Takes(w, s, d) BY <3>8 DEF WaitOf, Takes
    <3>9. CASE Publishes(s, d) BY <3>9 DEF WaitOf, Publishes
    <3>10. CASE Ends(d) BY <3>10 DEF WaitOf, Ends
    <3> QED BY <2>a, <3>1, <3>2, <3>3, <3>4, <3>5, <3>6, <3>7, <3>8, <3>9, <3>10 DEF LocalKind, s, d
  <2>2. \A v \in Worker : WaitOf(v, ws'[v], txn') BY <2>1, <2>a DEF Waiting
  <2> QED BY <2>2 DEF Waiting
<1>2. ASSUME NEW w \in Worker, BeginStep(w) PROVE Waiting'
  <2> DEFINE s == ws[w]
             d == ws'[w]
  <2>1. txn = NoTxn BY <1>2, BeginTyped
  <2>2. \A v \in Worker : Waitless(ws[v]) BY <2>1, NobodyWaits DEF Awaited
  <2>3. \A v \in Worker : v # w => ws'[v] = ws[v] BY <1>2, OneMoves DEF BeginStep
  <2>4. WaitOf(w, d, txn')
    <3>1. CASE BeginsSave(s, d) /\ BeginTxn(w, "save", PendingRows(w))
      BY <2>2, <3>1 DEF WaitOf, Waitless, BeginsSave, Begins, BeginTxn, PendingRows, SameFlow
    <3>2. CASE BeginsFail(s, d) /\ BeginTxn(w, "fail", {})
      BY <2>2, <3>2 DEF WaitOf, Waitless, BeginsFail, Begins, BeginTxn, SameFlow
    <3>3. CASE BeginsRows(s, d) /\ BeginTxn(w, "rows", Positions(Batch(w)))
      <4>1. d.flight = s.flight /\ d.main = s.main /\ d.loop = "writing"
        BY <3>3 DEF BeginsRows, Begins, SameFlow
      <4>2. Chunk(d) = Chunk(s) BY <4>1 DEF Chunk, ChunkLength
      <4>3. txn'.by = w /\ txn'.kind = "rows" /\ txn'.rows = Positions(Batch(w)) BY <3>3 DEF BeginTxn
      <4> QED BY <2>2, <4>1, <4>2, <4>3 DEF WaitOf, Waitless, Batch
    <3> QED BY <1>2, <3>1, <3>2, <3>3 DEF BeginStep
  <2>5. \A v \in Worker : WaitOf(v, ws'[v], txn') BY <2>2, <2>3, <2>4 DEF WaitOf, Waitless
  <2> QED BY <2>5 DEF Waiting
<1>3. ASSUME \A v \in Worker : Waitless(ws'[v]) PROVE Waiting' BY <1>3 DEF Waiting, WaitOf, Waitless
<1>4. ASSUME \/ ~Awaited /\ ws' = ws
             \/ txn.by \in Worker /\ StepOf(txn.by) /\ Waitless(ws'[txn.by])
      PROVE  Waiting'
  <2>1. CASE ~Awaited /\ ws' = ws BY <1>3, <2>1, NobodyWaits
  <2>2. CASE txn.by \in Worker /\ StepOf(txn.by) /\ Waitless(ws'[txn.by])
    <3>1. \A v \in Worker : v # txn.by => ws'[v] = ws[v] /\ Waitless(ws[v]) BY <2>2, OneMoves, NobodyWaits
    <3> QED BY <1>3, <2>2, <3>1
  <2> QED BY <1>4, <2>1, <2>2
<1> QED BY <1>1, <1>2, <1>4 DEF AnyStep, AbortStep, CommitEnds

\* The results behind every detector stay accounted for.
LEMMA AccountedKept ==
  ASSUME Local, Waiting, TxnOwned, Accounted, SnapshotCovered, AnyStep
  PROVE  Accounted'
<1>0. \A v \in Worker : AccountOf(v, ws[v], evidence) /\ PhaseOf(v, ws[v]) /\ FlightOf(v, ws[v])
  BY WorkerLocal DEF Accounted, LocalOf
<1>1. ASSUME NEW w \in Worker, LocalStep(w) PROVE Accounted'
  <2>1. AccountOf(w, ws'[w], evidence) BY <1>0, <1>1, AccountMoves DEF LocalStep
  <2>2. \A v \in Worker : v # w => ws'[v] = ws[v] BY <1>1, OneMoves DEF LocalStep
  <2>3. evidence' = evidence BY <1>1 DEF LocalStep
  <2>4. \A v \in Worker : AccountOf(v, ws'[v], evidence') BY <1>0, <2>1, <2>2, <2>3
  <2> QED BY <2>4 DEF Accounted
<1>2. ASSUME NEW w \in Worker, BeginStep(w) PROVE Accounted'
  <2> DEFINE s == ws[w]
             d == ws'[w]
  <2>1. /\ SameData(s, d) /\ SameFlow(s, d) /\ d.phase = s.phase /\ d.closed = s.closed
        /\ d.main \notin {"write", "publish"} \/ d.main = s.main
        /\ s.main \notin {"write"} \/ d.main = s.main
        /\ d.main \in Committing => s.main \in Committing
    BY <1>2 DEF BeginStep, BeginsSave, BeginsFail, BeginsRows, Begins, Committing
  <2>2. HeldBy(d) = HeldBy(s) BY <2>1 DEF SameFlow, HeldBy
  <2>3. AccountOf(w, d, evidence) BY <1>0, <2>1, <2>2 DEF AccountOf, SameData, SameFlow
  <2>4. \A v \in Worker : v # w => ws'[v] = ws[v] BY <1>2, OneMoves DEF BeginStep
  <2>5. evidence' = evidence BY <1>2, BeginTyped
  <2>6. \A v \in Worker : AccountOf(v, ws'[v], evidence') BY <1>0, <2>3, <2>4, <2>5
  <2> QED BY <2>6 DEF Accounted
<1>3. ASSUME AbortStep(txn.by) PROVE Accounted'
  <2>1. evidence' = evidence BY <1>3 DEF AbortStep
  <2>2. CASE ws' = ws BY <1>0, <2>1, <2>2 DEF Accounted
  <2>3. CASE txn.by \in Worker /\ StepOf(txn.by) /\ Quiet(ws[txn.by], ws'[txn.by])
    <3>1. AccountOf(txn.by, ws'[txn.by], evidence) BY <1>0, <2>3, AccountMoves DEF LocalKind
    <3>2. \A v \in Worker : v # txn.by => ws'[v] = ws[v] BY <2>3, OneMoves
    <3>3. \A v \in Worker : AccountOf(v, ws'[v], evidence') BY <1>0, <2>1, <3>1, <3>2
    <3> QED BY <3>3 DEF Accounted
  <2> QED BY <1>3, <2>2, <2>3 DEF AbortStep
<1>4. ASSUME CommitEnds(txn.by) PROVE Accounted'
  <2>1. evidence \subseteq evidence' /\ evidence' = evidence \cup {<<p, txn.by>> : p \in txn.rows}
    BY <1>4 DEF CommitEnds, Commits
  <2>2. \A v \in Worker : AccountOf(v, ws[v], evidence') BY <1>0, <2>1, AccountGrows
  <2>3. CASE ws' = ws BY <2>2, <2>3 DEF Accounted
  <2>4. ASSUME txn.by \in Worker, StepOf(txn.by), AccountOf(txn.by, ws'[txn.by], evidence')
        PROVE  Accounted'
    <3>1. \A v \in Worker : v # txn.by => ws'[v] = ws[v] BY <2>4, OneMoves
    <3>2. \A v \in Worker : AccountOf(v, ws'[v], evidence') BY <2>2, <2>4, <3>1
    <3> QED BY <3>2 DEF Accounted
  <2>5. CASE txn.by \in Worker /\ StepOf(txn.by) /\ Stores(ws[txn.by], ws'[txn.by], txn.rows)
    <3> DEFINE w == txn.by
               s == ws[w]
               d == ws'[w]
    <3>1. ASSUME NEW i \in HeldBy(s)
          PROVE  i \in HeldBy(d) \/ <<i, s.hist[i]>> \in evidence'
      <4>1. s.hist[i] = w BY <1>0, <2>5 DEF FlightOf
      <4>2. i \in HeldBy(d) \/ i \in txn.rows BY <2>5 DEF Stores
      <4>3. i \in txn.rows => <<i, txn.by>> \in evidence' BY <2>1
      <4> QED BY <4>1, <4>2, <4>3
    <3>2. AccountOf(w, s, evidence') BY <2>2, <2>5
    <3>3. AccountOf(w, d, evidence') BY <2>5, <3>1, <3>2 DEF AccountOf, Stores, SameData, Committing
    <3> QED BY <2>4, <2>5, <3>3
  <2>6. CASE /\ txn.by \in Worker /\ StepOf(txn.by) /\ txn.kind = "save"
             /\ Saves(ws[txn.by], ws'[txn.by])
    <3> DEFINE w == txn.by
               s == ws[w]
               d == ws'[w]
    <3>1. txn.rows = Positions(s.flight.todo) BY <2>6 DEF Waiting, WaitOf, Saves
    <3>2. HeldBy(d) = HeldBy(s) /\ d.flight = s.flight BY <2>6 DEF Saves, SameFlow, HeldBy
    <3>3. AccountOf(w, s, evidence') BY <2>2, <2>6
    <3>4. \A i \in Positions(d.flight.todo) : <<i, w>> \in evidence' BY <2>1, <3>1, <3>2
    <3>5. AccountOf(w, d, evidence') BY <2>6, <3>2, <3>3, <3>4 DEF AccountOf, Saves, SameData, Committing
    <3> QED BY <2>4, <2>6, <3>5
  <2>7. CASE txn.by \in Worker /\ StepOf(txn.by) /\ Quiet(ws[txn.by], ws'[txn.by])
    <3>1. AccountOf(txn.by, ws'[txn.by], evidence) BY <1>0, <2>7, AccountMoves DEF LocalKind
    <3>2. AccountOf(txn.by, ws'[txn.by], evidence') BY <2>1, <2>7, <3>1, AccountGrows
    <3> QED BY <2>4, <2>7, <3>2
  <2> QED BY <1>4, <2>3, <2>5, <2>6, <2>7 DEF CommitEnds
<1> QED BY <1>1, <1>2, <1>3, <1>4 DEF AnyStep

-----------------------------------------------------------------------------
(* The row and its signatures.                                             *)

\* What a step does to a worker, other than that its snapshot was saved.
KeepKind(w, s, d) ==
  \/ LocalKind(w, s, d) \/ BeginsSave(s, d) \/ BeginsFail(s, d) \/ BeginsRows(s, d)
  \/ Stores(s, d, txn.rows)

\* No worker is saved when the row is not.
LEMMA EveryMove ==
  ASSUME Local, AnyStep
  PROVE  \A v \in Worker :
           \/ ws'[v] = ws[v]
           \/ KeepKind(v, ws[v], ws'[v])
           \/ /\ v = txn.by /\ txn.kind = "save" /\ CommitEnds(v) /\ Saves(ws[v], ws'[v])
<1> SUFFICES ASSUME NEW v \in Worker, ws'[v] # ws[v]
             PROVE  \/ KeepKind(v, ws[v], ws'[v])
                    \/ /\ v = txn.by /\ txn.kind = "save" /\ CommitEnds(v)
                       /\ Saves(ws[v], ws'[v]) OBVIOUS
<1>1. ASSUME NEW w \in Worker, StepOf(w) PROVE w = v BY <1>1, OneMoves
<1>2. ASSUME NEW w \in Worker, LocalStep(w) PROVE KeepKind(v, ws[v], ws'[v])
  <2>1. w = v BY <1>1, <1>2 DEF LocalStep
  <2> QED BY <1>2, <2>1 DEF LocalStep, KeepKind
<1>3. ASSUME NEW w \in Worker, BeginStep(w) PROVE KeepKind(v, ws[v], ws'[v])
  <2>1. w = v BY <1>1, <1>3 DEF BeginStep
  <2> QED BY <1>3, <2>1 DEF BeginStep, KeepKind
<1>4. ASSUME AbortStep(txn.by) PROVE KeepKind(v, ws[v], ws'[v])
  <2>1. txn.by \in Worker /\ StepOf(txn.by) /\ Quiet(ws[txn.by], ws'[txn.by]) BY <1>4 DEF AbortStep
  <2>2. txn.by = v BY <1>1, <2>1
  <2> QED BY <2>1, <2>2 DEF KeepKind, LocalKind
<1>5. ASSUME CommitEnds(txn.by)
      PROVE  \/ KeepKind(v, ws[v], ws'[v])
             \/ v = txn.by /\ txn.kind = "save" /\ CommitEnds(v) /\ Saves(ws[v], ws'[v])
  <2>1. /\ txn.by \in Worker /\ StepOf(txn.by)
        /\ \/ Stores(ws[txn.by], ws'[txn.by], txn.rows)
           \/ txn.kind = "save" /\ Saves(ws[txn.by], ws'[txn.by])
           \/ Quiet(ws[txn.by], ws'[txn.by]) BY <1>5 DEF CommitEnds
  <2>2. txn.by = v BY <1>1, <2>1
  <2> QED BY <1>5, <2>1, <2>2 DEF KeepKind, LocalKind
<1> QED BY <1>2, <1>3, <1>4, <1>5 DEF AnyStep

\* What the row r says of a worker.
OwnOf(w, s, r) ==
  /\ w \in r.past \cup {r.token[1]} => s.phase \notin {"new", "admitted"}
  /\ s.phase \notin {"new", "admitted", "off"} /\ s.sig = r.token =>
       w \notin r.past /\ Continues(r.hist, s.hist, w)
  /\ s.main = "publish" /\ s.pend = r.token => Continues(r.hist, s.hist, w)
  /\ s.phase \in {"starting", "running"} /\ r.token[1] = w =>
       \/ r.token = s.sig /\ s.main # "publish"
       \/ s.main \in {"publish", "undo"} /\ r.token = s.pend

\* A history continues itself, and goes on with one more result.
LEMMA ContinuesMore ==
  ASSUME NEW g \in Seq(Worker), NEW h \in Seq(Worker), NEW w \in Worker
  PROVE  /\ Continues(h, h, w)
         /\ Continues(g, h, w) => Continues(g, Append(h, w), w)
<1>1. Continues(h, h, w)
  <2>1. Len(h) \in Nat OBVIOUS
  <2> QED BY <2>1 DEF Continues
<1>2. ASSUME Continues(g, h, w) PROVE Continues(g, Append(h, w), w)
  <2>1. PICK n \in Nat : n = Len(h) OBVIOUS
  <2>2. PICK m \in Nat : m = Len(g) OBVIOUS
  <2>3. PICK a : a = Append(h, w) OBVIOUS
  <2>4. Len(a) = n + 1 /\ a[n + 1] = w /\ \A i \in 1 .. n : a[i] = h[i] BY <2>1, <2>3, AppendProperties
  <2>5. m <= n /\ \A i \in 1 .. n : h[i] = IF i <= m THEN g[i] ELSE w BY <1>2, <2>1, <2>2 DEF Continues
  <2>6. ASSUME NEW i \in 1 .. n + 1 PROVE a[i] = IF i <= m THEN g[i] ELSE w
    <3>1. CASE i = n + 1 BY <2>4, <2>5, <3>1
    <3>2. CASE i # n + 1
      <4>1. i \in 1 .. n BY <3>2
      <4> QED BY <2>4, <2>5, <4>1
    <3> QED BY <3>1, <3>2
  <2>7. m <= n + 1 BY <2>5
  <2> QED BY <2>2, <2>3, <2>4, <2>6, <2>7 DEF Continues
<1> QED BY <1>1, <1>2

\* What the row says of a worker stays true of it.
LEMMA OwnMoves ==
  ASSUME TypeOK, saved.token[1] \notin saved.past,
         NEW w \in Worker, NEW s \in WorkerState, NEW d \in WorkerState,
         PhaseOf(w, s), OwnOf(w, s, saved), KeepKind(w, s, d)
  PROVE  OwnOf(w, d, saved)
<1>0. saved.hist \in Seq(Worker) /\ s.hist \in Seq(Worker) BY StateFields DEF TypeOK, Saved
<1>1. CASE Quiet(s, d) BY <1>1 DEF OwnOf, Quiet, SameData, Committing
<1>2. CASE Admits(s, d) BY <1>2 DEF OwnOf, Admits
<1>3. CASE Loads(s, d)
  <2>1. Continues(saved.hist, saved.hist, w) BY <1>0, ContinuesMore
  <2> QED BY <1>3, <2>1 DEF OwnOf, Loads
<1>4. CASE Computes(w, s, d)
  <2>1. Continues(saved.hist, s.hist, w) => Continues(saved.hist, d.hist, w)
    BY <1>0, <1>4, ContinuesMore DEF Computes
  <2> QED BY <1>4, <2>1 DEF OwnOf, Computes
<1>5. CASE Breaks(s, d) BY <1>5 DEF OwnOf, Breaks
<1>6. CASE Queues(s, d) BY <1>6 DEF OwnOf, Queues, SameData
<1>7. CASE Freezes(s, d) BY <1>7 DEF OwnOf, Freezes
<1>8. CASE Takes(w, s, d)
  <2>1. s.phase \in {"starting", "running", "stopping"} BY <1>8 DEF PhaseOf, Takes
  <2> QED BY <1>8, <2>1 DEF OwnOf, Takes, SameData
<1>9. CASE Publishes(s, d)
  <2>1. s.pend[1] = w BY <1>9 DEF Publishes, PhaseOf, Committing
  <2> QED BY <1>9, <2>1 DEF OwnOf, Publishes
<1>10. CASE Ends(d) BY <1>10 DEF OwnOf, Ends
<1>11. CASE BeginsSave(s, d) \/ BeginsFail(s, d) \/ BeginsRows(s, d)
  <2>1. /\ SameData(s, d) /\ d.phase = s.phase /\ d.pend = s.pend
        /\ d.main = s.main \/ (s.main \in {"begin", "fail"} /\ d.main \in {"saving", "failing"})
    BY <1>11 DEF BeginsSave, BeginsFail, BeginsRows, Begins
  <2> QED BY <2>1 DEF OwnOf, SameData
<1>12. CASE Stores(s, d, txn.rows) BY <1>12 DEF OwnOf, Stores, SameData, Committing
<1> QED BY <1>1, <1>2, <1>3, <1>4, <1>5, <1>6, <1>7, <1>8, <1>9, <1>10, <1>11, <1>12 DEF KeepKind, LocalKind

\* The number of the next snapshot of a worker.
Count(s) == IF s.main \in {"await", "begin"} THEN s.saves ELSE s.saves + 1

\* It never goes back; and the signature a worker gets is the row's or its own pending
\* one.
LEMMA CountMoves ==
  ASSUME NEW w \in Worker, NEW s \in WorkerState, NEW d \in WorkerState,
         KeepKind(w, s, d) \/ Saves(s, d)
  PROVE  /\ Count(s) \in Nat /\ Count(d) \in Nat
         /\ d.phase # "off" => s.phase # "off" /\ Count(s) <= Count(d)
         /\ d.sig \in {s.sig, saved.token, NoToken} \/ (Publishes(s, d) /\ d.sig = s.pend)
<1>0. s.saves \in Nat /\ d.saves \in Nat BY StateFields
<1>1. Count(s) \in Nat /\ Count(d) \in Nat BY <1>0 DEF Count
<1>2. CASE Quiet(s, d) BY <1>0, <1>1, <1>2 DEF Quiet, SameData, Count
<1>3. CASE Admits(s, d) BY <1>0, <1>1, <1>3 DEF Admits, SameData, Count
<1>4. CASE Loads(s, d) BY <1>0, <1>1, <1>4 DEF Loads, Count
<1>5. CASE Computes(w, s, d) BY <1>0, <1>1, <1>5 DEF Computes, Count
<1>6. CASE Breaks(s, d) BY <1>0, <1>1, <1>6 DEF Breaks, Count
<1>7. CASE Queues(s, d) BY <1>0, <1>1, <1>7 DEF Queues, SameData, Count
<1>8. CASE Freezes(s, d) BY <1>0, <1>1, <1>8 DEF Freezes, Count
<1>9. CASE Takes(w, s, d) BY <1>0, <1>1, <1>9 DEF Takes, SameData, Count
<1>10. CASE Publishes(s, d) BY <1>0, <1>1, <1>10 DEF Publishes, Count
<1>11. CASE Ends(d) BY <1>0, <1>1, <1>11 DEF Ends, Count
<1>12. CASE BeginsSave(s, d) \/ BeginsFail(s, d) \/ BeginsRows(s, d)
  BY <1>0, <1>1, <1>12 DEF BeginsSave, BeginsFail, BeginsRows, Begins, SameData, Count
<1>13. CASE Stores(s, d, txn.rows) BY <1>0, <1>1, <1>13 DEF Stores, SameData, Count
<1>14. CASE Saves(s, d) BY <1>0, <1>1, <1>14 DEF Saves, SameData, Count
<1> QED BY <1>2, <1>3, <1>4, <1>5, <1>6, <1>7, <1>8, <1>9, <1>10, <1>11, <1>12, <1>13, <1>14
     DEF KeepKind, LocalKind

\* What is true of a worker whose snapshot is under way.
SavingOf(s, t) ==
  /\ s.phase \notin {"new", "admitted"} /\ ~s.uncertain /\ s.main # "publish"
  /\ s.phase \in {"starting", "running"} => s.main \in {"saving", "undo"}
  /\ s.main = "saving" \/ (s.main = "undo" /\ s.phase \in {"starting", "running"}) =>
       t.token = s.pend /\ t.hist = s.hist
  /\ s.phase # "off" => t.token[2] < Count(s)

\* It stays so until the transaction ends.
LEMMA SavingMoves ==
  ASSUME NEW w \in Worker, NEW s \in WorkerState, NEW d \in WorkerState,
         NEW t \in Txn, PhaseOf(w, s), SavingOf(s, t), LocalKind(w, s, d)
  PROVE  SavingOf(d, t)
<1>0. /\ Count(s) \in Nat /\ Count(d) \in Nat
      /\ d.phase # "off" => s.phase # "off" /\ Count(s) <= Count(d) BY CountMoves DEF KeepKind
<1>1. t.token[2] \in Nat BY DEF Txn, Token
<1>2. d.phase # "off" => t.token[2] < Count(d) BY <1>0, <1>1 DEF SavingOf
<1>3. CASE Quiet(s, d) BY <1>2, <1>3 DEF SavingOf, Quiet, SameData, Committing
<1>4. CASE Admits(s, d) BY <1>4 DEF SavingOf, Admits
<1>5. CASE Loads(s, d) BY <1>5 DEF SavingOf, Loads
<1>6. CASE Computes(w, s, d) BY <1>6 DEF SavingOf, Computes
<1>7. CASE Breaks(s, d) BY <1>7 DEF SavingOf, Breaks
<1>8. CASE Queues(s, d) BY <1>8 DEF SavingOf, Queues
<1>9. CASE Freezes(s, d) BY <1>2, <1>9 DEF SavingOf, Freezes
<1>10. CASE Takes(w, s, d)
  <2>1. s.phase = "stopping" BY <1>10 DEF SavingOf, PhaseOf, Takes
  <2> QED BY <1>2, <1>10, <2>1 DEF SavingOf, Takes, SameData
<1>11. CASE Publishes(s, d) BY <1>11 DEF SavingOf, Publishes
<1>12. CASE Ends(d) BY <1>12 DEF SavingOf, Ends
<1> QED BY <1>3, <1>4, <1>5, <1>6, <1>7, <1>8, <1>9, <1>10, <1>11, <1>12 DEF LocalKind

\* A worker that runs and is signed as the row is has continued what the row holds.
LEMMA OwnContinues ==
  ASSUME Signed, NEW w \in Worker, Owns(w), Started(w)
  PROVE  w \notin saved.past /\ Continues(saved.hist, ws[w].hist, w)
BY DEF Signed, Owns

\* The types of a worker before and after a step.
LEMMA BothTyped ==
  ASSUME Local, TxnOwned, AnyStep, NEW w \in Worker
  PROVE  ws[w] \in WorkerState /\ ws'[w] \in WorkerState /\ PhaseOf(w, ws[w])
<1>1. Local' BY LocalKept
<1>2. ws' \in [Worker -> WorkerState] BY <1>1 DEF Local, TypeOK
<1> QED BY <1>2, WorkerLocal DEF LocalOf

\* Signed, while the row stays as it is.
LEMMA SignedStays ==
  ASSUME Local, TxnOwned, AnyStep, Signed, saved' = saved,
         ~(CommitEnds(txn.by) /\ txn.kind = "save")
  PROVE  Signed'
<1>1. /\ saved.token[1] \notin saved.past /\ NoWorker \notin saved.past
      /\ \A w \in Worker : OwnOf(w, ws[w], saved) BY Zenon DEF Signed, OwnOf, Started
<1>2. ASSUME NEW v \in Worker PROVE OwnOf(v, ws'[v], saved)
  <2>1. CASE ws'[v] = ws[v] BY <1>1, <2>1
  <2>2. CASE KeepKind(v, ws[v], ws'[v])
    <3>1. ws[v] \in WorkerState /\ ws'[v] \in WorkerState /\ PhaseOf(v, ws[v]) BY BothTyped
    <3> QED BY <1>1, <2>2, <3>1, OwnMoves DEF Local
  <2> QED BY <2>1, <2>2, EveryMove
<1>3. \A v \in Worker : OwnOf(v, ws'[v], saved') BY <1>2
<1> QED BY <1>1, <1>3, Zenon DEF Signed, OwnOf, Started

\* What UnderWay says of the worker whose snapshot is being saved.
LEMMA SaveUnderWay ==
  ASSUME UnderWay, txn.kind = "save"
  PROVE  /\ txn.by \in Worker /\ txn.by \notin saved.past /\ SavingOf(ws[txn.by], txn)
         /\ Continues(saved.hist, txn.hist, txn.by)
         /\ txn.token[1] = txn.by /\ Older(txn.by, txn.token[2])
<1>1. txn # NoTxn BY NoTxnTyped
<1> QED BY <1>1 DEF UnderWay, SavingOf, Count

\* Signed, when a snapshot is saved: no other worker has its signature.
LEMMA SignedSaves ==
  ASSUME Local, TxnOwned, AnyStep, Signed, UnderWay, CommitEnds(txn.by), txn.kind = "save"
  PROVE  Signed'
<1> DEFINE w == txn.by
           r == saved'
<1>0. /\ w \in Worker /\ w \notin saved.past /\ SavingOf(ws[w], txn)
      /\ txn.token[1] = w /\ Older(w, txn.token[2]) BY SaveUnderWay
<1>1. /\ r.token = txn.token /\ r.hist = txn.hist
      /\ r.past = saved.past \cup ({saved.token[1]} \ {w, NoWorker}) BY DEF CommitEnds, Commits
<1>2. /\ saved.token[1] \notin saved.past /\ NoWorker \notin saved.past
      /\ \A v \in Worker : OwnOf(v, ws[v], saved) BY Zenon DEF Signed, OwnOf, Started
<1>3. r.token[1] \notin r.past /\ NoWorker \notin r.past BY <1>0, <1>1, <1>2
<1>a. txn \in Txn BY DEF Local, TypeOK
<1>b. txn.token[2] \in Nat /\ txn.hist \in Seq(Worker) BY <1>a DEF Txn, Token
<1> HIDE DEF r
<1>4. ASSUME NEW v \in Worker PROVE OwnOf(v, ws'[v], r)
  <2> DEFINE s == ws[v]
             d == ws'[v]
  <2>1. s \in WorkerState /\ d \in WorkerState /\ PhaseOf(v, s) BY BothTyped
  <2>2. d = s \/ (v = w /\ Saves(s, d))
    <3>1. CASE ws' = ws BY <3>1
    <3>2. CASE w \in Worker /\ StepOf(w) /\ Saves(ws[w], ws'[w])
      <4>1. v # w => ws'[v] = ws[v] BY <3>2, OneMoves
      <4> QED BY <3>2, <4>1
    <3> QED BY <3>1, <3>2 DEF CommitEnds
  <2>3. d.sig = s.sig /\ d.hist = s.hist /\ d.phase = s.phase /\ d.pend = s.pend BY <2>2 DEF Saves, SameData
  <2>4. OwnOf(v, s, saved) BY <1>2
  <2>5. v \in r.past \cup {r.token[1]} => d.phase \notin {"new", "admitted"}
    <3>1. v = w => s.phase \notin {"new", "admitted"} BY <1>0 DEF SavingOf
    <3> QED BY <1>0, <1>1, <2>3, <2>4, <3>1 DEF OwnOf
  <2>6. d.sig # r.token
    <3>1. s.sig[1] = w => s.sig[2] < txn.token[2] BY <1>0 DEF Older
    <3> QED BY <1>0, <1>1, <1>b, <2>3, <3>1
  <2>7. d.main = "publish" => d.pend[1] = v
    <3>1. CASE d = s BY <2>1, <3>1 DEF PhaseOf, Committing
    <3>2. CASE Saves(s, d) BY <2>1, <3>2 DEF Saves, PhaseOf, Committing
    <3> QED BY <2>2, <3>1, <3>2
  <2>8. d.main = "publish" /\ d.pend = r.token => Continues(r.hist, d.hist, v)
    <3>1. SUFFICES ASSUME d.main = "publish", d.pend = r.token
                   PROVE  Continues(r.hist, d.hist, v) OBVIOUS
    <3>2. v = w BY <1>0, <1>1, <2>7, <3>1
    <3>3. s.main # "publish" BY <1>0, <3>2 DEF SavingOf
    <3>4. s.main = "saving" BY <2>2, <3>1, <3>3 DEF Saves
    <3>5. txn.hist = s.hist BY <1>0, <3>2, <3>4 DEF SavingOf
    <3> QED BY <1>1, <1>b, <2>3, <3>5, ContinuesMore
  <2>9. d.phase \in {"starting", "running"} /\ r.token[1] = v =>
          d.main \in {"publish", "undo"} /\ r.token = d.pend
    <3>1. SUFFICES ASSUME d.phase \in {"starting", "running"}, v = w
                   PROVE  d.main \in {"publish", "undo"} /\ r.token = d.pend BY <1>0, <1>1
    <3>2. s.main \in {"saving", "undo"} /\ txn.token = s.pend BY <1>0, <2>3, <3>1 DEF SavingOf
    <3>3. d = s => s.main # "saving"
      <4>1. SUFFICES ASSUME d = s, s.main = "saving" PROVE FALSE OBVIOUS
      <4>2. ~Saves(s, d) BY <4>1 DEF Saves
      <4>3. ~Awaited BY <3>1, <4>2 DEF CommitEnds
      <4>4. txn # NoTxn BY NoTxnTyped
      <4> QED BY <3>1, <4>1, <4>3, <4>4 DEF Awaited
    <3> QED BY <1>1, <2>2, <2>3, <3>2, <3>3 DEF Saves
  <2> QED BY <2>5, <2>6, <2>8, <2>9 DEF OwnOf
<1> QED BY <1>3, <1>4, Zenon DEF Signed, OwnOf, Started, r

\* No signature is made twice: signatures move from worker to row and back.
LEMMA UniqueKept ==
  ASSUME Local, TxnOwned, AnyStep, Unique, UnderWay
  PROVE  Unique'
<1>0. \A w \in Worker : ws[w].phase # "off" => Older(w, Count(ws[w])) BY DEF Unique, Count
<1>1. ASSUME NEW w \in Worker, ws'[w].phase # "off"
      PROVE  /\ ws[w].phase # "off" /\ Count(ws[w]) \in Nat /\ Count(ws'[w]) \in Nat
             /\ Count(ws[w]) <= Count(ws'[w])
  <2>1. ws[w] \in WorkerState /\ ws'[w] \in WorkerState BY BothTyped
  <2>2. CASE ws'[w] = ws[w]
    <3>1. ws[w].saves \in Nat BY <2>1, StateFields
    <3> QED BY <1>1, <2>2, <3>1 DEF Count
  <2>3. CASE KeepKind(w, ws[w], ws'[w]) \/ Saves(ws[w], ws'[w]) BY <1>1, <2>1, <2>3, CountMoves
  <2> QED BY <2>2, <2>3, EveryMove
<1>2. ASSUME NEW v \in Worker
      PROVE  \/ ws'[v].sig \in {ws[v].sig, saved.token, NoToken}
             \/ Publishes(ws[v], ws'[v]) /\ ws'[v].sig = ws[v].pend
  <2>1. ws[v] \in WorkerState /\ ws'[v] \in WorkerState BY BothTyped
  <2> QED BY <2>1, EveryMove, CountMoves
<1>3. saved' = saved \/ (saved'.token = txn.token /\ txn.kind = "save")
  <2>1. CASE CommitEnds(txn.by) BY <2>1 DEF CommitEnds, Commits
  <2>2. CASE AbortStep(txn.by) BY <2>2 DEF AbortStep
  <2>3. ASSUME NEW w \in Worker, LocalStep(w) PROVE saved' = saved BY <2>3 DEF LocalStep
  <2>4. ASSUME NEW w \in Worker, BeginStep(w) PROVE saved' = saved BY <2>4, BeginTyped
  <2> QED BY <2>1, <2>2, <2>3, <2>4 DEF AnyStep
<1>a. saved.token \in Token /\ txn.token \in Token /\ \A v \in Worker : ws[v].sig \in Token
  <2>1. saved \in Saved /\ txn \in Txn /\ \A v \in Worker : ws[v] \in WorkerState BY DEF Local, TypeOK
  <2> QED BY <2>1, StateFields DEF Saved, Txn
<1>4. ASSUME NEW w \in Worker, ws'[w].phase # "off" PROVE Older(w, Count(ws[w]))'
  <2> DEFINE n == Count(ws[w])
             m == Count(ws'[w])
  <2>1. n \in Nat /\ m \in Nat /\ n <= m /\ ws[w].phase # "off" /\ Older(w, n) BY <1>0, <1>1, <1>4
  <2> HIDE DEF n, m
  <2>2. saved'.token[1] = w => saved'.token[2] < m
    <3>1. CASE saved' = saved
      <4>1. saved.token[2] \in Nat BY <1>a DEF Token
      <4> QED BY <2>1, <3>1, <4>1 DEF Older
    <3>2. CASE saved'.token = txn.token /\ txn.kind = "save"
      <4>1. SUFFICES ASSUME txn.token[1] = w PROVE txn.token[2] < m BY <3>2
      <4>2. txn.by = w /\ SavingOf(ws[w], txn) BY <3>2, <4>1, SaveUnderWay
      <4>3. txn.token[2] < n BY <2>1, <4>2 DEF SavingOf, n
      <4>4. txn.token[2] \in Nat BY <1>a DEF Token
      <4> QED BY <2>1, <4>3, <4>4
    <3> QED BY <1>3, <3>1, <3>2
  <2>3. ASSUME NEW v \in Worker, ws'[v].sig[1] = w PROVE ws'[v].sig[2] < m
    <3>1. CASE ws'[v].sig = ws[v].sig
      <4>1. ws[v].sig[2] \in Nat BY <1>a DEF Token
      <4> QED BY <2>1, <2>3, <3>1, <4>1 DEF Older
    <3>2. CASE ws'[v].sig = saved.token
      <4>1. saved.token[2] \in Nat BY <1>a DEF Token
      <4> QED BY <2>1, <2>3, <3>2, <4>1 DEF Older
    <3>3. CASE ws'[v].sig = NoToken BY <2>3, <3>3 DEF NoToken
    <3>4. CASE Publishes(ws[v], ws'[v]) /\ ws'[v].sig = ws[v].pend
      <4>1. PhaseOf(v, ws[v]) /\ ws[v] \in WorkerState BY BothTyped
      <4>2. ws[v].pend = <<v, ws[v].saves>> BY <3>4, <4>1 DEF PhaseOf, Publishes, Committing
      <4>3. v = w /\ ws'[v].sig[2] = ws[v].saves BY <2>3, <3>4, <4>2
      <4>4. ws[v].saves \in Nat BY <4>1, StateFields
      <4>5. m = ws[v].saves + 1 BY <3>4, <4>3 DEF Publishes, Count, m
      <4> QED BY <4>3, <4>4, <4>5
    <3> QED BY <1>2, <3>1, <3>2, <3>3, <3>4
  <2> QED BY <2>2, <2>3 DEF Older, Count, m
<1>5. ASSUME NEW w \in Worker, ws'[w].phase # "off"
      PROVE  Older(w, IF ws[w].main \in {"await", "begin"} THEN ws[w].saves ELSE ws[w].saves + 1)'
  BY <1>4, <1>5 DEF Count
<1> QED BY <1>5 DEF Unique

\* UnderWay, while the transaction goes on.
LEMMA UnderWayStays ==
  ASSUME Local, TxnOwned, AnyStep, Unique, UnderWay, NEW w \in Worker, LocalStep(w)
  PROVE  UnderWay'
<1>1. saved' = saved /\ evidence' = evidence /\ txn' = txn BY DEF LocalStep
<1>2. CASE txn.kind # "save" BY <1>1, <1>2 DEF UnderWay
<1>3. CASE txn.kind = "save"
  <2> DEFINE b == txn.by
  <2>1. /\ b \in Worker /\ SavingOf(ws[b], txn) /\ txn.token[1] = b
        /\ Older(b, txn.token[2]) BY <1>3, SaveUnderWay
  <2>2. \A v \in Worker : v # w => ws'[v] = ws[v] BY OneMoves DEF LocalStep
  <2>3. SavingOf(ws'[b], txn)
    <3>1. CASE b = w
      <4>1. ws[w] \in WorkerState /\ ws'[w] \in WorkerState /\ PhaseOf(w, ws[w]) BY BothTyped
      <4>2. txn \in Txn /\ LocalKind(w, ws[w], ws'[w]) BY DEF Local, TypeOK, LocalStep
      <4>3. SavingOf(ws[w], txn) BY <2>1, <3>1
      <4>4. SavingOf(ws'[w], txn) BY <4>1, <4>2, <4>3, SavingMoves
      <4> QED BY <3>1, <4>4
    <3>2. CASE b # w BY <2>1, <2>2, <3>2
    <3> QED BY <3>1, <3>2
  <2> HIDE DEF b
  <2>4. ASSUME NEW v \in Worker, ws'[v].sig[1] = b PROVE ws'[v].sig[2] < txn.token[2]
    <3>1. CASE ws'[v].sig = ws[v].sig BY <2>1, <2>4, <3>1 DEF Older
    <3>2. CASE ws'[v].sig # ws[v].sig
      <4>1. v = w BY <2>2, <3>2
      <4>2. ws[w] \in WorkerState /\ ws'[w] \in WorkerState /\ PhaseOf(w, ws[w]) BY BothTyped
      <4>3. LocalKind(w, ws[w], ws'[w]) BY DEF LocalStep
      <4>4. \/ ws'[w].sig \in {saved.token, NoToken}
            \/ Publishes(ws[w], ws'[w]) /\ ws'[w].sig = ws[w].pend
        BY <3>2, <4>1, <4>2, <4>3, CountMoves DEF KeepKind
      <4>5. CASE ws'[w].sig = saved.token BY <2>1, <2>4, <4>1, <4>5 DEF Older
      <4>6. CASE ws'[w].sig = NoToken BY <2>1, <2>4, <4>1, <4>6 DEF NoToken
      <4>7. CASE Publishes(ws[w], ws'[w]) /\ ws'[w].sig = ws[w].pend
        <5>1. ws[w].pend[1] = w /\ ws[w].main = "publish" BY <4>2, <4>7 DEF PhaseOf, Publishes, Committing
        <5>2. b = w BY <2>4, <4>1, <4>7, <5>1
        <5> QED BY <2>1, <5>1, <5>2 DEF SavingOf
      <4> QED BY <4>4, <4>5, <4>6, <4>7
    <3> QED BY <3>1, <3>2
  <2>5. Older(b, txn.token[2])' BY <1>1, <2>1, <2>4 DEF Older, b
  <2> QED BY <1>1, <1>3, <2>3, <2>5 DEF UnderWay, SavingOf, Count, b
<1> QED BY <1>2, <1>3

\* What a worker holds of results that are saved already is stored.
LEMMA HeldStored ==
  ASSUME Local, Signed, SnapshotCovered, NEW w \in Worker, Owns(w), Started(w),
         NEW i \in HeldBy(ws[w])
  PROVE  i > Len(saved.hist) \/ <<i, w>> \in evidence
<1> DEFINE s == ws[w]
<1>1. Continues(saved.hist, s.hist, w) BY OwnContinues
<1>2. i \in DOMAIN s.hist /\ s.hist[i] = w BY WorkerLocal DEF LocalOf, FlightOf
<1>3. s.hist \in Seq(Worker) /\ saved.hist \in Seq(Worker)
  <2>1. s \in WorkerState BY WorkerLocal DEF LocalOf
  <2> QED BY <2>1, StateFields DEF Local, TypeOK, Saved
<1> HIDE DEF s
<1>4. i \in 1 .. Len(s.hist) /\ Len(saved.hist) \in Nat /\ Len(s.hist) \in Nat BY <1>2, <1>3
<1>5. CASE i <= Len(saved.hist)
  <2>1. saved.hist[i] = w BY <1>1, <1>2, <1>4, <1>5 DEF Continues
  <2>2. i \in DOMAIN saved.hist BY <1>3, <1>4, <1>5
  <2> QED BY <2>1, <2>2 DEF SnapshotCovered
<1>6. CASE i > Len(saved.hist) BY <1>6
<1> QED BY <1>4, <1>5, <1>6

\* UnderWay, when a transaction begins.
LEMMA UnderWayBegins ==
  ASSUME Local, TxnOwned, AnyStep, Signed, Unique, SnapshotCovered, Accounted,
         NEW w \in Worker, BeginStep(w)
  PROVE  UnderWay'
<1> DEFINE s == ws[w]
           d == ws'[w]
<1>0. s \in WorkerState /\ d \in WorkerState /\ LocalOf(w, s) /\ PhaseOf(w, s) /\ FlightOf(w, s)
  BY BothTyped, WorkerLocal DEF LocalOf
<1>1. /\ txn' \in Txn /\ txn'.by = w /\ UNCHANGED <<saved, evidence>>
      /\ txn'.kind = "save" => txn'.token = s.pend /\ txn'.hist = s.hist BY BeginTyped
<1>2. Owns(w) BY DEF BeginStep
<1>3. Started(w)
  <2>1. s.main \in {"begin", "fail"} \/ s.loop \in {"rows", "retry"}
    BY DEF BeginStep, BeginsSave, BeginsFail, BeginsRows
  <2> QED BY <1>0, <2>1, Absent DEF Started
<1>4. \A i \in HeldBy(s) : i > Len(saved.hist) \/ <<i, w>> \in evidence BY <1>2, <1>3, HeldStored
<1>5. CASE BeginsRows(s, d) /\ BeginTxn(w, "rows", Positions(Batch(w)))
  <2>1. txn'.kind = "rows" /\ txn'.rows = Positions(Batch(w)) BY <1>5 DEF BeginTxn
  <2>2. Positions(Batch(w)) \subseteq HeldBy(s)
    <3>1. Positions(s.flight.todo) = Positions(Chunk(s)) \cup Positions(Rest(s)) BY <1>0, ChunkParts
    <3> QED BY <3>1 DEF Batch, HeldBy
  <2>3. txn'.rows # {} => saved.token[1] = w BY <1>0, <1>2, <2>1, <2>2 DEF FlightOf, Owns
  <2> QED BY <1>1, <1>4, <2>1, <2>2, <2>3 DEF UnderWay
<1>6. CASE BeginsFail(s, d) /\ BeginTxn(w, "fail", {})
  <2>1. txn'.kind = "fail" /\ txn'.rows = {} BY <1>6 DEF BeginTxn
  <2>2. saved.token[1] = w BY <1>0, <1>2, <1>6 DEF PhaseOf, FlightOf, Owns, BeginsFail
  <2> QED BY <1>1, <2>1, <2>2 DEF UnderWay
<1>7. CASE BeginsSave(s, d) /\ BeginTxn(w, "save", PendingRows(w))
  <2>1. txn'.kind = "save" /\ txn'.rows = Positions(s.flight.todo) BY <1>7 DEF BeginTxn, PendingRows
  <2>2. /\ s.main = "begin" /\ d.main = "saving" /\ SameData(s, d) /\ d.phase = s.phase
        /\ d.pend = s.pend BY <1>7 DEF BeginsSave, Begins
  <2>3. /\ s.phase \in {"starting", "running", "stopping"} /\ ~s.uncertain
        /\ s.pend = <<w, s.saves>> /\ HeldBy(s) = Positions(s.flight.todo)
    BY <1>0, <2>2, NoFlightTyped DEF PhaseOf, FlightOf, HeldBy, Committing
  <2>4. w \notin saved.past /\ Continues(saved.hist, s.hist, w) BY <1>2, <1>3, OwnContinues
  <2>5. \A i \in HeldBy(s) : i \in DOMAIN s.hist /\ s.hist[i] = w BY <1>0 DEF FlightOf
  <2>6. \A i \in DOMAIN s.hist :
          <<i, s.hist[i]>> \in evidence \/ (i \in HeldBy(s) /\ s.hist[i] = w)
    BY <2>2, <2>3, <2>5 DEF Accounted, AccountOf, Committing
  <2>7. s.saves \in Nat BY <1>0, StateFields
  <2>8. Older(w, s.saves)'
    <3>1. Older(w, s.saves) BY <2>2, <2>3 DEF Unique
    <3>2. \A v \in Worker : ws'[v].sig = ws[v].sig BY <2>2, OneMoves DEF BeginStep, SameData
    <3>3. d.saves = s.saves BY <2>2 DEF SameData
    <3> QED BY <1>1, <3>1, <3>2, <3>3 DEF Older
  <2>9. d.uncertain = s.uncertain /\ d.hist = s.hist /\ d.saves = s.saves BY <2>2 DEF SameData
  <2>10. txn'.token = <<w, s.saves>> /\ txn'.hist = s.hist BY <1>1, <2>1, <2>3
  <2>11. Older(w, txn.token[2])' BY <2>8, <2>9, <2>10 DEF Older
  <2>12. SavingOf(d, txn') BY <2>2, <2>3, <2>7, <2>9, <2>10 DEF SavingOf, Count
  <2>13. txn'.rows \subseteq DOMAIN txn'.hist BY <2>1, <2>3, <2>5, <2>10
  <2>14. txn'.token[1] = w BY <2>10
  <2>15. \A i \in txn'.rows : i > Len(saved.hist) \/ <<i, w>> \in evidence BY <1>4, <2>1, <2>3
  <2>16. \A i \in DOMAIN txn'.hist :
           <<i, txn'.hist[i]>> \in evidence \/ (i \in txn'.rows /\ txn'.hist[i] = w)
    BY <2>1, <2>3, <2>6, <2>10
  <2>17. Continues(saved.hist, txn'.hist, w) BY <2>4, <2>10
  <2> HIDE DEF s, d
  <2> QED BY <1>1, <2>1, <2>4, <2>11, <2>12, <2>13, <2>14, <2>15, <2>16, <2>17
           DEF UnderWay, SavingOf, Count, d
<1> QED BY <1>5, <1>6, <1>7 DEF BeginStep

\* UnderWay, when no transaction is.
LEMMA UnderWayEnds ==
  ASSUME txn' = NoTxn
  PROVE  UnderWay'
BY NoTxnTyped DEF UnderWay

\* The saved state stays covered: what a snapshot saves is stored with it.
LEMMA CoveredKept ==
  ASSUME Local, TxnOwned, AnyStep, UnderWay, SnapshotCovered
  PROVE  SnapshotCovered'
<1>1. ASSUME NEW w \in Worker, LocalStep(w) PROVE SnapshotCovered' BY <1>1 DEF LocalStep, SnapshotCovered
<1>2. ASSUME NEW w \in Worker, BeginStep(w) PROVE SnapshotCovered' BY <1>2, BeginTyped DEF SnapshotCovered
<1>3. CASE AbortStep(txn.by) BY <1>3 DEF AbortStep, SnapshotCovered
<1>4. CASE CommitEnds(txn.by)
  <2>1. evidence' = evidence \cup {<<p, txn.by>> : p \in txn.rows} BY <1>4 DEF CommitEnds, Commits
  <2>2. CASE txn.kind # "save" BY <1>4, <2>1, <2>2 DEF CommitEnds, Commits, SnapshotCovered
  <2>3. CASE txn.kind = "save"
    <3>1. saved'.hist = txn.hist BY <1>4, <2>3 DEF CommitEnds, Commits
    <3>2. \A i \in DOMAIN txn.hist :
            <<i, txn.hist[i]>> \in evidence \/ (i \in txn.rows /\ txn.hist[i] = txn.by) BY <2>3 DEF UnderWay
    <3>3. ASSUME NEW i \in DOMAIN txn.hist PROVE <<i, txn.hist[i]>> \in evidence' BY <2>1, <3>2
    <3> QED BY <3>1, <3>3 DEF SnapshotCovered
  <2> QED BY <2>2, <2>3
<1> QED BY <1>1, <1>2, <1>3, <1>4 DEF AnyStep

\* The heartbeats and the failure of the run.
LEMMA ShownKept ==
  ASSUME Local, AnyStep, Shown
  PROVE  Shown' /\ (shown = "failed" => shown' = "failed")
<1>1. ASSUME NEW w \in Worker, StepOf(w), outcome' = outcome \/ ServiceRowFree,
             outcome' \in {"open", "failed"}
      PROVE  \A v \in Worker : ws'[v].beat = "updated" => outcome' = "open"
  <2>1. ASSUME NEW v \in Worker, ws'[v].beat = "updated" PROVE outcome' = "open"
    <3>1. ws[v].beat = "updated" \/ outcome' = "open" BY <1>1, <2>1, OneMoves DEF StepOf
    <3> QED BY <1>1, <3>1 DEF Shown, ServiceRowFree
  <2> QED BY <2>1
<1>2. ASSUME NEW w \in Worker, LocalStep(w)
      PROVE  Shown' /\ (shown = "failed" => shown' = "failed")
  <2>1. outcome' = outcome /\ (shown' = shown \/ (ws[w].beat = "updated" /\ shown' = w)) BY <1>2 DEF LocalStep
  <2>2. \A v \in Worker : ws'[v].beat = "updated" => outcome' = "open"
    BY <1>1, <1>2, <2>1 DEF LocalStep, Local, TypeOK
  <2>3. w # "failed" OBVIOUS
  <2> QED BY <2>1, <2>2, <2>3 DEF Shown
<1>3. ASSUME NEW w \in Worker, BeginStep(w)
      PROVE  Shown' /\ (shown = "failed" => shown' = "failed")
  <2>1. outcome' = outcome /\ shown' = shown BY <1>3, BeginTyped
  <2>2. \A v \in Worker : ws'[v].beat = "updated" => outcome' = "open"
    BY <1>1, <1>3, <2>1 DEF BeginStep, Local, TypeOK
  <2> QED BY <2>1, <2>2 DEF Shown
<1>4. CASE AbortStep(txn.by)
  <2>1. outcome' = outcome /\ shown' = shown BY <1>4 DEF AbortStep
  <2>2. \A v \in Worker : ws'[v].beat = "updated" => outcome' = "open"
    <3>1. CASE ws' = ws BY <2>1, <3>1 DEF Shown
    <3>2. CASE txn.by \in Worker /\ StepOf(txn.by) BY <1>1, <2>1, <3>2 DEF Local, TypeOK
    <3> QED BY <1>4, <3>1, <3>2 DEF AbortStep
  <2> QED BY <2>1, <2>2 DEF Shown
<1>5. CASE CommitEnds(txn.by)
  <2>1. /\ txn.kind = "fail" => ServiceRowFree /\ outcome' = "failed" /\ shown' = "failed"
        /\ txn.kind # "fail" => outcome' = outcome /\ shown' = shown BY <1>5 DEF CommitEnds, Commits
  <2>2. \A v \in Worker : ws'[v].beat = "updated" => outcome' = "open"
    <3>1. CASE ws' = ws BY <2>1, <3>1 DEF Shown, ServiceRowFree
    <3>2. CASE txn.by \in Worker /\ StepOf(txn.by) BY <1>1, <2>1, <3>2 DEF Local, TypeOK
    <3> QED BY <1>5, <3>1, <3>2 DEF CommitEnds
  <2> QED BY <2>1, <2>2 DEF Shown
<1> QED BY <1>2, <1>3, <1>4, <1>5 DEF AnyStep

-----------------------------------------------------------------------------
(* The inductive invariant.                                                *)

\* NothingForgotten and QueueBounded follow from what is left of the invariants.
Core == Local /\ Accounted /\ Waiting /\ RecordInvariant

\* Init.
LEMMA InitCore ==
  ASSUME Init
  PROVE  Core
<1>1. /\ saved.token = NoToken /\ saved.hist = <<>> /\ saved.past = {} /\ evidence = {}
      /\ outcome = "open" /\ shown = NoWorker /\ txn = NoTxn BY DEF Init
<1>2. NoToken \in Token /\ NoToken[1] = NoWorker BY DEF NoToken, Token
<1>3. ASSUME NEW w \in Worker
      PROVE  /\ ws[w] \in WorkerState /\ ws[w].phase = "new" /\ ws[w].hist = <<>>
             /\ ~ws[w].uncertain /\ ws[w].queue = <<>> /\ ws[w].flight = NoFlight
             /\ ws[w].sig = NoToken /\ ws[w].pend = NoToken /\ ws[w].saves = 0
             /\ ~ws[w].fenced /\ ~ws[w].closed /\ ws[w].main = "idle" /\ ws[w].loop = "idle"
             /\ ws[w].beat = "idle" /\ ws[w] = [NewWorker EXCEPT !.phase = "new"]
  <2>1. ws[w] = [NewWorker EXCEPT !.phase = "new"]
    <3>1. ws[w] = NewWorker BY DEF Init
    <3>2. NewWorker.phase = "new" /\ NewWorker \in WorkerState
      <4>1. NoToken \in Token BY DEF NoToken, Token
      <4> QED BY <4>1, NoFlightTyped DEF NewWorker, WorkerState, Phase, Main, Loop, Beat
    <3>3. NewWorker = [NewWorker EXCEPT !.phase = "new"] BY <3>2 DEF WorkerState
    <3> QED BY <3>1, <3>3
  <2>2. "new" \in Phase BY DEF Phase
  <2> QED BY <2>1, <2>2, NewTyped
<1>4. TypeOK
  <2>1. saved \in Saved
    <3>1. <<>> \in Seq(Worker) /\ {} \in SUBSET Worker OBVIOUS
    <3> QED BY <1>2, <3>1, Zenon DEF Init, Saved
  <2>2. ws \in [Worker -> WorkerState]
    <3>1. ws = [w \in Worker |-> NewWorker] BY DEF Init
    <3>2. \A w \in Worker : ws[w] \in WorkerState BY <1>3
    <3> QED BY <3>1, <3>2
  <2> QED BY <1>1, <2>1, <2>2, NoTxnTyped DEF TypeOK
<1>5. Phases BY <1>3 DEF Phases, PhaseOf, Committing
<1>6. Flights
  <2>1. ASSUME NEW w \in Worker PROVE FlightOf(w, ws[w])
    <3> DEFINE s == ws[w]
    <3>1. HeldBy(s) = {} BY <1>3, NoFlightTyped DEF HeldBy
    <3>2. /\ Len(s.flight.todo) + Len(s.flight.kept) <= s.flight.count
          /\ Len(s.queue) + s.flight.count <= QueueLimit
      <4>1. /\ Len(s.flight.todo) = 0 /\ Len(s.flight.kept) = 0 /\ s.flight.count = 0
            /\ Len(s.queue) = 0 BY <1>3, NoFlightTyped
      <4> QED BY <4>1
    <3> QED BY <1>3, <3>1, <3>2 DEF FlightOf, Committing
  <2> QED BY <2>1 DEF Flights
<1>7. Accounted /\ Waiting BY <1>3 DEF Accounted, AccountOf, Waiting, WaitOf
<1>8. SnapshotCovered /\ Shown BY <1>1, <1>3 DEF SnapshotCovered, Shown
<1>9. Signed BY <1>1, <1>2, <1>3 DEF Signed, Started
<1>10. Unique
  <2>1. ASSUME NEW w \in Worker PROVE Older(w, 1) BY <1>1, <1>2, <1>3, <2>1 DEF Older
  <2> QED BY <1>3, <2>1 DEF Unique
<1>11. UnderWay BY <1>1, NoTxnTyped DEF UnderWay
<1> QED BY <1>4, <1>5, <1>6, <1>7, <1>8, <1>9, <1>10, <1>11 DEF Core, Local, RecordInvariant

\* Core is whole for a step that changes nothing.
LEMMA CoreStutters ==
  ASSUME Core, UNCHANGED vars
  PROVE  Core'
<1>1. /\ ws' = ws /\ saved' = saved /\ evidence' = evidence /\ txn' = txn /\ outcome' = outcome
      /\ shown' = shown BY DEF vars
<1>2. Local' BY <1>1 DEF Core, Local, TypeOK, Phases, Flights
<1>3. Accounted' /\ Waiting' BY <1>1 DEF Core, Accounted, Waiting
<1>4. SnapshotCovered' /\ Shown' BY <1>1 DEF Core, RecordInvariant, SnapshotCovered, Shown
<1>5. Signed' BY <1>1 DEF Core, RecordInvariant, Signed, Started
<1>6. Unique' BY <1>1 DEF Core, RecordInvariant, Unique, Older
<1>7. UnderWay' BY <1>1 DEF Core, RecordInvariant, UnderWay, Older
<1> QED BY <1>2, <1>3, <1>4, <1>5, <1>6, <1>7 DEF Core, RecordInvariant

\* Every step is one of AnyStep and keeps Core.
LEMMA CoreKept ==
  ASSUME Core, Next
  PROVE  AnyStep /\ TxnOwned /\ Core'
<1>1. /\ Local /\ Accounted /\ Waiting /\ SnapshotCovered /\ Signed /\ Unique /\ UnderWay
      /\ Shown BY DEF Core, RecordInvariant
<1>2. TxnOwned BY <1>1 DEF UnderWay, TxnOwned
<1>3. AnyStep BY <1>1, <1>2, StepCases
<1>4. Local' /\ Waiting' /\ Accounted' BY <1>1, <1>2, <1>3, LocalKept, WaitingKept, AccountedKept
<1>5. SnapshotCovered' /\ Shown' /\ Unique' BY <1>1, <1>2, <1>3, CoveredKept, ShownKept, UniqueKept
<1>6. UnderWay'
  <2>1. ASSUME NEW w \in Worker, LocalStep(w) PROVE UnderWay' BY <1>1, <1>2, <1>3, <2>1, UnderWayStays
  <2>2. ASSUME NEW w \in Worker, BeginStep(w) PROVE UnderWay' BY <1>1, <1>2, <1>3, <2>2, UnderWayBegins
  <2>3. AbortStep(txn.by) \/ CommitEnds(txn.by) => txn' = NoTxn BY DEF AbortStep, CommitEnds, Commits
  <2> QED BY <1>3, <2>1, <2>2, <2>3, UnderWayEnds DEF AnyStep
<1>7. Signed'
  <2>1. CASE CommitEnds(txn.by) /\ txn.kind = "save" BY <1>1, <1>2, <1>3, <2>1, SignedSaves
  <2>2. CASE ~(CommitEnds(txn.by) /\ txn.kind = "save")
    <3>1. ASSUME NEW w \in Worker, LocalStep(w) PROVE saved' = saved BY <3>1 DEF LocalStep
    <3>2. ASSUME NEW w \in Worker, BeginStep(w) PROVE saved' = saved BY <1>1, <3>2, BeginTyped
    <3>3. AbortStep(txn.by) => saved' = saved BY DEF AbortStep
    <3>4. CommitEnds(txn.by) => saved' = saved BY <2>2 DEF CommitEnds, Commits
    <3>5. saved' = saved BY <1>3, <3>1, <3>2, <3>3, <3>4 DEF AnyStep
    <3> QED BY <1>1, <1>2, <1>3, <2>2, <3>5, SignedStays
  <2> QED BY <2>1, <2>2
<1> QED BY <1>2, <1>3, <1>4, <1>5, <1>6, <1>7 DEF Core, RecordInvariant

\* Every behaviour keeps Core.
LEMMA CoreAlways == Spec => []Core
<1>1. Init => Core BY InitCore
<1>2. Core /\ [Next]_vars => Core' BY CoreKept, CoreStutters
<1> QED BY <1>1, <1>2, PTL DEF Spec

\* The results a worker holds fit into its queue and are the ones that are not stored.
LEMMA CoreTells ==
  ASSUME Core
  PROVE  WriterInvariant
<1>1. /\ Local /\ Accounted /\ Waiting /\ TypeOK /\ Phases /\ Flights BY DEF Core, Local
<1>2. ASSUME NEW w \in Worker
      PROVE  /\ ws[w].queue \in Seq(Position) /\ ws[w].flight.todo \in Seq(Position)
             /\ ws[w].flight.kept \in Seq(Position) /\ ws[w].flight.count \in Nat
             /\ FlightOf(w, ws[w]) /\ AccountOf(w, ws[w], evidence)
  BY <1>1, WorkerLocal, StateFields DEF LocalOf, Accounted
<1>3. QueueBounded
  <2>1. ASSUME NEW w \in Worker
        PROVE  Len(ws[w].queue) + Len(ws[w].flight.todo) + Len(ws[w].flight.kept) <= QueueLimit
    <3>1. PICK k \in Nat, n \in Nat, m \in Nat, c \in Nat :
            /\ k = Len(ws[w].flight.kept) /\ n = Len(ws[w].flight.todo)
            /\ m = Len(ws[w].queue) /\ c = ws[w].flight.count BY <1>2
    <3>2. n + k <= c /\ m + c <= QueueLimit BY <1>2, <3>1 DEF FlightOf
    <3>3. m + n + k <= QueueLimit
      <4>1. k \in Nat /\ n \in Nat /\ m \in Nat /\ c \in Nat /\ QueueLimit \in Nat BY <3>1
      <4> QED BY <3>2, <4>1
    <3> QED BY <3>1, <3>3
  <2> QED BY <2>1 DEF QueueBounded
<1>4. NothingForgotten
  <2>1. ASSUME NEW w \in Worker, ws[w].phase \in {"running", "stopping"}, ~ws[w].closed,
               NEW i \in DOMAIN ws[w].hist
        PROVE  \/ <<i, ws[w].hist[i]>> \in evidence
               \/ i \in Positions(ws[w].queue \o ws[w].flight.todo \o ws[w].flight.kept)
               \/ ws[w].main = "write" /\ i = Len(ws[w].hist)
    <3>1. PICK r : r = ws[w].queue \o ws[w].flight.todo OBVIOUS
    <3>2. r \in Seq(Position) /\ Positions(r) = Positions(ws[w].queue) \cup Positions(ws[w].flight.todo)
      BY <1>2, <3>1, ConcatPositions
    <3>3. Positions(r \o ws[w].flight.kept) = HeldBy(ws[w]) BY <1>2, <3>2, ConcatPositions DEF HeldBy
    <3> QED BY <1>2, <2>1, <3>1, <3>3 DEF AccountOf
  <2> QED BY <2>1 DEF NothingForgotten
<1> QED BY <1>1, <1>3, <1>4 DEF WriterInvariant

-----------------------------------------------------------------------------
(* The theorems.                                                           *)

\* However the three tasks of a worker interleave, and whatever the database does, every
\* result of a worker is stored, held or about to be queued, and no worker holds more of
\* them than its queue allows.
THEOREM ResultsAccounted == Spec => []WriterInvariant
<1>1. Core => WriterInvariant BY CoreTells
<1> QED BY <1>1, CoreAlways, PTL

\* The saved state is always covered by stored evidence, and the signatures tell which
\* worker may go on from it.
THEOREM SavedStateCovered == Spec => []RecordInvariant
<1>1. Core => RecordInvariant BY DEF Core
<1> QED BY <1>1, CoreAlways, PTL

\* No running worker is fenced by the snapshot it saved itself.
THEOREM NeverFencedBySelf == Spec => NoSelfFence
<1>1. Core /\ [Next]_vars
        => [\A w \in Worker :
              ~ws[w].fenced /\ ws'[w].fenced /\ ws[w].phase = "running"
                => saved.token[1] # w]_vars
  <2> SUFFICES ASSUME Core, Next, NEW w \in Worker,
                      ~ws[w].fenced, ws'[w].fenced, ws[w].phase = "running",
                      saved.token[1] = w
               PROVE  FALSE BY DEF vars
  <2>1. AnyStep /\ Local /\ Signed BY CoreKept DEF Core, RecordInvariant
  <2>2. ASSUME NEW v \in Worker, StepOf(v) PROVE Refused(w)
    <3>1. v = w BY <2>1, <2>2, OneMoves
    <3> QED BY <2>2, <3>1 DEF StepOf
  <2>3. Refused(w) BY <2>1, <2>2 DEF AnyStep, LocalStep, BeginStep, AbortStep, CommitEnds
  <2>4. \/ Owns(w) /\ ws[w].main # "publish"
        \/ ws[w].main \in {"publish", "undo"} /\ saved.token = ws[w].pend BY <2>1 DEF Signed, Owns
  <2>5. OwnsForHealth(w) BY <2>4 DEF OwnsForHealth, Owns
  <2>6. ws[w].main \in {"publish", "undo"} => ws[w].loop \in {"idle", "off"}
    BY <2>1, WorkerLocal DEF LocalOf, FlightOf, Committing
  <2> QED BY <2>3, <2>4, <2>5, <2>6 DEF Refused
<1> QED BY <1>1, CoreAlways, PTL DEF Spec, NoSelfFence

\* A heartbeat never overwrites the failure of the run.
THEOREM FailureNotOverwritten == Spec => FailureStays
<1>1. Core /\ [Next]_vars => [shown = "failed" => shown' = "failed"]_vars
  BY CoreKept, ShownKept DEF Core, RecordInvariant
<1> QED BY <1>1, CoreAlways, PTL DEF Spec, FailureStays

\* What the row is after a step, if it changes: the snapshot of the transaction.
LEMMA RowChanges ==
  ASSUME Core, Next, saved' # saved
  PROVE  CommitEnds(txn.by) /\ txn.kind = "save" /\ saved'.token[1] = txn.by
<1>1. AnyStep /\ Local /\ UnderWay BY CoreKept DEF Core, RecordInvariant
<1>2. ASSUME NEW w \in Worker, LocalStep(w) PROVE FALSE BY <1>2 DEF LocalStep
<1>3. ASSUME NEW w \in Worker, BeginStep(w) PROVE FALSE BY <1>1, <1>3, BeginTyped
<1>4. ~AbortStep(txn.by) BY DEF AbortStep
<1>5. CommitEnds(txn.by) BY <1>1, <1>2, <1>3, <1>4 DEF AnyStep
<1>6. txn.kind = "save" /\ saved'.token = txn.token BY <1>5 DEF CommitEnds, Commits
<1> QED BY <1>1, <1>5, <1>6, SaveUnderWay

\* A worker whose state is uncertain saves nothing.
THEOREM UncertainSavesNothing == Spec => UncertainNeverSaved
<1>1. Core /\ [Next]_vars
        => [\A w \in Worker : ws[w].uncertain /\ saved' # saved => saved'.token[1] # w]_vars
  <2> SUFFICES ASSUME Core, Next, NEW w \in Worker, ws[w].uncertain, saved' # saved,
                      saved'.token[1] = w
               PROVE  FALSE BY DEF vars
  <2>1. txn.kind = "save" /\ txn.by = w BY RowChanges
  <2>2. SavingOf(ws[w], txn) BY <2>1, SaveUnderWay DEF Core, RecordInvariant
  <2> QED BY <2>2 DEF SavingOf
<1> QED BY <1>1, CoreAlways, PTL DEF Spec, UncertainNeverSaved

\* A snapshot that is saved continues the last one with results of its worker, and is
\* stored with their evidence; results are stored, and the run failed, by its owner.
LEMMA RecordSteps ==
  ASSUME Core, Next
  PROVE  Abstract!Next \/ UNCHANGED Abstract!recordVars
<1>0. AnyStep /\ Local /\ UnderWay /\ TypeOK /\ TxnOwned BY CoreKept DEF Core, RecordInvariant, Local
<1>1. ASSUME NEW w \in Worker, LocalStep(w) PROVE UNCHANGED Abstract!recordVars
  BY <1>1 DEF LocalStep, Abstract!recordVars
<1>2. ASSUME NEW w \in Worker, BeginStep(w) PROVE UNCHANGED Abstract!recordVars
  BY <1>0, <1>2, BeginTyped DEF Abstract!recordVars
<1>3. ASSUME AbortStep(txn.by) PROVE UNCHANGED Abstract!recordVars BY <1>3 DEF AbortStep, Abstract!recordVars
<1>4. ASSUME CommitEnds(txn.by)
      PROVE  Abstract!Next \/ UNCHANGED Abstract!recordVars
  <2> DEFINE w == txn.by
  <2>1. w \in Worker BY <1>0, <1>4, CommitTyped DEF CommitEnds
  <2>2. evidence' = evidence \cup {<<p, w>> : p \in txn.rows} BY <1>4 DEF CommitEnds, Commits
  <2>3. CASE txn.kind = "save"
    <3>1. /\ saved'.token = txn.token /\ saved'.hist = txn.hist /\ outcome' = outcome
          /\ saved'.past = saved.past \cup ({saved.token[1]} \ {w, NoWorker})
      BY <1>4, <2>3 DEF CommitEnds, Commits
    <3>2. w \notin saved.past /\ Continues(saved.hist, txn.hist, w) /\ txn.token[1] = w
      BY <1>0, <2>3, SaveUnderWay
    <3>3. saved.hist \in Seq(Worker) /\ txn.hist \in Seq(Worker) BY <1>0 DEF TypeOK, Saved, Txn
    <3>4. PICK n \in Nat : n = Len(saved.hist) BY <3>3
    <3>5. PICK m \in Nat : m = Len(txn.hist) BY <3>3
    <3>6. DOMAIN txn.hist = 1 .. m BY <3>3, <3>5
    <3>7. n <= m /\ \A i \in 1 .. m : txn.hist[i] = IF i <= n THEN saved.hist[i] ELSE w
      BY <3>2, <3>4, <3>5 DEF Continues
    <3>8. evidence' = evidence \cup {<<i, w>> : i \in n + 1 .. m}
      <4>1. ASSUME NEW i \in txn.rows
            PROVE  <<i, w>> \in evidence \cup {<<j, w>> : j \in n + 1 .. m}
        <5>1. i \in 1 .. m /\ (i > n \/ <<i, w>> \in evidence) BY <1>0, <2>3, <3>4, <3>6 DEF UnderWay
        <5>2. i > n => i \in n + 1 .. m BY <5>1, <3>4, <3>5
        <5> QED BY <5>1, <5>2
      <4>2. ASSUME NEW i \in n + 1 .. m
            PROVE  <<i, w>> \in evidence'
        <5>1. i \in 1 .. m /\ ~(i <= n) BY <3>4, <3>5
        <5>2. txn.hist[i] = w BY <3>7, <5>1
        <5>3. <<i, txn.hist[i]>> \in evidence \/ i \in txn.rows BY <1>0, <2>3, <3>6, <5>1 DEF UnderWay
        <5> QED BY <2>2, <5>2, <5>3
      <4> QED BY <2>2, <4>1, <4>2
    <3>9. Abstract!Save(w) BY <3>1, <3>2, <3>4, <3>5, <3>7, <3>8 DEF Abstract!Save
    <3> QED BY <2>1, <3>9 DEF Abstract!Next
  <2>4. CASE txn.kind = "fail"
    <3>1. saved' = saved /\ outcome' = "failed" BY <1>4, <2>4 DEF CommitEnds, Commits
    <3>2. saved.token[1] = w /\ evidence' = evidence BY <1>0, <2>2, <2>4 DEF UnderWay
    <3>3. Abstract!Fail(w) BY <3>1, <3>2 DEF Abstract!Fail
    <3> QED BY <2>1, <3>3 DEF Abstract!Next
  <2>5. CASE txn.kind \notin {"save", "fail"}
    <3>1. saved' = saved /\ outcome' = outcome BY <1>4, <2>5 DEF CommitEnds, Commits
    <3>2. CASE txn.rows = {} BY <2>2, <3>1, <3>2 DEF Abstract!recordVars
    <3>3. CASE txn.rows # {}
      <4>1. saved.token[1] = w BY <1>0, <2>5, <3>3 DEF UnderWay
      <4>2. ASSUME NEW e \in evidence' \ evidence PROVE e[1] > Len(saved.hist) /\ e[2] = w
        <5>1. PICK p \in txn.rows : e = <<p, w>> BY <2>2, <4>2
        <5>2. p > Len(saved.hist) BY <1>0, <4>2, <5>1 DEF UnderWay
        <5> QED BY <5>1, <5>2
      <4>3. Abstract!Store(w) BY <2>2, <3>1, <4>1, <4>2 DEF Abstract!Store
      <4> QED BY <2>1, <4>3 DEF Abstract!Next
    <3> QED BY <3>2, <3>3
  <2> QED BY <2>3, <2>4, <2>5
<1> QED BY <1>0, <1>1, <1>2, <1>3, <1>4 DEF AnyStep

\* The workers of a monitor, with all their crashes, lost replies and replacements, only
\* ever do to the database what the record of a run allows.
THEOREM WorkersKeepRecord == Spec => RefinesRunRecord
<1>1. Init => Abstract!Init BY DEF Init, Abstract!Init, NoToken
<1>2. Core /\ [Next]_vars => [Abstract!Next]_Abstract!recordVars
  <2>1. UNCHANGED vars => UNCHANGED Abstract!recordVars BY DEF vars, Abstract!recordVars
  <2> QED BY <2>1, RecordSteps
<1> QED BY <1>1, <1>2, CoreAlways, PTL DEF Spec, RefinesRunRecord, Abstract!Spec
=============================================================================
