------------------------------ MODULE Collection ------------------------------
(***************************************************************************)
(* How a revision of the collection catalogue comes into force.  The       *)
(* ingress of TACTIC forwards readings to topics that are new with every   *)
(* generation of the catalogue; the collector (mqtt-proxy) admits, stores  *)
(* and republishes them.  They share one row: each reports there which     *)
(* revision it has reached, and waits for the other.  Collectors that take *)
(* over from each other are fenced by advisory locks.                      *)
(*                                                                         *)
(* A reading is represented by the generation it was forwarded under.      *)
(***************************************************************************)
EXTENDS Integers, FiniteSets

CONSTANTS Proc,         \* collector processes
          NoProc,
          Catalogue,    \* what may be selected, names and rules aside: the fingerprints
          Nothing,      \* the catalogue that selects nothing
          Initial,      \* those that may be selected at the start
          Reverts,      \* whether an edit may bring an earlier selection back
          MaxRevision, MaxFaults

ASSUME CollectionAssumption ==
  /\ NoProc \notin Proc /\ Nothing \in Catalogue /\ Initial \subseteq Catalogue
  /\ Reverts \in BOOLEAN
  /\ MaxRevision \in Nat \ {0} /\ MaxFaults \in Nat

VARIABLES
  row,      \* the row of system_collection_configuration
  used,     \* selections that were saved at some time
  cache,    \* generations with values in collection_state
  leader,   \* whose session holds the shared advisory lock
  effect,   \* processes with an open transaction that passed the fence
  ing,      \* the ingress process
  col,      \* the collectors
  faults

vars == <<row, used, cache, leader, effect, ing, col, faults>>

Revision == 1 .. MaxRevision
\* The uuid of a generation is the revision it was saved with; 0 is None.
Gen == 0 .. MaxRevision

Report == [rev : -1 .. MaxRevision, status : {"none", "applying", "prepared", "applied",
                                              "error", "connecting"}]
NoReport == [rev |-> -1, status |-> "none"]
Applied(r) == [rev |-> r, status |-> "applied"]

Row == [rev : Revision, gen : Revision, sel : Catalogue, col : Report, ing : Report]

Ingress == [pc : {"down", "idle", "save"}, snap : Row, gen : Gen, up : BOOLEAN]

Collector == [pc : {"down", "loop", "refresh", "apply", "drain", "subscribe", "activate",
                    "emit", "error", "stop"},
              snap : Row,
              prep : -1 .. MaxRevision, fp : Catalogue,   \* _prepared_revision and its fingerprint
              rev : -1 .. MaxRevision, st : Report,       \* revision, state
              conn : BOOLEAN, sub : SUBSET Gen,           \* the broker
              routes : Gen, buf : SUBSET Gen,
              obs : SUBSET Gen, queue : SUBSET Gen, pub : SUBSET Gen]

FirstRow(s) == [rev |-> 1, gen |-> 1, sel |-> s, col |-> NoReport, ing |-> NoReport]

\* Of the reports, only whether the ingress has applied the revision is read later.
Snapshot(r) == [r EXCEPT !.col = NoReport, !.ing = IF @ = Applied(r.rev) THEN @ ELSE NoReport]

\* What a process that is not there knows; snapshots that are used up are forgotten.
NoRow == FirstRow(Nothing)
NoIngress == [pc |-> "down", snap |-> NoRow, gen |-> 0, up |-> FALSE]
NoCollector ==
  [pc |-> "down", snap |-> NoRow, prep |-> -1, fp |-> Nothing, rev |-> -1, st |-> NoReport,
   conn |-> FALSE, sub |-> {}, routes |-> 0, buf |-> {},
   obs |-> {}, queue |-> {}, pub |-> {}]

TypeOK ==
  /\ row \in Row /\ used \subseteq Catalogue /\ cache \subseteq Gen
  /\ leader \in Proc \cup {NoProc} /\ effect \subseteq Proc
  /\ ing \in Ingress /\ col \in [Proc -> Collector]
  /\ faults \in 0 .. MaxFaults

Init ==
  /\ \E s \in Initial : row = FirstRow(s) /\ used = {s}
  /\ cache = {} /\ leader = NoProc /\ effect = {}
  /\ ing = NoIngress
  /\ col = [p \in Proc |-> NoCollector]
  /\ faults = 0

Fault == faults < MaxFaults /\ faults' = faults + 1

-----------------------------------------------------------------------------
(* Edits of the catalogue: SystemCollectionService.persist.                *)

Select(s) ==
  /\ row.rev < MaxRevision
  /\ s # row.sel
  /\ Reverts \/ s \notin used
  /\ used' = used \cup {s}
  /\ row' = [rev |-> row.rev + 1, gen |-> row.rev + 1, sel |-> s,
             col |-> NoReport, ing |-> NoReport]
  /\ UNCHANGED <<cache, leader, effect, ing, col, faults>>

\* Names, rules or registrations: the same readings in the same generation.
Describe ==
  /\ row.rev < MaxRevision
  /\ row' = [row EXCEPT !.rev = @ + 1, !.col = NoReport, !.ing = NoReport]
  /\ UNCHANGED <<used, cache, leader, effect, ing, col, faults>>

-----------------------------------------------------------------------------
(* The ingress.  `effects' keeps its poll and its forwarding apart.        *)

IngressStart ==
  /\ ing.pc = "down"
  /\ ing' = [NoIngress EXCEPT !.pc = "idle"]
  /\ UNCHANGED <<row, used, cache, leader, effect, col, faults>>

OutputConnects ==
  /\ ing.pc # "down" /\ ~ing.up
  /\ ing' = [ing EXCEPT !.up = TRUE]
  /\ UNCHANGED <<row, used, cache, leader, effect, col, faults>>

OutputDrops ==
  /\ ing.up
  /\ Fault
  /\ ing' = [ing EXCEPT !.up = FALSE]
  /\ UNCHANGED <<row, used, cache, leader, effect, col>>

\* Mutant: the ingress waits until the collector has applied what it has prepared.
PreparedLater(r) == r.col = Applied(r.rev)
\* is_prepared_or_applied
Prepared(r) == r.col.rev = r.rev /\ r.col.status \in {"prepared", "applied"}

\* _poll_owned reads the row; _step: workers of another generation stop, those of
\* this one start.
IngressStep ==
  /\ ing.pc = "idle"
  /\ ing' = [ing EXCEPT
       !.pc = "save", !.snap = Snapshot(row),
       !.gen = IF @ = row.gen THEN @
               ELSE IF Prepared(row) /\ ing.up THEN row.gen ELSE 0]
  /\ UNCHANGED <<row, used, cache, leader, effect, col, faults>>

\* _status, and the update of the row if it still has this revision
IngressSave ==
  LET s == ing.snap
      status == IF ing.up /\ (ing.gen = s.gen \/ s.sel = Nothing)
                  THEN "applied" ELSE "connecting"
  IN /\ ing.pc = "save"
     /\ row' = IF row.rev = s.rev
                 THEN [row EXCEPT !.ing = [rev |-> s.rev, status |-> status]] ELSE row
     /\ ing' = [ing EXCEPT !.pc = "idle", !.snap = NoRow]
     /\ UNCHANGED <<used, cache, leader, effect, col, faults>>

\* A publication is not acknowledged, or the lock or the process is lost.
IngressFails ==
  /\ ing.pc # "down"
  /\ Fault
  /\ ing' = NoIngress
  /\ UNCHANGED <<row, used, cache, leader, effect, col>>

-----------------------------------------------------------------------------
(* The collector: ownership and the main loop.                             *)

Put(p, c) == col' = [col EXCEPT ![p] = c]
At(p, pc) == col[p].pc = pc

\* CollectionBuffer.pause; a buffer that is paused routes nothing.
Paused(c) == [c EXCEPT !.routes = 0, !.buf = {}]

\* Mutant: a transaction checks the leader and takes no lock that takeover waits for.
LockFreeOfLeader == leader = NoProc
\* pg_try_advisory_lock: neither a leader nor an effect transaction holds the shared lock.
LockFree == leader = NoProc /\ effect = {}

Acquire(p) ==
  /\ At(p, "down")
  /\ LockFree
  /\ leader' = p
  /\ Put(p, [NoCollector EXCEPT !.pc = "loop"])
  /\ UNCHANGED <<row, used, cache, effect, ing, faults>>

\* WorkerOwnership.fence, in a transaction of its own
Fenced(p) == leader = p

\* The poll of the ownership connection fails: stop(drain=False), disconnect.
Terminate(p) ==
  /\ At(p, "loop")
  /\ ~Fenced(p)
  /\ Put(p, NoCollector)
  /\ UNCHANGED <<row, used, cache, leader, effect, ing, faults>>

Poll(p) ==
  /\ At(p, "loop")
  /\ Fenced(p)
  /\ Put(p, [col[p] EXCEPT !.pc = "refresh", !.snap = Snapshot(row)])
  /\ UNCHANGED <<row, used, cache, leader, effect, ing, faults>>

\* The collection loop's own reconnection, in a new session of the broker.
Connect(p) ==
  LET c == [Paused(col[p]) EXCEPT !.prep = -1, !.fp = Nothing, !.rev = -1] IN
  /\ At(p, "refresh") /\ ~col[p].conn
  /\ \/ /\ Put(p, [c EXCEPT !.pc = "apply", !.conn = TRUE, !.sub = {}, !.pub = {}])
        /\ UNCHANGED faults
     \/ /\ Fault
        /\ Put(p, [c EXCEPT !.pc = "error"])
  /\ UNCHANGED <<row, used, cache, leader, effect, ing>>

\* A revision with the readings of the one that is prepared needs no new preparation.
Adopts(p) ==
  LET c == col[p] IN c.prep >= 0 /\ c.prep # c.snap.rev /\ c.fp = c.snap.sel

Adopt(p) ==
  LET c == col[p] IN
  /\ At(p, "refresh") /\ c.conn
  /\ Adopts(p)
  /\ Put(p, [c EXCEPT !.pc = "activate", !.prep = c.snap.rev,
                      !.rev = IF @ = c.prep THEN c.snap.rev ELSE @,
                      !.st.rev = c.snap.rev])
  /\ UNCHANGED <<row, used, cache, leader, effect, ing, faults>>

Compare(p) ==
  LET c == col[p] IN
  /\ At(p, "refresh") /\ c.conn
  /\ ~Adopts(p)
  /\ Put(p, IF c.prep = c.snap.rev THEN [c EXCEPT !.pc = "activate"]
                                   ELSE [c EXCEPT !.pc = "apply", !.rev = -1])
  /\ UNCHANGED <<row, used, cache, leader, effect, ing, faults>>

-----------------------------------------------------------------------------
(* _apply and the activation.                                              *)

\* _save_status: the row keeps a report of its own revision only.
SaveReport(st) ==
  row' = IF row.rev = st.rev THEN [row EXCEPT !.col = st] ELSE row

\* Every step that writes is fenced; a collector that lost its lock ends up here.
Refused(p, c) ==
  /\ ~Fenced(p)
  /\ Put(p, [c EXCEPT !.pc = "error"])
  /\ UNCHANGED <<row, used, cache, leader, effect, ing, faults>>

Apply(p) ==
  LET c == [Paused(col[p]) EXCEPT !.st = [rev |-> col[p].snap.rev, status |-> "applying"]]
  IN /\ At(p, "apply")
     /\ \/ Refused(p, c)
        \/ /\ Fenced(p)
           /\ SaveReport(c.st)
           /\ Put(p, [c EXCEPT !.pc = "drain"])
           /\ UNCHANGED <<used, cache, leader, effect, ing, faults>>

\* Mutant: what is queued is written later.
DrainedLater(c) == TRUE
\* DatabaseWriter.drain and drain_publishes
Drained(c) == c.queue = {} /\ c.pub = {}

\* Writes and publications admitted under the old policy are over: the cache is cleared.
Drain(p) ==
  LET c == col[p] IN
  /\ At(p, "drain")
  /\ Drained(c)
  /\ \/ Refused(p, c)
     \/ /\ Fenced(p)
        /\ cache' = {}
        /\ Put(p, [c EXCEPT !.pc = "subscribe"])
        /\ UNCHANGED <<row, used, leader, effect, ing, faults>>

DrainTimesOut(p) ==
  /\ At(p, "drain")
  /\ IF Fenced(p) /\ (col[p].conn \/ col[p].pub = {}) THEN Fault ELSE UNCHANGED faults
  /\ Put(p, [col[p] EXCEPT !.pc = "error"])
  /\ UNCHANGED <<row, used, cache, leader, effect, ing>>

Desired(s) == IF s.sel = Nothing THEN {} ELSE {s.gen}

\* Nothing is asked of a broker that is gone if the subscriptions are those desired.
Subscribe(p) ==
  LET c == col[p]
      d == [c EXCEPT !.sub = Desired(c.snap), !.prep = c.snap.rev, !.fp = c.snap.sel,
                     !.st = [rev |-> c.snap.rev, status |-> "prepared"]]
  IN /\ At(p, "subscribe")
     /\ \/ /\ ~c.conn /\ c.sub # Desired(c.snap)
           /\ Put(p, [c EXCEPT !.pc = "error"])
           /\ UNCHANGED <<row, used, cache, leader, effect, ing, faults>>
        \/ /\ c.conn \/ c.sub = Desired(c.snap)
           /\ \/ Refused(p, d)
              \/ /\ Fenced(p)
                 /\ SaveReport(d.st)
                 /\ Put(p, [d EXCEPT !.pc = "activate"])
                 /\ UNCHANGED <<used, cache, leader, effect, ing, faults>>

\* CollectionBuffer.configure, after the ingress is ready for this revision
Activated(c) ==
  IF c.rev # c.snap.rev /\ (c.snap.ing = Applied(c.snap.rev) \/ c.snap.sel = Nothing)
    THEN [c EXCEPT !.routes = c.snap.gen, !.buf = {}, !.rev = c.snap.rev,
                   !.st.status = "applied"]
    ELSE c

Activate(p) ==
  LET c == col[p]
      d == Activated(c)
  IN /\ At(p, "activate")
     /\ \/ /\ d # c /\ ~c.conn /\ c.snap.sel # Nothing
           /\ Put(p, [c EXCEPT !.pc = "error"])
           /\ UNCHANGED <<row, used, cache, leader, effect, ing, faults>>
        \/ /\ d = c \/ c.conn \/ c.snap.sel = Nothing
           /\ \/ Refused(p, d)
              \/ /\ Fenced(p)
                 /\ SaveReport([d.st EXCEPT !.rev = c.snap.rev])
                 /\ Put(p, [d EXCEPT !.pc = "loop", !.snap = NoRow])
                 /\ UNCHANGED <<used, cache, leader, effect, ing, faults>>

\* The retry path: what was prepared is forgotten, the report saved if that is possible.
Recover(p) ==
  LET c == [Paused(col[p]) EXCEPT !.pc = "loop", !.rev = -1, !.prep = -1, !.fp = Nothing,
                                  !.snap = NoRow,
                                  !.st.status = "error"]
  IN /\ At(p, "error")
     /\ Put(p, c)
     /\ IF Fenced(p) THEN SaveReport(c.st) ELSE UNCHANGED row
     /\ UNCHANGED <<used, cache, leader, effect, ing, faults>>

-----------------------------------------------------------------------------
(* Readings.                                                               *)

\* _publish_pending forwards under the present generation, brokers deliver late, and
\* CollectionBuffer.receive keeps what arrives on the topics that it routes.
Receive(p) ==
  LET c == col[p] IN
  /\ c.conn /\ c.routes \in c.sub \ {0}
  /\ Put(p, [c EXCEPT !.buf = {c.routes}])
  /\ UNCHANGED <<row, used, cache, leader, effect, ing, faults>>

\* take, the fence of the transaction that covers the publications, and
\* _emit_observations: write_record, then publish
Emit(p) ==
  LET c == col[p] IN
  /\ At(p, "loop") /\ c.rev >= 0 /\ c.conn /\ c.buf # {}
  /\ IF Fenced(p)
       THEN /\ effect' = effect \cup {p}
            /\ Put(p, [c EXCEPT !.pc = "emit", !.obs = c.buf, !.buf = {},
                                !.queue = @ \cup c.buf, !.pub = @ \cup c.buf])
       ELSE /\ Put(p, [c EXCEPT !.pc = "error", !.buf = {}])
            /\ UNCHANGED effect
  /\ UNCHANGED <<row, used, cache, leader, ing, faults>>

EmitCommit(p) ==
  LET c == col[p] IN
  /\ At(p, "emit") /\ c.pub = {}
  /\ cache' = cache \cup c.obs
  /\ effect' = effect \ {p}
  /\ Put(p, [c EXCEPT !.pc = "loop", !.obs = {}])
  /\ UNCHANGED <<row, used, leader, ing, faults>>

\* MQTTClient.disconnect
Disconnected(c) == [c EXCEPT !.conn = FALSE, !.pub = {}]

\* Transport is closed before the fence is released.
EmitFails(p) ==
  LET c == col[p] IN
  /\ At(p, "emit")
  /\ IF c.conn THEN Fault ELSE UNCHANGED faults
  /\ effect' = effect \ {p}
  /\ Put(p, [Disconnected(c) EXCEPT !.pc = "error", !.obs = {}])
  /\ UNCHANGED <<row, used, cache, leader, ing>>

\* The broker acknowledges, and delivers to whoever listens.
Published(p) ==
  /\ col[p].conn
  /\ \E g \in col[p].pub : Put(p, [col[p] EXCEPT !.pub = @ \ {g}])
  /\ UNCHANGED <<row, used, cache, leader, effect, ing, faults>>

\* _process_batch, in a fenced transaction: see TelemetryWriter for the rest.
Write(p) ==
  /\ col[p].queue # {} /\ Fenced(p)
  /\ Put(p, [col[p] EXCEPT !.queue = {}])
  /\ UNCHANGED <<row, used, cache, leader, effect, ing, faults>>

-----------------------------------------------------------------------------
(* Shutdown and failures.                                                  *)

Stop(p) ==
  /\ At(p, "loop")
  /\ Fault
  /\ Put(p, [Paused(col[p]) EXCEPT !.pc = "stop"])
  /\ UNCHANGED <<row, used, cache, leader, effect, ing>>

\* The queue is drained before the lock is released; without the lock it is given up.
Stopped(p) ==
  /\ At(p, "stop")
  /\ col[p].queue = {} \/ ~Fenced(p)
  /\ leader' = IF Fenced(p) THEN NoProc ELSE leader
  /\ Put(p, NoCollector)
  /\ UNCHANGED <<row, used, cache, effect, ing, faults>>

\* The session that holds the lock is gone, and the process does not know it yet.
OwnershipLost(p) ==
  /\ leader = p
  /\ Fault
  /\ leader' = NoProc
  /\ UNCHANGED <<row, used, cache, effect, ing, col>>

BrokerDrops(p) ==
  /\ col[p].conn
  /\ Fault
  /\ Put(p, [col[p] EXCEPT !.conn = FALSE])
  /\ UNCHANGED <<row, used, cache, leader, effect, ing>>

Crash(p) ==
  /\ ~At(p, "down")
  /\ Fault
  /\ leader' = IF leader = p THEN NoProc ELSE leader
  /\ effect' = effect \ {p}
  /\ Put(p, NoCollector)
  /\ UNCHANGED <<row, used, cache, ing>>

-----------------------------------------------------------------------------
User == Describe \/ \E s \in Catalogue : Select(s)

IngressLoop == IngressStart \/ IngressStep \/ IngressSave

Loop(p) ==
  \/ Acquire(p) \/ Terminate(p) \/ Poll(p) \/ Connect(p) \/ Adopt(p) \/ Compare(p)
  \/ Apply(p) \/ Drain(p) \/ Subscribe(p) \/ Activate(p) \/ Recover(p) \/ Emit(p)
  \/ EmitCommit(p) \/ Stopped(p)
  \/ (~Fenced(p) \/ ~col[p].conn) /\ DrainTimesOut(p)
  \/ ~col[p].conn /\ EmitFails(p)

Environment ==
  \/ OutputDrops \/ IngressFails
  \/ \E p \in Proc : \/ DrainTimesOut(p) \/ Receive(p) \/ EmitFails(p) \/ Stop(p)
                     \/ OwnershipLost(p) \/ BrokerDrops(p) \/ Crash(p)

Next ==
  \/ User \/ Environment \/ IngressLoop \/ OutputConnects
  \/ \E p \in Proc : Loop(p) \/ Published(p) \/ Write(p)

Spec == Init /\ [][Next]_vars

\* Every await returns, the loops come round, processes are restarted.  The collector
\* polls every two seconds, however much there is to emit.
FairSpec ==
  /\ Spec
  /\ WF_vars(IngressLoop) /\ WF_vars(OutputConnects)
  /\ \A p \in Proc : /\ WF_vars(Loop(p)) /\ SF_vars(Poll(p))
                     /\ WF_vars(Published(p)) /\ WF_vars(Write(p))

-----------------------------------------------------------------------------
(* Properties.                                                             *)

(* Nothing of another generation is left, in the cache or on its way into  *)
(* it, once the row says that the present revision is prepared: `removed   *)
(* or remapped sensors cannot expose values from an earlier revision'.     *)
OnlyPresent ==
  Prepared(row) =>
    /\ cache \subseteq {row.gen}
    /\ \A p \in effect : col[p].obs \subseteq {row.gen}
    /\ leader # NoProc => col[leader].queue \cup col[leader].pub \subseteq {row.gen}

(* Whoever has a transaction open that passed the fence keeps every other  *)
(* process from the leadership, even when its own lock is gone.            *)
OneEffect == \A p \in effect : effect = {p} /\ leader \in {p, NoProc}

(* A collector that believes it collects the present revision routes the   *)
(* topics of its generation, unless the buffer is paused.                  *)
Routed ==
  \A p \in Proc : col[p].rev = row.rev /\ Fenced(p) => col[p].routes \in {0, row.gen}

(* What rests on a revision that was read: the row it was read from is     *)
(* the present one or an earlier one, of the present generation exactly    *)
(* when it selects what is selected now.                                   *)
Past(rev, sel) == rev <= row.rev /\ sel \in used /\ (rev >= row.gen <=> sel = row.sel)

Holding == {"refresh", "apply", "drain", "subscribe", "activate"}

Known ==
  /\ row.gen \in 1 .. row.rev /\ row.sel \in used
  /\ \A p \in Proc :
       /\ col[p].pc \in Holding =>
            /\ Past(col[p].snap.rev, col[p].snap.sel)
            /\ col[p].snap.rev >= row.gen => col[p].snap.gen = row.gen
       /\ col[p].prep # -1 => Past(col[p].prep, col[p].fp)

(* The stages of the loop: what is open at none but one of them, and what  *)
(* a preparation has emptied.                                              *)
Stages ==
  \A p \in Proc : LET c == col[p] IN
    /\ p \in effect <=> c.pc = "emit"
    /\ c.pub # {} \/ c.obs # {} => c.pc = "emit"
    /\ c.rev \in {-1, c.prep}
    /\ c.pc \in {"apply", "drain", "subscribe"} => c.rev = -1
    /\ c.pc \in {"drain", "subscribe"} => c.routes = 0 /\ c.buf = {}
    /\ c.pc = "subscribe" => c.queue = {}
    /\ c.pc = "activate" => c.prep = c.snap.rev

(* A leader that prepared the present generation has nothing of another in *)
(* any stage between the broker and the cache; nor has one whose row says  *)
(* `prepared', by its own report or by that of the leader before it.       *)
Clean(c) ==
  c.queue \cup c.pub \cup c.buf \cup c.obs \subseteq {row.gen} /\ c.routes \in {0, row.gen}

Leading ==
  leader # NoProc =>
    LET c == col[leader] IN
    /\ c.pc = "subscribe" => cache = {}
    /\ c.prep >= row.gen => Clean(c) /\ cache \subseteq {row.gen}
    /\ Prepared(row) => Clean(c)
    /\ row.col.rev = row.rev /\ c.pc \in Holding => c.snap.rev = row.rev

(* The composed invariant of the collection.                               *)
CollectionInvariant ==
  TypeOK /\ OnlyPresent /\ OneEffect /\ Routed /\ Known /\ Stages /\ Leading

(* A process that was taken over has no effect any more: what it published *)
(* does not reach the broker, and what it queued is not written.           *)
NoStaleEffect ==
  [][\A p \in Proc :
       leader \notin {p, NoProc} /\ col'[p].pc # "down"
         => col[p].queue \subseteq col'[p].queue
            /\ (col[p].conn /\ col'[p].conn => col[p].pub \subseteq col'[p].pub)]_vars

(* When edits and faults end, the last revision comes into force: both     *)
(* report it applied, and what the ingress forwards is collected.          *)
InEffect ==
  /\ row.col = Applied(row.rev) /\ row.ing = Applied(row.rev)
  /\ leader # NoProc
  /\ row.sel # Nothing =>
       /\ ing.gen = row.gen /\ row.gen \in col[leader].sub
       /\ col[leader].routes = row.gen
RevisionApplied == <>[]InEffect

(* The comment of _step: `Wait until the collector is listening to this    *)
(* unique generation.'                                                     *)
IngressAwaitsListener ==
  [][ing'.gen \notin {ing.gen, 0} /\ row.sel # Nothing =>
       \E p \in Proc : ing'.gen \in col[p].sub]_vars
=============================================================================
