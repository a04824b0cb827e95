------------------------------- MODULE LiveView -------------------------------
(***************************************************************************)
(* The live view of TACTIC: leases of the members that look at readings,   *)
(* one MQTT worker per broker they need, the bounded memory of what came   *)
(* in, and a viewer that polls it with a cursor.                           *)
(*                                                                         *)
(* An operation holds the lock `operations` to its end and joins the       *)
(* workers it stops, so it is one step; a message or a change of a         *)
(* connection comes in between.  Its catalogue was read before the lock    *)
(* was taken, so it may be of an earlier revision.                         *)
(***************************************************************************)
EXTENDS Integers, FiniteSets, FiniteSetsExt

CONSTANTS
  Stream,          \* readings
  Brokers,         \* 1 .. n, in the order of the document
  Home,            \* the broker of a reading
  Document,        \* by revision: the readings of the saved system
  Scopes,          \* what a viewer may ask for
  Lease, MaxLeases, MaxStreams, MaxConnections, MaxSamples,
  LeaseTime, ConnectTimeout, History,
  MaxClock, MaxInputs

LiveAssumption ==
  /\ IsFiniteSet(Stream) /\ Home \in [Stream -> Brokers]
  /\ IsFiniteSet(Brokers) /\ Brokers = 1 .. Cardinality(Brokers)
  /\ 1 \in DOMAIN Document /\ \A r \in DOMAIN Document : r \in Nat \ {0} /\ Document[r] \subseteq Stream
  /\ Scopes \subseteq SUBSET Stream
  /\ {MaxConnections, MaxStreams, MaxSamples, MaxClock} \subseteq Nat
  /\ {LeaseTime, ConnectTimeout} \subseteq Nat \ {0}

VARIABLES
  clock, saved,    \* the time, and the revision in the database
  live,            \* SystemLiveService
  view,            \* what a viewer has: its cursor, records and samples
  inputs           \* requests, edits, messages and callbacks so far

liveVars == <<clock, saved, live, view, inputs>>

Never == MaxClock + ConnectTimeout + 1
Revisions == DOMAIN Document
NoLease == [scope |-> {}, until |-> 0]

LiveTypeOK ==
  /\ clock \in 0 .. MaxClock /\ saved \in Revisions
  /\ live.identity \in Revisions \cup {0}
  /\ live.leases \in [Lease -> [scope : SUBSET Stream, until : 0 .. MaxClock + LeaseTime]]
  /\ live.bound \in [Brokers -> SUBSET Stream]
  /\ live.shown \in [Brokers -> {"none", "connecting", "connected", "reconnecting", "error", "blocked"}]
  /\ live.worker \in [Brokers -> {"none", "off", "subscribing", "up", "denied"}]
  /\ live.deadline \in [Brokers -> 0 .. Never]
  /\ live.records \in [Stream -> Nat] /\ live.minimum \in 0 .. live.sequence

NoWorkers(l) ==
  [l EXCEPT !.identity = 0, !.bound = [b \in Brokers |-> {}],
            !.shown = [b \in Brokers |-> "none"], !.worker = [b \in Brokers |-> "none"],
            !.deadline = [b \in Brokers |-> Never],
            !.records = [s \in Stream |-> 0], !.samples = {}]

Init ==
  /\ clock = 0 /\ saved = 1
  /\ live = NoWorkers([identity |-> 0, leases |-> [v \in Lease |-> NoLease], bound |-> <<>>,
                       shown |-> <<>>, worker |-> <<>>, deadline |-> <<>>, records |-> <<>>,
                       samples |-> {}, sequence |-> 0, minimum |-> 0, revision |-> 0])
  /\ view = [cursor |-> 0, revision |-> 1, records |-> [s \in Stream |-> 0], samples |-> {}]
  /\ inputs = 0

Held(l) == {v \in Lease : l.leases[v].until > 0}
Desired(l) == UNION {l.leases[v].scope : v \in Held(l)}
Shown(l) == {s \in Stream : l.records[s] > 0}
Workers(l) == {b \in Brokers : l.worker[b] # "none"}
Input == inputs < MaxInputs /\ inputs' = inputs + 1

-----------------------------------------------------------------------------
(* The parts of an operation.                                              *)

\* Every cursor handed out before is too old for what follows; the first would leave it valid.
MovedSilently(l) == [l EXCEPT !.minimum = l.sequence]
Moved(l) == [l EXCEPT !.sequence = @ + 1, !.minimum = l.sequence + 1]

Cleared(l) == NoWorkers(Moved(l))
Stopped(l) == [Cleared(l) EXCEPT !.leases = [v \in Lease |-> NoLease]]

\* _initialize_connection of each, in the order of the document: within the limit, allowed by the
\* operator, and started.
Connect(l, bs, outcome) ==
  LET goes == {b \in bs : outcome # "blocked"
                 /\ Cardinality(Workers(l)) + Cardinality({c \in bs : c < b}) < MaxConnections}
      said(b) == IF b \notin goes THEN "blocked" ELSE IF outcome = "error" THEN "error" ELSE "connecting"
  IN  [l EXCEPT !.shown = [b \in Brokers |-> IF b \in bs THEN said(b) ELSE l.shown[b]],
                !.worker = [b \in Brokers |-> IF b \in goes THEN "off" ELSE l.worker[b]],
                !.deadline = [b \in Brokers |-> IF b \in goes THEN clock + ConnectTimeout ELSE l.deadline[b]]]

Needed(l, revision) ==
  [b \in Brokers |-> {s \in Desired(l) \cap Document[revision] : Home[s] = b}]

Added(l, streams) == [s \in Stream |-> IF s \in streams /\ l.records[s] = 0 THEN l.sequence ELSE l.records[s]]

Initialized(l, revision, outcome) ==
  LET n == Needed(l, revision)
      m == [l EXCEPT !.identity = revision, !.revision = revision, !.sequence = @ + 1, !.bound = n]
  IN  Connect([m EXCEPT !.records = Added(m, UNION {n[b] : b \in Brokers})],
               {b \in Brokers : n[b] # {}}, outcome)

\* _retire_scope_connections: a healthy worker is told its new topics instead.
Kept(l, n, b) ==
  \/ l.bound[b] = n[b]
  \/ n[b] # {} /\ l.worker[b] \in {"off", "subscribing", "up"}
       /\ l.shown[b] \in {"connected", "connecting", "reconnecting"}

Dropped(l, bs) ==
  [l EXCEPT !.worker = [b \in Brokers |-> IF b \in bs THEN "none" ELSE @[b]],
            !.shown = [b \in Brokers |-> IF b \in bs THEN "none" ELSE @[b]],
            !.deadline = [b \in Brokers |-> IF b \in bs THEN Never ELSE @[b]]]

\* _apply_scope; `refuses` are the workers that cannot change their subscriptions.
Scoped(l, revision, outcome, refuses) ==
  IF Desired(l) = Shown(l) THEN l
  ELSE LET n == Needed(l, revision)
           wanted == UNION {n[b] : b \in Brokers}
           told == {b \in Workers(l) : n[b] # {} /\ l.bound[b] # n[b]}
           m == Moved(Dropped(l, {b \in Brokers : l.shown[b] # "none" /\ ~Kept(l, n, b)}))
           k == [m EXCEPT !.bound = n,
                          !.records = [s \in Stream |-> IF s \in wanted THEN @[s] ELSE 0],
                          !.samples = {x \in l.samples : x.stream \in wanted}]
           a == Connect([k EXCEPT !.records = Added(k, wanted)],
                         {b \in Brokers : n[b] # {} /\ k.shown[b] = "none"}, outcome)
           lost == {b \in told \cap Workers(m) : a.worker[b] # "off" /\ b \in refuses}
       IN  Connect(Dropped(a, lost), lost, outcome)

Expired(l) == [l EXCEPT !.leases = [v \in Lease |-> IF @[v].until > clock THEN @[v] ELSE NoLease]]

\* _retire_failed_workers: an outage has one deadline.
Retired(l) ==
  LET shown == [b \in Brokers |-> IF b \in Workers(l) /\ clock >= l.deadline[b] THEN "error" ELSE l.shown[b]]
      failed == {b \in Workers(l) : shown[b] \in {"error", "blocked"}}
  IN  [Dropped(l, failed) EXCEPT !.shown = shown]

Reconciled(l, revision, outcome, refuses) ==
  LET e == Expired(l)
      s == IF e.identity = 0 THEN e
           ELSE IF Held(e) = {} \/ revision # e.identity THEN Stopped(e)
           ELSE Scoped(e, revision, outcome, refuses)
  IN  Retired([s EXCEPT !.revision = revision])

-----------------------------------------------------------------------------
(* What a viewer is given.                                                 *)

\* snapshot: old samples go, changed rates are changes, and a cursor that is out of range
\* gets everything.
Pruned(l) ==
  LET old == {x \in l.samples : \A y \in l.samples : y.at <= x.at => y.second < clock - History}
  IN  [l EXCEPT !.samples = l.samples \ old, !.minimum = Max({l.minimum} \cup {x.at : x \in old})]
Rated(l, changed) ==
  LET place == CHOOSE p \in [changed -> 1 .. Cardinality(changed)] : IsInjective(p)
  IN  [l EXCEPT !.sequence = l.sequence + Cardinality(changed),
                !.records = [s \in Stream |-> IF s \in changed THEN l.sequence + place[s] ELSE l.records[s]]]

Reset(l, cursor) == cursor = 0 \/ cursor < l.minimum \/ cursor > l.sequence

Sequences(l) == {x.at : x \in l.samples}

Given(l, cursor) ==
  [records |-> {s \in Shown(l) : Reset(l, cursor) \/ l.records[s] > cursor},
   samples |-> {q \in Sequences(l) : Reset(l, cursor) \/ q > cursor}]

\* The page keeps what it has and adds what it is given; after another revision it starts again.
Answer(l, cursor) ==
  LET old == IF l.revision # view.revision
             THEN [view EXCEPT !.records = [s \in Stream |-> 0], !.samples = {}] ELSE view
      g == Given(l, cursor)
  IN  /\ live' = l
      /\ view' = [cursor |-> l.sequence, revision |-> l.revision,
                  records |-> [s \in Stream |-> IF s \in g.records THEN l.records[s] ELSE old.records[s]],
                  samples |-> (old.samples \cup g.samples) \cap Sequences(l)]

-----------------------------------------------------------------------------
(* Requests, each with a catalogue read shortly before.                    *)

Read(revision) == revision \in {saved, saved - 1} \cap Revisions
Outcomes == {"started", "error", "blocked"}

Streams(l, v) == UNION {l.leases[o].scope : o \in Held(l) \ {v}}
Valid(l, v, scope, revision) ==
  scope \subseteq Document[revision] /\ Cardinality(scope \cup Streams(l, v)) <= MaxStreams

\* acquire: a new lease retries a session all of whose workers failed.
Acquire(v) ==
  /\ Input /\ UNCHANGED <<clock, saved>> /\ Held(live) # Lease
  /\ v = CHOOSE o \in Lease : live.leases[o] = NoLease
  /\ \E r \in Revisions, o \in Outcomes, scope \in Scopes, refuses \in {{}, Brokers} :
       /\ Read(r)
       /\ LET l == Reconciled(live, r, o, refuses)
              c == IF l.identity # 0 /\ Workers(l) = {} THEN Cleared(l) ELSE l
              h == [c EXCEPT !.leases[v] = [scope |-> scope, until |-> clock + LeaseTime]]
          IN  IF Valid(l, v, scope, r) /\ Cardinality(Held(l)) < MaxLeases
              THEN Answer(Pruned(IF h.identity = 0 THEN Initialized(h, r, o) ELSE Scoped(h, r, o, refuses)), 0)
              ELSE live' = l /\ UNCHANGED view

\* renew: the measurements of its answer are not used.
Renew(v) ==
  /\ Input /\ UNCHANGED <<clock, saved, view>> /\ live.leases[v] # NoLease
  /\ \E r \in Revisions, o \in Outcomes, scope \in Scopes, refuses \in {{}, Brokers} :
       /\ Read(r)
       /\ LET l == Reconciled(live, r, o, refuses)
              lease == [scope |-> scope, until |-> clock + LeaseTime]
          IN  live' = IF l.leases[v] = NoLease \/ ~Valid(l, v, scope, r) THEN l
                      ELSE Pruned(Scoped([l EXCEPT !.leases[v] = lease], r, o, refuses))

Release(v) ==
  /\ Input /\ UNCHANGED <<clock, saved, view>> /\ live.leases[v] # NoLease
  /\ LET l == [live EXCEPT !.leases[v] = NoLease]
     IN  live' = IF Held(l) = {} THEN Stopped(l) ELSE l

\* A page polls, whether or not it holds a lease.
Poll ==
  /\ UNCHANGED <<clock, saved, inputs>>
  /\ \E r \in Revisions, o \in Outcomes, refuses \in {{}, Brokers} :
       /\ Read(r)
       /\ LET l == Pruned(Reconciled(live, r, o, refuses))
          IN  \E changed \in {{}, {s \in Shown(l) : l.records[s] <= view.cursor}} :
                /\ l.sequence <= view.cursor => changed = {}
                /\ Answer(Rated(l, changed), view.cursor)

\* The supervisor stops everything when it cannot read the catalogue.
Supervise ==
  /\ Input /\ UNCHANGED <<clock, saved, view>> /\ Held(live) # {}
  /\ \/ live' = Stopped(live)
     \/ \E o \in Outcomes, refuses \in {{}, Brokers} : live' = Reconciled(live, saved, o, refuses)

Edit == Input /\ saved + 1 \in Revisions /\ saved' = saved + 1 /\ UNCHANGED <<clock, live, view>>
Tick == Input /\ clock < MaxClock /\ clock' = clock + 1 /\ UNCHANGED <<saved, live, view>>

-----------------------------------------------------------------------------
(* The threads of the workers.                                             *)

\* _connection_state: nothing changes after an error; each outage has one deadline.
Told(b, state, status) ==
  live' = IF live.shown[b] = "error" THEN [live EXCEPT !.worker[b] = state]
          ELSE [live EXCEPT !.worker[b] = state, !.shown[b] = status,
                  !.deadline[b] = IF status \in {"connected", "error"} THEN Never
                                  ELSE IF @ = Never THEN clock + ConnectTimeout ELSE @]

Callback(b) ==
  /\ Input /\ UNCHANGED <<clock, saved, view>>
  /\ \/ live.worker[b] = "off" /\ Told(b, "subscribing", "connecting")
     \/ live.worker[b] = "off" /\ Told(b, "off", "reconnecting")
     \/ live.worker[b] = "off" /\ Told(b, "denied", "error")
     \/ live.worker[b] = "subscribing" /\ Told(b, "up", "connected")
     \/ live.worker[b] = "subscribing" /\ Told(b, "denied", "error")
     \/ live.worker[b] \in {"subscribing", "up"} /\ Told(b, "off", "reconnecting")

Oldest(xs) == CHOOSE x \in xs : \A y \in xs : x.at <= y.at

\* Would drop the oldest sample and leave the oldest valid cursor.
SampledSilently(l, s) ==
  LET all == l.samples \cup {[stream |-> s, second |-> clock, at |-> l.sequence]}
  IN  [l EXCEPT !.samples = IF Cardinality(all) > MaxSamples THEN all \ {Oldest(all)} ELSE all]

\* _receive, _receive_stream: the last sample of a second, in a bounded memory.
Sampled(l, s) ==
  LET others == {x \in l.samples : ~(x.stream = s /\ x.second = clock)}
      all == others \cup {[stream |-> s, second |-> clock, at |-> l.sequence]}
      over == Cardinality(all) > MaxSamples
  IN  [l EXCEPT !.samples = IF over THEN all \ {Oldest(all)} ELSE all,
                !.minimum = IF over THEN Max({l.minimum, Oldest(all).at}) ELSE l.minimum]

Receive(s, decodes) ==
  /\ Input /\ UNCHANGED <<clock, saved, view>>
  /\ live.worker[Home[s]] \in {"subscribing", "up"} /\ live.shown[Home[s]] # "error"
  /\ s \in live.bound[Home[s]]
  /\ LET l == [live EXCEPT !.sequence = @ + 1, !.records[s] = live.sequence + 1]
     IN  live' = IF decodes THEN Sampled(l, s) ELSE l

Next ==
  \/ \E v \in Lease : Acquire(v) \/ Renew(v) \/ Release(v)
  \/ Poll \/ Supervise \/ Edit \/ Tick
  \/ \E b \in Brokers : Callback(b)
  \/ \E s \in Stream, decodes \in BOOLEAN : Receive(s, decodes)

Spec == Init /\ [][Next]_liveVars

-----------------------------------------------------------------------------
(* What a live view promises.                                              *)

\* A page whose cursor is current lacks nothing: the latest record of every reading and every
\* sample that is kept, however often it was given differences only.
ViewComplete ==
  view.cursor = live.sequence /\ view.revision = live.revision =>
    /\ \A s \in Shown(live) : view.records[s] = live.records[s]
    /\ Sequences(live) \subseteq view.samples

\* No worker outlives the leases, and the limits hold.
WorkersLeased ==
  /\ Workers(live) # {} => Held(live) # {} /\ live.identity # 0
  /\ Cardinality(Workers(live)) <= MaxConnections /\ Cardinality(live.samples) <= MaxSamples
  /\ Cardinality(Desired(live)) <= MaxStreams

Shows ==
  \A x \in live.samples :
    \/ x.at \in Sequences(live') \/ x.at <= live'.minimum
    \/ \E y \in live'.samples : y.stream = x.stream /\ y.second = x.second

\* A page learns that it missed samples: one that is dropped is replaced in its second, or no
\* older cursor is answered with differences.
GapsShown == [][Shows]_liveVars

\* What a lease asks for is observed, and a broker shown as connected has a worker that is.
LiveTruly ==
  /\ live.identity # 0 => Desired(live) \subseteq Shown(live)
  /\ \A b \in Brokers : live.shown[b] = "connected" => live.worker[b] = "up"
  /\ \A b \in Workers(live) : live.shown[b] \in {"connecting", "reconnecting"} => live.deadline[b] # Never
=============================================================================
