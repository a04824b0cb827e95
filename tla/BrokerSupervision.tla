-------------------------- MODULE BrokerSupervision --------------------------
(***************************************************************************)
(* How the ingress keeps a client connected to every broker it records     *)
(* from: one client at a time, whose callbacks come from a network thread  *)
(* and may be late, one deadline per outage, retries after a backoff that  *)
(* keep what is shown, and a bounded queue of messages that is forwarded   *)
(* under a fence.  Time is abstract: a deadline or a backoff that runs may *)
(* have passed whenever the supervision looks at it.                       *)
(***************************************************************************)
EXTENDS Integers, Sequences, FiniteSets, Functions

CONSTANTS Broker, Attempt,     \* an attempt is the object that stands for one client
          NoAttempt, MaxInbox, MaxEvents

SupervisionAssumption ==
  NoAttempt \notin Attempt /\ MaxInbox \in Nat \ {0} /\ MaxEvents \in Nat

VARIABLES
  sources,    \* brokers that are recorded from
  attempts,   \* the attempt whose callbacks count
  clients,    \* every client there is: its broker and where its thread is
  deadlines,  \* "none", "set", or REFUSED
  retries,    \* brokers with a backoff that runs
  quiet,      \* brokers whose retry keeps what is shown
  states,     \* what is shown
  reach,      \* brokers that accept connections
  inbox,      \* pending, with pending_bytes in units of one message
  bytes,
  output,     \* the internal broker's client
  sending,    \* attempts of the messages that are published and not acknowledged
  events

vars == <<sources, attempts, clients, deadlines, retries, quiet, states, reach, inbox, bytes,
          output, sending, events>>

Client == [of : Broker, phase : {"free", "starting", "subscribing", "up", "down", "denied"}]
Shown == {"none", "connecting", "connected", "reconnecting", "error", "blocked", "failed"}

SupervisionTypeOK ==
  /\ sources \subseteq Broker /\ retries \subseteq Broker /\ quiet \subseteq Broker
  /\ reach \subseteq Broker
  /\ attempts \in [Broker -> Attempt \cup {NoAttempt}]
  /\ clients \in [Attempt -> Client]
  /\ deadlines \in [Broker -> {"none", "set", "refused"}]
  /\ states \in [Broker -> Shown]
  /\ inbox \in Seq(Attempt) /\ Len(inbox) <= MaxInbox /\ bytes \in 0 .. MaxInbox
  /\ output \in {"none", "down", "up"} /\ sending \subseteq Attempt
  /\ events \in 0 .. MaxEvents

Init ==
  /\ sources = {} /\ retries = {} /\ quiet = {} /\ reach = Broker
  /\ attempts = [b \in Broker |-> NoAttempt]
  /\ clients \in [Attempt -> [of : Broker, phase : {"free"}]]
  /\ deadlines = [b \in Broker |-> "none"]
  /\ states = [b \in Broker |-> "none"]
  /\ inbox = <<>> /\ bytes = 0 /\ output = "none" /\ sending = {} /\ events = 0

Event == events < MaxEvents /\ events' = events + 1

Forwarding == <<inbox, bytes, output, sending>>
Upkeep == <<sources, attempts, deadlines, retries, quiet, states>>

-----------------------------------------------------------------------------
(* Clients.                                                                *)

\* A stopped client is gone once nothing refers to it any more.
Free(a) ==
  /\ clients[a].phase = "free"
  /\ a \notin Range(inbox) \cup sending

\* _connect: blocked by the operator's settings, not started for an error, or started with
\* a deadline; a silent retry keeps what is shown.
Connect(b, silent, outcome) ==
  /\ quiet' = IF silent /\ outcome # "failed" THEN quiet \cup {b} ELSE quiet \ {b}
  /\ IF outcome = "started"
       THEN /\ \E a \in Attempt :
                 /\ Free(a)
                 /\ clients' = [clients EXCEPT ![a] = [of |-> b, phase |-> "starting"]]
                 /\ attempts' = [attempts EXCEPT ![b] = a]
            /\ deadlines' = [deadlines EXCEPT ![b] = "set"]
            /\ states' = IF silent THEN states ELSE [states EXCEPT ![b] = "connecting"]
       ELSE /\ attempts' = [attempts EXCEPT ![b] = NoAttempt]
            /\ deadlines' = [deadlines EXCEPT ![b] = "none"]
            /\ states' = [states EXCEPT ![b] = outcome]
            /\ UNCHANGED clients

Outcome == {"started", "blocked", "failed"}

\* Mutant: a callback counts whichever client it comes from.
AnyClient(a) == clients[a].of \in sources
\* What _state and _receive ask first.
InCharge(a) == attempts[clients[a].of] = a

\* _state
Report(a, phase) ==
  LET b == clients[a].of IN
  IF ~InCharge(a) THEN UNCHANGED <<deadlines, quiet, states>>
  ELSE /\ deadlines' = [deadlines EXCEPT ![b] =
            CASE phase = "connected" -> "none"
              [] phase = "error" -> "refused"
              [] OTHER -> IF @ = "none" THEN "set" ELSE @]
       /\ quiet' = IF phase \in {"connected", "error"} THEN quiet \ {b} ELSE quiet
       /\ states' = IF b \in quiet /\ phase \in {"connecting", "reconnecting"}
                      THEN states ELSE [states EXCEPT ![b] = phase]

Turn(a, from, to, phase) ==
  /\ clients[a].phase \in from
  /\ clients' = [clients EXCEPT ![a].phase = to]
  /\ Report(a, phase)
  /\ UNCHANGED <<sources, attempts, retries, reach, Forwarding>>

\* _connected: the broker accepts, and is asked for the topics
Connected(a) ==
  /\ clients[a].of \in reach
  /\ Turn(a, {"starting", "down"}, "subscribing", "connecting")
  /\ UNCHANGED events

\* _subscribed
Subscribed(a) == Turn(a, {"subscribing"}, "up", "connected") /\ UNCHANGED events

\* The login or the topics are refused: denied, and paho is told to stay away.
Refused(a) == Turn(a, {"starting", "subscribing", "down"}, "denied", "error") /\ Event

\* _disconnected, _connect_failed; paho reconnects
Disconnected(a) ==
  /\ Turn(a, {"starting", "subscribing", "up"}, "down", "reconnecting")
  /\ IF clients[a].of \in reach THEN Event ELSE UNCHANGED events

\* stop(), in a thread of its own
Stopped(a) ==
  /\ clients[a].phase # "free" /\ ~InCharge(a)
  /\ clients' = [clients EXCEPT ![a].phase = "free"]
  /\ UNCHANGED <<Upkeep, reach, Forwarding, events>>

-----------------------------------------------------------------------------
(* Configuration, supervision and the request to reconnect.                *)

\* _configure, when the generation of the catalogue is new: _connect for every broker
Configure ==
  /\ sources = {} /\ output = "up" /\ sending = {}
  /\ sources' = Broker
  /\ \E outcome \in [Broker -> Outcome] :
       LET started == {b \in Broker : outcome[b] = "started"} IN
       /\ IF started = Broker THEN UNCHANGED events ELSE Event
       /\ \E start \in [started -> {a \in Attempt : Free(a)}] :
            /\ IsInjective(start)
            /\ clients' = [a \in Attempt |-> IF \E b \in started : start[b] = a
                 THEN [of |-> CHOOSE b \in started : start[b] = a, phase |-> "starting"]
                 ELSE clients[a]]
            /\ attempts' = [b \in Broker |-> IF b \in started THEN start[b] ELSE NoAttempt]
       /\ deadlines' = [b \in Broker |-> IF b \in started THEN "set" ELSE "none"]
       /\ states' = [b \in Broker |-> IF b \in started THEN "connecting" ELSE outcome[b]]
  /\ retries' = {} /\ quiet' = {} /\ inbox' = <<>> /\ bytes' = 0
  /\ UNCHANGED <<reach, output, sending>>

Detached ==
  /\ sources' = {} /\ retries' = {} /\ quiet' = {}
  /\ attempts' = [b \in Broker |-> NoAttempt]
  /\ deadlines' = [b \in Broker |-> "none"]
  /\ states' = [b \in Broker |-> "none"]
  /\ inbox' = <<>> /\ bytes' = 0

\* _stop_workers: a new generation, a failure, or shutdown
StopWorkers ==
  /\ sources # {} /\ sending = {}
  /\ Event
  /\ Detached
  /\ UNCHANGED <<clients, reach, output, sending>>

\* Mutant: a broker that was refused is given up.
RetriedUnlessRefused(b) == deadlines[b] # "refused"
\* Every broker that _supervise gives up on is retried.
Retried(b) == TRUE

\* _supervise: past its deadline, or refused
GiveUp(b) ==
  /\ deadlines[b] # "none"
  /\ attempts' = [attempts EXCEPT ![b] = NoAttempt]
  /\ deadlines' = [deadlines EXCEPT ![b] = "none"]
  /\ quiet' = quiet \ {b}
  /\ retries' = IF Retried(b) THEN retries \cup {b} ELSE retries
  /\ states' = [states EXCEPT ![b] = "error"]
  /\ UNCHANGED <<sources, clients, reach, Forwarding, events>>

\* _supervise: a backoff is over
Retry(b) ==
  /\ b \in retries /\ b \in sources
  /\ retries' = retries \ {b}
  /\ \E outcome \in Outcome :
       /\ Connect(b, TRUE, outcome)
       /\ IF outcome = "started" THEN UNCHANGED events ELSE Event
  /\ UNCHANGED <<sources, reach, Forwarding>>

\* reconnect, on a member's request
Reconnect(b) ==
  /\ b \in sources
  /\ Event
  /\ retries' = retries \ {b}
  /\ \E outcome \in Outcome : Connect(b, FALSE, outcome)
  /\ UNCHANGED <<sources, reach, Forwarding>>

Unreachable(b) ==
  /\ b \in reach
  /\ Event
  /\ reach' = reach \ {b}
  /\ UNCHANGED <<clients, Upkeep, Forwarding>>

Reachable(b) ==
  /\ b \notin reach
  /\ reach' = reach \cup {b}
  /\ UNCHANGED <<clients, Upkeep, Forwarding, events>>

-----------------------------------------------------------------------------
(* Messages.                                                               *)

\* _receive; a full queue drops the newest
Receive(a) ==
  /\ clients[a].phase \in {"subscribing", "up"} /\ InCharge(a) /\ output = "up"
  /\ Len(inbox) < MaxInbox
  /\ inbox' = Append(inbox, a) /\ bytes' = bytes + 1
  /\ UNCHANGED <<clients, Upkeep, reach, output, sending, events>>

\* _publish_pending, in a transaction that holds the fence
Publish ==
  /\ inbox # <<>> /\ output = "up" /\ sending = {}
  /\ sending' = {a \in Range(inbox) : InCharge(a)}
  /\ inbox' = <<>> /\ bytes' = 0
  /\ UNCHANGED <<clients, Upkeep, reach, output, events>>

Acknowledged ==
  /\ sending # {} /\ output = "up"
  /\ sending' = {}
  /\ UNCHANGED <<clients, Upkeep, reach, inbox, bytes, output, events>>

\* _acknowledge gives up: transport is closed, and the ingress starts again.
AcknowledgeFails ==
  /\ sending # {}
  /\ IF output = "up" THEN Event ELSE UNCHANGED events
  /\ sending' = {} /\ output' = "none"
  /\ Detached
  /\ UNCHANGED <<clients, reach>>

OutputMade ==
  /\ output \in {"none", "down"}
  /\ output' = "up"
  /\ UNCHANGED <<clients, Upkeep, reach, inbox, bytes, sending, events>>

OutputDrops ==
  /\ output = "up"
  /\ Event
  /\ output' = "down"
  /\ UNCHANGED <<clients, Upkeep, reach, inbox, bytes, sending>>

-----------------------------------------------------------------------------
Ingress == Configure \/ Publish \/ Acknowledged \/ (output = "down" /\ AcknowledgeFails)

Supervise(b) == GiveUp(b) \/ Retry(b)

Upkeeping ==
  \/ Ingress \/ OutputMade
  \/ \E b \in Broker : Supervise(b)
  \/ \E a \in Attempt : Stopped(a)

Next ==
  \/ Ingress \/ StopWorkers \/ AcknowledgeFails \/ OutputMade \/ OutputDrops
  \/ \E b \in Broker : Supervise(b) \/ Reconnect(b) \/ Unreachable(b) \/ Reachable(b)
  \/ \E a \in Attempt : Connected(a) \/ Subscribed(a) \/ Refused(a) \/ Disconnected(a)
                        \/ Stopped(a) \/ Receive(a)

\* The polls come round, stops return, brokers come back, and a broker that accepts
\* connections again and again lets a client in before its deadline.
Spec ==
  /\ Init /\ [][Next]_vars
  /\ WF_vars(Upkeeping) /\ \A b \in Broker : WF_vars(Reachable(b))
  /\ SF_vars(\E a \in Attempt : InCharge(a) /\ Connected(a))
  /\ SF_vars(\E a \in Attempt : InCharge(a) /\ Subscribed(a))

-----------------------------------------------------------------------------
(* What is shown as connected is: the client in charge has its topics, and *)
(* no broker has two clients that count.                                   *)
ShownTruly ==
  \A b \in Broker : states[b] = "connected" =>
    attempts[b] # NoAttempt /\ clients[attempts[b]] = [of |-> b, phase |-> "up"]

(* No broker is forgotten: it is connected, or blocked by the operator's   *)
(* settings, or its first start failed, or something will look at it again.*)
NoneForgotten ==
  \A b \in sources : \/ states[b] \in {"connected", "blocked", "failed"}
                     \/ deadlines[b] # "none" \/ b \in retries

(* The bytes that are counted against the limit are those of the queue, a  *)
(* generation that ended leaves nothing to forward, and nothing is under   *)
(* way without a client that can be closed.                                *)
QueueCounted ==
  bytes = Len(inbox) /\ (sending # {} => output # "none") /\ (sources = {} => inbox = <<>>)

\* Recorded from, or left to the operator
Settled(b) == b \notin sources \/ states[b] \in {"connected", "blocked", "failed"}

(* Brokers that come back are recorded from again.                         *)
Recorded == \A b \in Broker : ~Settled(b) ~> Settled(b)
=============================================================================
