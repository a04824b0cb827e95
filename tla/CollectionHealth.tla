---------------------------- MODULE CollectionHealth ----------------------------
(***************************************************************************)
(* Whether collection works.  The collector and the ingress store a report *)
(* of themselves on the row of the collection every few seconds; whoever   *)
(* asks gets one verdict, the first check that fails, from reports that    *)
(* may be old, of another revision, or from a clock that runs ahead.       *)
(***************************************************************************)
EXTENDS Integers, Sequences, FiniteSets

CONSTANTS
  ReportAge,     \* REPORT_MAX_AGE
  ReportSkew,    \* REPORT_MAX_SKEW
  RateWindow,    \* how long rates are measured
  RateSamples,   \* samples of the counters that are kept
  EndOfTime,     \* time that passes
  MaxMessages,   \* messages that arrive
  MaxUpsets      \* crashes, lost connections and later saves

HealthAssumption ==
  /\ {ReportAge, ReportSkew, RateSamples, EndOfTime, MaxMessages, MaxUpsets} \subseteq Nat
  /\ RateWindow \in Nat \ {0} /\ RateSamples >= RateWindow + 2

VARIABLES
  time,
  collection,   \* the row: revision, whether readings are selected, and both reports
  collector,    \* the worker that collects
  controller,   \* the ingress with its brokers
  traffic,      \* the counters of the collector, and the samples of them
  lately,       \* when messages arrived, and when each part last did its work
  upsets

healthVars == <<time, collection, collector, controller, traffic, lately, upsets>>

Never == -1
NoReport == [revision |-> 0, status |-> "none", at |-> Never, selected |-> TRUE, connected |-> FALSE,
             received |-> 0, invalid |-> 0, elapsed |-> 0]
NoRoutes == [revision |-> 0, status |-> "none", at |-> Never, brokers |-> FALSE]
Started == [alive |-> TRUE, status |-> "starting", revision |-> 0, selected |-> TRUE, linked |-> TRUE,
            ahead |-> 0]

-----------------------------------------------------------------------------
(* Rates: the counters now, and as they were when the window began.        *)
Sample == [at |-> time, received |-> traffic.received, invalid |-> traffic.invalid]

Kept(samples) ==
  IF Len(samples) > RateSamples THEN SubSeq(samples, Len(samples) - RateSamples + 1, Len(samples)) ELSE samples

\* a sample goes once the next one is old enough to measure from
Pruned(samples) ==
  LET Stays(k) == Len(samples) - k < 2 \/ samples[k + 1].at > time - RateWindow
      from == CHOOSE k \in DOMAIN samples : Stays(k) /\ \A j \in 1 .. k - 1 : ~Stays(j)
  IN  SubSeq(samples, from, Len(samples))

\* one sample at most in a unit of time
Sampled ==
  Pruned(IF traffic.samples = << >> \/ traffic.samples[Len(traffic.samples)].at < time
         THEN Kept(Append(traffic.samples, Sample)) ELSE traffic.samples)

-----------------------------------------------------------------------------
(* The collector.                                                          *)
InForce(c, row) == c.alive /\ c.linked /\ c.status = "applied" /\ c.revision = row.revision
Routed(r, row) == r.alive /\ r.routes = row.revision /\ r.brokers

\* when each part last did its work, for the revision that is saved
Since(c, r, row) ==
  [lately EXCEPT !.inForce = IF InForce(c, row) THEN time ELSE @,
                 !.routed = IF Routed(r, row) THEN time ELSE @]

Report(c) ==
  [revision |-> c.revision, status |-> c.status, at |-> time + c.ahead, selected |-> c.selected,
   connected |-> c.linked,
   received |-> traffic.received - Sampled[1].received, invalid |-> traffic.invalid - Sampled[1].invalid,
   elapsed |-> time - Sampled[1].at]

\* the worker goes on as c, and stores its report if the row still has the revision it read;
\* a unit of time is that of one poll
Reports(c, revision) ==
  /\ c # collector \/ collection.collector.at < time + c.ahead
  /\ collector' = c /\ traffic' = [traffic EXCEPT !.samples = Sampled]
  /\ collection' = IF collection.revision = revision
                   THEN [collection EXCEPT !.collector = Report(c)] ELSE collection
  /\ lately' = [Since(c, controller, collection) EXCEPT
                  !.began = IF traffic.samples = << >> THEN time ELSE @]
  /\ UNCHANGED <<time, controller, upsets>>

Begin ==
  /\ collector.alive /\ collector.linked /\ collection.revision > 0
  /\ collector.revision # collection.revision \/ collector.status \in {"starting", "error"}
  /\ Reports([collector EXCEPT !.revision = collection.revision, !.status = "applying",
                               !.selected = collection.selected], collection.revision)

Prepare ==
  /\ collector.alive /\ collector.linked /\ collector.status = "applying"
  /\ Reports([collector EXCEPT !.status = "prepared"], collector.revision)

\* every poll ends with a report; a revision that changed names alone is adopted, and routes that
\* are ready, or not needed, let messages in
Refresh ==
  /\ collector.alive /\ collector.linked /\ collector.status \in {"prepared", "applied"}
  /\ collector.revision = collection.revision \/ collector.selected = collection.selected
  /\ LET ready == collection.ingress.revision = collection.revision /\ collection.ingress.status = "applied"
     IN  Reports([collector EXCEPT !.revision = collection.revision,
                                   !.status = IF ready \/ ~collection.selected THEN "applied" ELSE @],
                 collection.revision)

\* anything that fails is reported and tried again
Fail ==
  /\ collector.alive /\ ~collector.linked /\ collector.revision > 0
  /\ Reports([collector EXCEPT !.status = "error"], collector.revision)

Receive ==
  /\ collector.alive /\ collector.linked /\ collector.status # "starting"
  /\ traffic.received < MaxMessages
  /\ \E bad \in IF collector.status = "applied" THEN {0, 1} ELSE {0} :
       traffic' = [traffic EXCEPT !.received = @ + 1, !.invalid = @ + bad]
  /\ lately' = [lately EXCEPT !.received = time]
  /\ UNCHANGED <<time, collection, collector, controller, upsets>>

-----------------------------------------------------------------------------
(* The ingress: routes are configured once the collector listens for them. *)
Route ==
  LET listens == /\ collection.collector.revision = collection.revision
                 /\ collection.collector.status \in {"prepared", "applied"}
      routes == IF listens \/ ~collection.selected THEN collection.revision ELSE controller.routes
      r == [controller EXCEPT !.routes = routes]
  IN  /\ controller.alive /\ collection.revision > 0 /\ controller' = r
      /\ r # controller \/ collection.ingress.at < time
      /\ collection' = [collection EXCEPT !.ingress =
           [revision |-> collection.revision, at |-> time, brokers |-> controller.brokers,
            status |-> IF routes = collection.revision THEN "applied" ELSE "connecting"]]
      /\ lately' = Since(collector, r, collection)
      /\ UNCHANGED <<time, collector, traffic, upsets>>

-----------------------------------------------------------------------------
(* What goes wrong, and what is changed.                                   *)
\* the first catalogue selects readings, a later one may select none
SaveCatalogue ==
  /\ upsets' = IF collection.revision = 0 THEN upsets ELSE upsets + 1
  /\ upsets' <= MaxUpsets
  /\ \E selected \in IF collection.revision = 0 THEN {TRUE} ELSE BOOLEAN :
       collection' = [collection EXCEPT !.revision = @ + 1, !.selected = selected]
  /\ lately' = [lately EXCEPT !.inForce = Never, !.routed = Never]
  /\ UNCHANGED <<time, collector, controller, traffic>>

\* a connection to a broker or the database is lost, or a process ends
Upset ==
  /\ collection.revision > 0 /\ upsets < MaxUpsets /\ upsets' = upsets + 1
  /\ \/ /\ collector.alive /\ collector.linked
        /\ collector' \in {[collector EXCEPT !.linked = FALSE], [collector EXCEPT !.alive = FALSE]}
        /\ UNCHANGED controller
     \/ /\ controller.alive /\ controller.brokers
        /\ controller' \in {[controller EXCEPT !.brokers = FALSE], [controller EXCEPT !.alive = FALSE]}
        /\ UNCHANGED collector
  /\ UNCHANGED <<time, collection, traffic, lately>>

\* it is back: a worker that lost its broker, or starts again, knows nothing of what it applied
Recover ==
  /\ \/ /\ ~collector.alive /\ collector' = [Started EXCEPT !.ahead = collector.ahead]
        /\ traffic' = [received |-> 0, invalid |-> 0, samples |-> << >>] /\ UNCHANGED controller
     \/ /\ collector.alive /\ ~collector.linked
        /\ collector' = [collector EXCEPT !.linked = TRUE, !.status = "starting"]
        /\ UNCHANGED <<controller, traffic>>
     \/ /\ controller' = [controller EXCEPT !.brokers = TRUE, !.alive = TRUE,
                                            !.routes = IF controller.alive THEN @ ELSE 0]
        /\ controller' # controller /\ UNCHANGED <<collector, traffic>>
  /\ lately' = Since(collector', controller', collection)
  /\ UNCHANGED <<time, collection, upsets>>

Tick ==
  /\ collection.revision > 0 /\ time < EndOfTime /\ time' = time + 1
  /\ lately' = [lately EXCEPT !.inForce = IF InForce(collector, collection) THEN time' ELSE @,
                              !.routed = IF Routed(controller, collection) THEN time' ELSE @]
  /\ UNCHANGED <<collection, collector, controller, traffic, upsets>>

-----------------------------------------------------------------------------
(* The verdict.                                                            *)
\* as mutated: only a report from too far ahead is refused
FreshlyWritten(report) == report.at # Never /\ time - report.at >= -ReportSkew

Fresh(report) ==
  report.at # Never /\ time - report.at >= -ReportSkew /\ time - report.at <= ReportAge

\* as mutated: a report of the routes counts whatever revision it is of
AnyRoutes(routes) == routes.status = "applied"

RoutesReady(routes) == routes.revision = collection.revision /\ routes.status = "applied"

\* the first check that fails, in the order in which one rests on the other
Verdict ==
  LET report == collection.collector
      routes == collection.ingress
  IN  IF collection.revision = 0 THEN "not_configured"
      ELSE IF ~Fresh(report) THEN "worker_not_reporting"
      ELSE IF ~report.connected THEN "disconnected"
      ELSE IF report.status = "error" THEN "collection_error"
      ELSE IF report.revision # collection.revision THEN "applying_changes"
      ELSE IF ~report.selected /\ report.status = "applied" THEN "paused"
      ELSE IF ~Fresh(routes) THEN "broker_controller_not_reporting"
      ELSE IF ~RoutesReady(routes) THEN "broker_routes_not_ready"
      ELSE IF report.status # "applied" THEN "applying_changes"
      ELSE IF ~routes.brokers THEN "broker_disconnected"
      ELSE IF report.elapsed = 0 THEN "measuring_traffic"
      ELSE IF report.invalid > 0 THEN "invalid_payloads"
      ELSE IF report.received = 0 THEN "connected_but_quiet" ELSE "collecting"

Init ==
  /\ time = 0 /\ upsets = 0
  /\ collection = [revision |-> 0, selected |-> FALSE, collector |-> NoReport, ingress |-> NoRoutes]
  /\ collector \in {[Started EXCEPT !.ahead = ahead] : ahead \in 0 .. ReportSkew}
  /\ controller = [alive |-> TRUE, routes |-> 0, brokers |-> TRUE]
  /\ traffic = [received |-> 0, invalid |-> 0, samples |-> << >>]
  /\ lately = [received |-> Never, inForce |-> Never, routed |-> Never, began |-> Never]

Next ==
  \/ Begin \/ Prepare \/ Refresh \/ Fail \/ Receive \/ Route \/ SaveCatalogue \/ Upset \/ Recover \/ Tick

Spec == Init /\ [][Next]_healthVars

-----------------------------------------------------------------------------
(* Whatever verdict on the traffic is given, the saved revision, and no    *)
(* other, was in force at both workers as recently as reports may be old;  *)
(* what collects has received something in the time that rates measure,    *)
(* and what is called quiet has not, in the whole window or since the      *)
(* worker began (diagnose_collection, CollectionDiagnostics.snapshot).     *)
VerdictTrue ==
  LET report == collection.collector
      reported == report.at - collector.ahead
      whole == IF reported - lately.began < RateWindow THEN reported - lately.began ELSE RateWindow
  IN  /\ Verdict \in {"measuring_traffic", "invalid_payloads", "connected_but_quiet",
                      "collecting"} =>
           /\ lately.inForce # Never /\ time - lately.inForce <= ReportAge + ReportSkew
           /\ lately.routed # Never /\ time - lately.routed <= ReportAge
      /\ Verdict \in {"collecting", "invalid_payloads"} =>
           lately.received >= reported - report.elapsed
      /\ Verdict = "connected_but_quiet" /\ lately.began <= reported =>
           ~(reported - whole < lately.received /\ lately.received < reported)
=============================================================================
