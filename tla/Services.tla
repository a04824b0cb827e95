------------------------------- MODULE Services -------------------------------
(***************************************************************************)
(* The parts of the system that are modelled one by one, side by side: a   *)
(* behaviour is a behaviour of one of them, whose turn it is, while the    *)
(* others stay as they begin.  What they promise together is stated here,  *)
(* by theme; each part is described in its own module, and WorkerModel and *)
(* Administration have some of them.                                       *)
(***************************************************************************)
EXTENDS WorkerModel, Administration

CONSTANTS
  Slot, Designs, Readings, MaxObservations,                                    \* PreparedStage
  Ranges, Values, Operands, Operations, MaxDepth, MaxOperations,               \* Formula
  Headers, Long, Catalogues, MaxStamp, MaxPoints, MaxSeries, CopyBatch, MaxLines,
  MaxChanges,                                                                  \* Datasets
  Instants, Span, MaxLabels                                                    \* DatasetLabels

VARIABLES
  turn,
  design, plan, kept, undo, result, log, saved,
  code, ranges,
  catalogue, telemetry, job, file, dataset, changes,
  labels, labelling, results

PS == INSTANCE PreparedStage WITH stage <- kept, image <- saved
FO == INSTANCE Formula
DS == INSTANCE Datasets
DL == INSTANCE DatasetLabels

ASSUME PartsAssumption == DS!DatasetsAssumption /\ DL!LabelsAssumption

writerVars ==
  <<bad, offered, pending, batch, isolate, attempt, wloop, shut, owned, draining, stored,
    rejected, troubles>>
brokersVars ==
  <<sources, attempts, clients, deadlines, retries, quiet, states, reach, inbox, bytes,
    output, sending, events>>
workerVars ==
  <<svc, halt, fatal, fenced, net, linked, future, ensure, retry, queue, handler, saver,
    lock, step, n, cap, snap, starts, faults>>
alignmentVars ==
  <<now, readings, watermarks, versions, update, cleaned, vector, image>>
prepareVars ==
  <<design, plan, kept, undo, result, log, saved>>
detectorVars ==
  <<strategy, d, fit, dead, frozen, seen, mishaps>>
releaseVars ==
  <<op, service, captured, command, halted, told, untold, breaks, aborts>>
eventsVars ==
  <<checks, losses, known, recent, started, stage, reason, waiting, recorded, overflow,
    beat, suspended, report, table, unsaved>>

liveVars == <<clock, system, live, view, inputs>>
formulaVars == <<code, ranges>>
membersVars == <<users, roles, sessions, signin, rotation, revoking, requests>>
datasetsVars == <<catalogue, telemetry, job, file, dataset, changes>>
labelsVars == <<labels, labelling, results>>
libraryVars == <<row, revisions, layout, loaded, write, edits, page>>
migrationVars == <<db, was, tx, runs, sync>>
retentionVars == <<today, rows, jobs, capping, settings, arrived, touches>>
catalogueVars == <<written, runtime, viewed, edit, monitors, reserved>>
topicsVars == <<claims, refused>>
healthVars == <<time, collection, collector, controller, traffic, lately, upsets>>
chartsVars == <<instant, watermark, inserts, evidence, chart>>
alarmsVars == <<alarms, fresh, removal, listing>>
favoritesVars == <<favorites, additions>>

vars == <<turn, writerVars, brokersVars, workerVars, alignmentVars, eventsVars,
          prepareVars, detectorVars, releaseVars, liveVars, formulaVars,
          membersVars, datasetsVars, labelsVars, libraryVars, migrationVars, retentionVars,
          catalogueVars, topicsVars, healthVars, chartsVars, alarmsVars, favoritesVars>>

\* A part that does not move is not there: most begin as 0, and those that EveryStepSound is about in
\* one of their states.
NoWriter ==
  /\ bad = 0 /\ offered = 0 /\ pending = 0 /\ batch = 0 /\ isolate = 0 /\ attempt = 0
  /\ wloop = 0 /\ shut = 0 /\ owned = 0 /\ draining = 0 /\ stored = 0 /\ rejected = 0
  /\ troubles = 0
NoBrokers ==
  /\ sources = 0 /\ attempts = 0 /\ clients = 0 /\ deadlines = 0 /\ retries = 0
  /\ quiet = 0 /\ states = 0 /\ reach = 0 /\ inbox = 0 /\ bytes = 0 /\ output = 0 /\ sending = 0
  /\ events = 0
NoWorker ==
  /\ svc = 0 /\ halt = 0 /\ fatal = 0 /\ fenced = 0 /\ net = 0 /\ linked = 0
  /\ future = 0 /\ ensure = 0 /\ retry = 0 /\ queue = 0 /\ handler = 0 /\ saver = 0 /\ lock = 0
  /\ step = 0 /\ n = 0 /\ cap = 0 /\ snap = 0 /\ starts = 0 /\ faults = 0
NoEvents ==
  /\ checks = 0 /\ losses = 0 /\ known = 0 /\ recent = 0 /\ started = 0 /\ stage = 0
  /\ reason = 0 /\ waiting = 0 /\ recorded = 0 /\ overflow = 0 /\ beat = 0 /\ suspended = 0
  /\ report = 0 /\ table = 0 /\ unsaved = 0
NoPrepare ==
  /\ design = 0 /\ plan = 0 /\ kept = 0 /\ undo = 0 /\ result = 0 /\ log = 0
  /\ saved = 0
NoDetector ==
  /\ strategy = 0 /\ d = 0 /\ fit = 0 /\ dead = 0 /\ frozen = 0 /\ seen = 0
  /\ mishaps = 0
NoRelease ==
  /\ op = 0 /\ service = 0 /\ captured = 0 /\ command = 0 /\ halted = 0 /\ told = 0
  /\ untold = 0 /\ breaks = 0 /\ aborts = 0
NoFormula == code = 0 /\ ranges = 0
NoDatasets ==
  /\ catalogue = 0 /\ telemetry = 0 /\ job = 0 /\ file = 0 /\ dataset = 0
  /\ changes = 0
NoLabels == labels = 0 /\ labelling = 0 /\ results = 0
NoLibrary ==
  /\ row = 0 /\ revisions = 0 /\ layout = 0 /\ loaded = 0 /\ write = 0 /\ edits = 0
  /\ page = 0
NoMigration == db = 0 /\ was = 0 /\ tx = 0 /\ runs = 0 /\ sync = 0
NoTopics == claims = 0 /\ refused = 0
NoHealth ==
  /\ time = 0 /\ collection = 0 /\ collector = 0 /\ controller = 0 /\ traffic = 0
  /\ lately = 0 /\ upsets = 0
NoCharts == instant = 0 /\ watermark = 0 /\ inserts = 0 /\ evidence = 0 /\ chart = 0
NoAlarms == alarms = 0 /\ fresh = 0 /\ removal = 0 /\ listing = 0
NoFavorites == favorites = 0 /\ additions = 0

Init ==
  /\ turn \in {"writer", "brokers", "worker", "alignment", "events", "prepare", "detector",
              "release", "live", "formula", "members", "datasets", "labels", "library",
              "migration", "retention", "catalogue", "topics", "health", "charts", "alarms",
              "favorites"}
  /\ IF turn = "writer" THEN bad \in SUBSET Telemetry /\ TW!Init ELSE NoWriter
  /\ IF turn = "brokers" THEN BS!Init ELSE NoBrokers
  /\ IF turn = "worker" THEN RW!Init ELSE NoWorker
  /\ IF turn = "events" THEN losses \in 0 .. MaxLosses /\ RE!Init ELSE NoEvents
  /\ IF turn = "prepare" THEN design \in Designs /\ PS!Init ELSE NoPrepare
  /\ IF turn = "detector" THEN strategy \in {"static", "adaptive"} /\ DR!Init ELSE NoDetector
  /\ IF turn = "release" THEN RD!Init ELSE NoRelease
  /\ IF turn = "formula" THEN ranges \in Ranges /\ code \in FO!Leaves /\ FO!Init ELSE NoFormula
  /\ IF turn = "datasets" THEN catalogue \in Catalogues /\ DS!Init ELSE NoDatasets
  /\ IF turn = "labels" THEN DL!Init ELSE NoLabels
  /\ IF turn = "library" THEN PL!Init ELSE NoLibrary
  /\ IF turn = "migration" THEN MI!Init ELSE NoMigration
  /\ IF turn = "topics" THEN TC!Init ELSE NoTopics
  /\ IF turn = "health" THEN CH!Init ELSE NoHealth
  /\ IF turn = "charts" THEN ER!Init ELSE NoCharts
  /\ IF turn = "alarms" THEN AL!Init ELSE NoAlarms
  /\ IF turn = "favorites" THEN FV!Init ELSE NoFavorites
  /\ SA!Init /\ LV!Init /\ ME!Init /\ CA!Init
  /\ RT!Init /\ (turn = "retention" \/ settings = CHOOSE x \in Settings : TRUE)

\* One part moves.
Alone(part, A) ==
  /\ turn = part /\ A /\ UNCHANGED turn
  /\ IF part = "writer" THEN TRUE ELSE UNCHANGED writerVars
  /\ IF part = "brokers" THEN TRUE ELSE UNCHANGED brokersVars
  /\ IF part = "worker" THEN TRUE ELSE UNCHANGED workerVars
  /\ IF part = "alignment" THEN TRUE ELSE UNCHANGED alignmentVars
  /\ IF part = "events" THEN TRUE ELSE UNCHANGED eventsVars
  /\ IF part = "prepare" THEN TRUE ELSE UNCHANGED prepareVars
  /\ IF part = "detector" THEN TRUE ELSE UNCHANGED detectorVars
  /\ IF part = "release" THEN TRUE ELSE UNCHANGED releaseVars
  /\ IF part = "live" THEN TRUE ELSE UNCHANGED liveVars
  /\ IF part = "formula" THEN TRUE ELSE UNCHANGED formulaVars
  /\ IF part = "members" THEN TRUE ELSE UNCHANGED membersVars
  /\ IF part = "datasets" THEN TRUE ELSE UNCHANGED datasetsVars
  /\ IF part = "labels" THEN TRUE ELSE UNCHANGED labelsVars
  /\ IF part = "library" THEN TRUE ELSE UNCHANGED libraryVars
  /\ IF part = "migration" THEN TRUE ELSE UNCHANGED migrationVars
  /\ IF part = "retention" THEN TRUE ELSE UNCHANGED retentionVars
  /\ IF part = "catalogue" THEN TRUE ELSE UNCHANGED catalogueVars
  /\ IF part = "topics" THEN TRUE ELSE UNCHANGED topicsVars
  /\ IF part = "health" THEN TRUE ELSE UNCHANGED healthVars
  /\ IF part = "charts" THEN TRUE ELSE UNCHANGED chartsVars
  /\ IF part = "alarms" THEN TRUE ELSE UNCHANGED alarmsVars
  /\ IF part = "favorites" THEN TRUE ELSE UNCHANGED favoritesVars

Next ==
  \/ Alone("writer", TW!Next) \/ Alone("brokers", BS!Next) \/ Alone("worker", RW!Next)
  \/ Alone("alignment", SA!Next) \/ Alone("events", RE!Next) \/ Alone("prepare", PS!Next)
  \/ Alone("detector", DR!Next) \/ Alone("release", RD!Next) \/ Alone("live", LV!Next)
  \/ Alone("formula", FO!Next) \/ Alone("members", ME!Next) \/ Alone("datasets", DS!Next)
  \/ Alone("labels", DL!Next) \/ Alone("library", PL!Next) \/ Alone("migration", MI!Next)
  \/ Alone("retention", RT!Next) \/ Alone("catalogue", CA!Next) \/ Alone("topics", TC!Next)
  \/ Alone("health", CH!Next) \/ Alone("charts", ER!Next) \/ Alone("alarms", AL!Next)
  \/ Alone("favorites", FV!Next)

\* The fairness of each part, as its module states it.  As the turn never changes, one condition
\* stands for one of every part, about the variables of the part that moves.
moving ==
  CASE turn = "writer"   -> writerVars
    [] turn = "brokers"  -> brokersVars
    [] turn = "worker"   -> workerVars
    [] turn = "detector" -> detectorVars
    [] OTHER             -> << >>

First ==
  /\ \/ turn = "writer" /\ TW!Work
     \/ turn = "brokers" /\ BS!Upkeeping
     \/ turn = "worker" /\ (RW!Ensure \/ RW!Reconnect \/ RW!ReconnectReturns)
     \/ turn = "detector" /\ DR!FitEnds
  /\ UNCHANGED turn

Second ==
  /\ \/ turn = "writer" /\ ~owned /\ TW!Cancel
     \/ turn = "worker" /\ RW!Suback
     \/ turn = "detector" /\ DR!Refresh
  /\ UNCHANGED turn

Spec ==
  /\ Init /\ [][Next]_vars
  /\ WF_moving(First) /\ WF_moving(Second)
  /\ \A b \in Broker : WF_moving(turn = "brokers" /\ BS!Reachable(b) /\ UNCHANGED turn)
  /\ SF_moving(turn = "brokers" /\ (\E a \in Attempt : BS!InCharge(a) /\ BS!Connected(a)) /\ UNCHANGED turn)
  /\ SF_moving(turn = "brokers" /\ (\E a \in Attempt : BS!InCharge(a) /\ BS!Subscribed(a)) /\ UNCHANGED turn)

-----------------------------------------------------------------------------
(* What came in is accounted for: every row of the collector, message and  *)
(* observation of a worker and event of a run is held, stored, or counted  *)
(* among those given up, within the bounds of what holds it; a live page   *)
(* lacks nothing that is current; no row and no alarm falls between the    *)
(* pages of one who reads on; and no change of a design is lost to one who *)
(* has not seen it.                                                        *)
NothingLost ==
  CASE turn = "writer"   -> TW!WriterTypeOK /\ TW!Accounted /\ TW!Bounded
    [] turn = "brokers"  -> BS!SupervisionTypeOK /\ BS!QueueCounted
    [] turn = "worker"   -> RW!WorkerTypeOK /\ RW!EveryMessage /\ RW!EvidenceFirst
    [] turn = "events"   -> RE!EventsTypeOK /\ RE!NoEventForgotten /\ RE!WaitingInOrder
    [] turn = "detector" -> DR!DetectorTypeOK /\ DR!EveryObservation
    [] turn = "live"     -> LV!LiveTypeOK /\ LV!ViewComplete
    [] turn = "charts"   -> ER!ChartWhole
    [] turn = "alarms"   -> AL!AlarmsListed
    [] turn = "library"  -> PL!OverWhatWasSeen /\ PL!VersionsTrue /\ PL!PublishedOnce
    [] OTHER             -> TRUE

(* What is shown is true: a broker shown as connected is, none is left to  *)
(* itself, a worker that missed a message shows a gap, one that is shown   *)
(* as healthy has no alert, alarms are counted once, the live view         *)
(* observes what is leased and nothing else, the labels of a dataset lie   *)
(* apart, the pages of a design's revisions are whole, a database that is  *)
(* shown as ready is current, the verdict on the collection is about what  *)
(* is saved and about what is so now, and a reading that is offered has    *)
(* the alarms it is offered with.  What is written down is true as well:   *)
(* the ledger of a database tells its schema, and under the name of a      *)
(* topic a message finds the one reading, of the one monitor, that is      *)
(* meant.                                                                  *)
ShownTruly ==
  CASE turn = "brokers"  -> BS!ShownTruly /\ BS!NoneForgotten
    [] turn = "worker"   -> RW!MissedIsShown
    [] turn = "events"   -> RE!ShownHealthy
    [] turn = "detector" -> DR!AlarmsCounted
    [] turn = "live"     -> LV!LiveTruly /\ LV!WorkersLeased
    [] turn = "labels"   -> DL!LabelsApart
    [] turn = "library"  -> PL!PagesWhole
    [] turn = "migration" -> MI!ReadyIsCurrent /\ MI!LedgerTrue /\ MI!RunOnceInOrder
    [] turn = "topics"   -> TC!TopicsApart /\ TC!ReadingsFound
    [] turn = "health"   -> CH!VerdictTrue
    [] turn = "alarms"   -> AL!ChoicesTrue
    [] OTHER             -> TRUE

(* A baseline is fitted once from the windows it was given, no detector    *)
(* scores before it learned enough, no snapshot holds a state that is      *)
(* uncertain, and none holds a reading newer than what was accepted.       *)
ModelKept ==
  CASE turn = "detector"  -> DR!BaselineKept /\ DR!AllWarm /\ DR!CertainSnapshots
    [] turn = "alignment" -> SA!AlignmentTypeOK /\ SA!WithinWatermarks
    [] OTHER              -> TRUE

(* What is computed from much data is right: a design that compiles is     *)
(* sound, its Prepare stage is what the observations that count make of    *)
(* it, what is said of a formula before it runs holds of every             *)
(* observation, a dataset holds the whole of what it was imported from,    *)
(* the outcome of a labelled run is what its labels and alarms say, and a  *)
(* walk through the history of a run passes every predecessor.             *)
ComputedRight ==
  CASE turn = "prepare"  -> PS!CompilesSoundly /\ PS!Traceless /\ PS!RemainingTrue /\ PS!WithinBounds
    [] turn = "formula"  -> FO!ReadAsMeant /\ FO!AnalysisSound
    [] turn = "datasets" -> DS!DatasetsTypeOK /\ DS!DatasetTrue /\ DS!WholeFile
    [] turn = "labels"   -> DL!MetricsTrue
    [] turn = "library"  -> PL!HistoryWalked
    [] OTHER             -> TRUE

(* Whatever is killed, repeated or done at once, the system can go on: no  *)
(* monitor is lost in a release or runs beside its replacement, somebody   *)
(* can manage the members, what a monitor reads is recorded as when it     *)
(* started, and what a member keeps is bounded.                            *)
StaysOperable ==
  CASE turn = "release" ->
         /\ RD!ReleaseTypeOK /\ RD!NoMonitorLost /\ RD!NeverTogether /\ RD!OneReplacement
         /\ RD!RunsSettled
    [] turn = "members"   -> ME!MembersTypeOK /\ ME!ManagerKept /\ ME!LinksFit /\ ME!OneInUse
    [] turn = "catalogue" -> CA!MonitorsFed /\ CA!RowsAgree
    [] turn = "favorites" -> FV!FewKept
    [] OTHER              -> TRUE

(* What no step does: what the detector is given never goes back in time,  *)
(* a live page whose samples were dropped is not told differences only,    *)
(* access that ended is not had again, only the oldest data is dropped, a  *)
(* start undoes no operator's schedule, and no edit of the catalogue       *)
(* records what nobody reviewed, goes unnoticed or takes another one back. *)
EveryStepSound ==
  /\ SA!VectorsAdvance /\ LV!GapsShown /\ ME!AccessEnds
  /\ RT!OldestGoes /\ RT!CapHolds /\ RT!SchedulesKept
  /\ CA!NewReadingsWait /\ CA!RevisionsTell /\ CA!OneChangeAtATime

\* What must not last: a drain that waits, a broker that is not recorded from, a worker without
\* its broker, a model that is being fitted.
Waiting ==
  CASE turn = "writer"   -> draining = "waiting"
    [] turn = "brokers"  -> \E b \in Broker : ~BS!Settled(b)
    [] turn = "worker"   -> svc = "running" /\ ~linked
    [] turn = "detector" -> d.phase = "training"
    [] OTHER             -> FALSE

(* A drain is answered, brokers that come back are recorded from, a worker *)
(* that lost its broker gets it back or ends, and a fit ends.              *)
ServicesProgress == Waiting ~> ~Waiting
=============================================================================
