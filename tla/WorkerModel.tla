----------------------------- MODULE WorkerModel -----------------------------
(***************************************************************************)
(* What becomes of a reading: the supervisor of the brokers and the writer *)
(* of the collector, the message path of a worker, the vectors it aligns   *)
(* its readings to, the model that observes them, the story of its run,    *)
(* and what members are shown of it, live, as a chart of the evidence and  *)
(* as alarms.  Each is described in a module of its own; here are their    *)
(* parameters and what they keep.                                          *)
(***************************************************************************)
EXTENDS Integers, Sequences, FiniteSets

CONSTANTS
  Telemetry, BatchSize, MaxAttempts, MaxTroubles,               \* TelemetryWriter
  Broker, Attempt, NoAttempt, MaxInbox, MaxEvents,              \* BrokerSupervision
  QueueLimit, MaxStarts, Budget,                                \* RadarWorker
  MaxPending, MaxChecks, MaxLosses,                             \* RunEvents
  Sensor, Charger, MaxChargers, Freshness, MaxAge, Tolerance, MaxSkew, Ttl, CleanupInterval,
  MaxTime, MaxUpdates,                                          \* SensorAlignment
  Detectors, TrainingWindow, CalibrationWindow, Warmup, Horizon, MaxSeen, MaxMishaps, \* DetectorRun
  Stream, Brokers, Home, Document, Scopes, Lease, MaxLeases, MaxStreams, MaxConnections,
  MaxSamples, LeaseTime, ConnectTimeout, History, MaxClock, MaxInputs,               \* LiveView
  Writer, PageSize, MaxInstant, MaxStored,                                           \* EvidenceReads
  Listable, Multi, Raisable, Question, Unlimited, PageLimit, AlarmTimes, MaxAlarms   \* Alarms

VARIABLES
  bad, offered, pending, batch, isolate, attempt, wloop, shut, owned, draining, stored,
  rejected, troubles,
  sources, attempts, clients, deadlines, retries, quiet, states, reach, inbox, bytes,
  output, sending, events,
  svc, halt, fatal, fenced, net, linked, future, ensure, retry, queue, handler, saver,
  lock, step, n, cap, snap, starts, faults,
  checks, losses, known, recent, started, stage, reason, waiting, recorded, overflow,
  beat, suspended, report, table, unsaved,
  now, readings, watermarks, versions, update, cleaned, vector, image,
  strategy, d, fit, dead, frozen, seen, mishaps,
  clock, system, live, view, inputs,
  instant, watermark, inserts, evidence, chart,
  alarms, fresh, removal, listing

TW == INSTANCE TelemetryWriter WITH Record <- Telemetry
BS == INSTANCE BrokerSupervision
RW == INSTANCE RadarWorker
RE == INSTANCE RunEvents
SA == INSTANCE SensorAlignment
DR == INSTANCE DetectorRun
LV == INSTANCE LiveView WITH saved <- system
ER == INSTANCE EvidenceReads
AL == INSTANCE Alarms

ASSUME ModelAssumption ==
  /\ TW!WriterAssumption /\ BS!SupervisionAssumption /\ RW!WorkerAssumption
  /\ RE!EventsAssumption /\ SA!AlignmentAssumption /\ DR!DetectorAssumption
  /\ LV!LiveAssumption /\ ER!ReadsAssumption /\ AL!AlarmsAssumption
=============================================================================
