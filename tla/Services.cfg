SPECIFICATION Spec
CONSTANTS
  Telemetry = {r1, r2, r3}
  BatchSize = 2
  MaxAttempts = 2
  MaxTroubles = 1
  Broker = {b1}
  Attempt = {a1, a2, a3}
  NoAttempt = NoAttempt
  MaxInbox = 1
  MaxEvents = 1
  QueueLimit = 1
  MaxStarts = 2
  Budget = 2
  Sensor = {s1, s2}
  Charger = {c1, c2}
  MaxChargers = 1
  Freshness = 1
  MaxAge = 1
  Tolerance = 0
  MaxSkew = 1
  Ttl = 1
  CleanupInterval = 1
  MaxTime = 2
  MaxUpdates = 3
  MaxPending = 2
  MaxChecks = 3
  MaxLosses = 1
  Slot = {"x"}
  Designs <- MCDesigns
  Readings <- MCReadings
  MaxObservations = 3
  Detectors = 2
  TrainingWindow = 2
  CalibrationWindow = 1
  Warmup = 1
  Horizon = 2
  MaxSeen = 6
  MaxMishaps = 2
  Service = {m1, m2, f1, f2}
  NoService = NoService
  Monitors = {m1, m2}
  Form = {m1}
  Legacy = {m2}
  Revision = {v1}
  MaxBreaks = 1
  MaxAborts = 1
  Stream = {"s1", "s2", "s3"}
  Brokers = {1, 2}
  Home <- MCHome
  Document <- MCDocument
  Scopes <- MCScopes
  Lease = {v1, v2}
  MaxLeases = 2
  MaxStreams = 3
  MaxConnections = 1
  MaxSamples = 1
  LeaseTime = 2
  ConnectTimeout = 1
  History = 0
  MaxClock = 2
  MaxInputs = 4
  Ranges <- MCRanges
  Values <- MCValues
  Operands <- MCOperands
  Operations <- MCOperations
  MaxDepth = 3
  MaxOperations = 2
  User = {u1, u2}
  Custom = {"engineer"}
  Secret = {k1, k2}
  MaxVersion = 3
  MaxRequests = 7
  Headers <- MCHeaders
  Long <- MCLong
  Catalogues <- MCCatalogues
  MaxStamp = 2
  MaxPoints = 4
  MaxSeries = 3
  CopyBatch = 2
  MaxLines = 4
  MaxChanges = 2
  Author = {m1, m2}
  Instants = {0, 1, 2, 3}
  Span <- MCSpan
  MaxLabels = 2
  Draft = {"good", "broken"}
  Compiles = {"good"}
  Histories <- MCHistories
  Limit = 1
  MaxEdits = 3
  Releases <- MCReleases
  Baseline = 1
  Maintenance = 2
  System = 3
  Conversion = 4
  Reads = {5}
  MaxRuns = 2
  MaxRetries = 2
  Table = {"telemetry", "evidence"}
  Settings <- MCSettings
  Schedule = {"daily"}
  Default = "hourly"
  MaxDay = 2
  MaxRows = 2
  MaxTouches = 2
  Editor = {e1, e2}
  Documents <- MCDocuments
  FirstCatalogue <- MCFirstCatalogue
  RuleScopes <- MCRuleScopes
  Monitor = {m1, m2}
  MaxWrites = 3
  Owner = {m1, m2, f1}
  Requested <- MCRequested
  Earlier <- MCEarlier
  Level = {"telemetry", "e", "a", "b"}
  MaxLevels = 4
  AcceptedTopic <- MCAccepted
  Malformed = {"", "x+"}
  MaxActive = 2
  ReportAge = 1
  ReportSkew = 1
  RateWindow = 1
  RateSamples = 3
  EndOfTime = 2
  MaxMessages = 1
  MaxUpsets = 1
  Writer = {1, 2}
  PageSize = 1
  MaxInstant = 1
  MaxStored = 3
  Listable <- MCListable
  Multi = "multi"
  Raisable <- MCRaisable
  Question <- MCQuestion
  Unlimited = Unlimited
  PageLimit = 1
  AlarmTimes = {0, 1}
  MaxAlarms = 2
  Starrable = {x1, x2, x3}
  Addition = {1, 2}
  MaxFavorites = 2
INVARIANTS NothingLost ShownTruly ModelKept ComputedRight StaysOperable
PROPERTIES EveryStepSound ServicesProgress
CHECK_DEADLOCK FALSE
