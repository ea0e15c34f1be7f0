SPECIFICATION FairWebSpec
CONSTANTS
  SessionPipelines = {"A", "B"}
  RawPipelines = {"A"}
  JoinPipelines = {"A"}
  NotConfigured = NotConfigured
  NoPage = NoPage
  MaxSaves = 2
  MaxVisits = 0
  MaxJobs = 2
  p1 = p1
  p2 = p2
  r1 = r1
  g1 = g1
  g2 = g2
  Root = Root
  Absent = Absent
  Rules = {r1}
  Groups = {g1}
  MaxGroupDepth = 2
  MaxEdits = 5
  MaxInFlight = 2
  Pipelines = {p1, p2}
  StreamStatuses = {"active"}
  NoStatus = NoStatus
  Conns = {c1}
  NoConn = NoConn
  MaxReconnectAttempts = 2
  MaxStrayTimers = 1
  MaxBuffered = 1
  TrackedPipelines = {p1}
  Trackers = {k1, k2}
  NoTracker = NoTracker
  MaxErrors = 1
  MaxTicks <- TicksOf
  OperationBounds <- OneOperation
  TopicNames = {t1, t2}
  MaxSchema = 1
  FiltersEnabled = TRUE
  TransformationsEnabled = TRUE
  PreviewModeEnabled = TRUE
  MaxPending = 1
  MaxMoves = 0
  TopicCounts = {1}
  Nowhere = Nowhere
PROPERTIES StreamsEnd Reconnects LoadingEnds ValidationEnds
CHECK_DEADLOCK FALSE
