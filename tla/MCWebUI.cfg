SPECIFICATION WebSpec
CONSTANTS
  SessionPipelines = {"A", "B"}
  RawPipelines = {"A"}
  JoinPipelines = {"A"}
  NotConfigured = NotConfigured
  NoPage = NoPage
  MaxSaves = 2
  MaxVisits = 2
  MaxJobs = 2
  p1 = p1
  p2 = p2
  r1 = r1
  g1 = g1
  g2 = g2
  Root = Root
  Absent = Absent
  Rules = {r1}
  Groups = {g1, g2}
  MaxGroupDepth = 2
  MaxEdits = 6
  MaxInFlight = 2
  Pipelines = {p1}
  StreamStatuses = {"active", "stopping"}
  NoStatus = NoStatus
  Conns = {c1, c2}
  NoConn = NoConn
  MaxReconnectAttempts = 2
  MaxStrayTimers = 0
  MaxBuffered = 1
  TrackedPipelines = {q}
  Trackers = {k1, k2}
  NoTracker = NoTracker
  MaxErrors = 1
  MaxTicks <- TicksOf
  OperationBounds <- TwoOperations
  TopicNames = {t1, t2}
  MaxSchema = 2
  FiltersEnabled = TRUE
  TransformationsEnabled = TRUE
  PreviewModeEnabled = TRUE
  MaxPending = 1
  MaxMoves = 2
  TopicCounts = {1, 2}
  Nowhere = Nowhere
SYMMETRY Symmetric
INVARIANTS TabConsistent UnsentIsAnothers
  TransitionIsFollowed TreeSound VerdictIsCurrent
  NoStepSkipped NothingStale  ShownIsDeployed
   TransformKeepsMeaning ConfigIsKept
CHECK_DEADLOCK FALSE
