SPECIFICATION Spec
CONSTANTS
    p1 = p1  c1 = c1  s1 = s1  s2 = s2  w1 = w1  w2 = w2  w3 = w3  p2 = p2  c2 = c2
    Nobody = Nobody  NoPipeline = NoPipeline
    Pipelines = {p1}
    Clients = {c1}
    Cleaners = {s1, s2}
    Watchers = {w1, w2, w3}
    NI = 1
    HasJoin = TRUE
    Ops <- AllOps
    MaxRequests = 3
    MaxFaults = 1
    MaxFailures = 1
    MaxCrashes = 1
SYMMETRY Symmetry
INVARIANTS
    NothingRunsWhenIdle
    StoppedIsInactive
PROPERTIES
    DrainedStop
    StatusFollowsMatrix
CHECK_DEADLOCK FALSE
