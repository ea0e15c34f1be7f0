SPECIFICATION FairSpec
CONSTANTS
    p1 = p1  p2 = p2  c1 = c1  c2 = c2  s1 = s1  s2 = s2  w1 = w1  w2 = w2  w3 = w3
    Nobody = Nobody  NoPipeline = NoPipeline
    Pipelines = {p1}
    Clients = {c1}
    Cleaners = {s1}
    Watchers = {w1, w2, w3}
    NI = 1
    HasJoin = FALSE
    Ops <- StopResume
    MaxRequests = 2
    MaxFaults = 0
    MaxFailures = 0
    MaxCrashes = 0
PROPERTY RequestsReturn
CHECK_DEADLOCK FALSE
