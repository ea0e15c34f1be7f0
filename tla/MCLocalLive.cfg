SPECIFICATION FairSpec
CONSTANTS
    p1 = p1  p2 = p2  c1 = c1  c2 = c2  s1 = s1  s2 = s2  w1 = w1  w2 = w2  w3 = w3
    Nobody = Nobody  NoPipeline = NoPipeline
    Pipelines = {p1}
    Clients = {c1, c2}
    Cleaners = {s1}
    Watchers = {w1, w2}
    NI = 1
    HasJoin = FALSE
    Ops <- StopOps
    MaxRequests = 3
    MaxFaults = 1
    MaxFailures = 1
    MaxCrashes = 0
INVARIANT StopInv
 
CHECK_DEADLOCK FALSE
