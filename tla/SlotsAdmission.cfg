SPECIFICATION Spec
CONSTANTS
    r1 = r1
    r2 = r2
    r3 = r3
    i1 = i1
    i2 = i2
    Requests = {r1, r2, r3}
    LiveRequests = {r3}
    Instances = {i1, i2}
    Home <- TwoHomes
    Max <- Limits
    Queue <- Queues
    FaultKinds = {"redis", "lost", "crash", "slow"}
    MaxFaults = 1
INVARIANTS TypeOK CapIsKept QueueIsBounded NothingLeaks
CHECK_DEADLOCK FALSE
