SPECIFICATION FairSpec
CONSTANTS
    Workers = {w1, w2}
    Callers = {c1}
    Hold = 1
    OtherFrozen = 0
    MaxRetries = 2
    FaultKinds = {"crash", "stall", "slow", "billing", "store", "redis", "provider"}
    MaxFaults = 1
    MaxCalls = 1
PROPERTY HoldIsSettled
CHECK_DEADLOCK FALSE
