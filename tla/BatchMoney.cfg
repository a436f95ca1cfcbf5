SPECIFICATION Spec
CONSTANTS
    Workers = {w1, w2}
    Callers = {c1}
    Hold = 2
    OtherFrozen = 2
    MaxRetries = 2
    FaultKinds = {"crash", "stall", "slow", "billing", "store", "redis", "provider"}
    MaxFaults = 3
    MaxCalls = 1
INVARIANTS TypeOK HoldLeavesOnce CompletedIsCharged SubmittedIsHeld FrozenIsInHand
SYMMETRY Symmetry
CHECK_DEADLOCK FALSE
