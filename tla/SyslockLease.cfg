SPECIFICATION Spec
CONSTANTS
    Ops = {o1, o2}
    Fingerprints = {o1, o2}
    OpId <- OwnId
    Lease = 3
    RenewInterval = 1
    TTL = 3
    MaxClaim = 0
    MaxHold = 8
    MaxFails = 1
    MaxTime = 8
INVARIANT Exclusive
SYMMETRY Symmetry
CHECK_DEADLOCK FALSE
