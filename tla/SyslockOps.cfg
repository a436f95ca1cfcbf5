SPECIFICATION Spec
CONSTANTS
    Ops = {o1, o2}
    Fingerprints = {o1, o2}
    OpId <- OwnId
    Lease = 4
    RenewInterval = 1
    TTL = 4
    MaxClaim = 1
    MaxHold = 6
    MaxFails = 1
    MaxTime = 6
INVARIANTS TypeOK LockIsExclusive HeldIsRenewed
SYMMETRY Symmetry
CHECK_DEADLOCK FALSE
