SPECIFICATION Spec
CONSTANTS
    Requests = {r1, r2}
    Fingerprints = {f1, f2}
    TTL = 3
    ProcessingTimeout = 1
    FailedRetryBackoff = 1
    MaxStall = 3
    MaxTime = 4
INVARIANTS TypeOK ExecuteIsExclusive ExecutedOnceAtFirst ReplayIsFaithful
PROPERTY SucceededIsKept
SYMMETRY Symmetry
CHECK_DEADLOCK FALSE
