SPECIFICATION Spec
CONSTANTS
    Workers = {w1, w2}
    Callers = {c1}
    Hold = 1
    OtherFrozen = 1
    MaxRetries = 2
    FaultKinds = {"billing"}
    MaxFaults = 2
    MaxCalls = 1
INVARIANT OthersUntouched
SYMMETRY Symmetry
CHECK_DEADLOCK FALSE
