SPECIFICATION Spec
CONSTANTS
    Workers = {w1, w2}
    Handlers = {"webhook", "verify", "cancel", "expire", "retry"}
    OrderType = "balance"
    FaultKinds = {"crash", "store", "create", "swallowed"}
    MaxFaults = 2
INVARIANTS TypeOK GrantedOnce RebatedOnce CompletedIsDelivered DeliveredStaysFulfilling
PROPERTY ImplementsLedger
SYMMETRY Symmetry
CHECK_DEADLOCK FALSE
