SPECIFICATION FairSpec
CONSTANTS
    Workers = {w1, w2}
    Handlers = {"webhook", "cancel", "expire"}
    OrderType = "subscription"
    FaultKinds = {"crash", "store"}
    MaxFaults = 1
INVARIANTS GrantedOnce AckedIsSettled
PROPERTIES PaidIsSettled OverdueIsSwept
CHECK_DEADLOCK FALSE
