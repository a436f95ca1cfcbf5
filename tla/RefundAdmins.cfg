SPECIFICATION Spec
CONSTANTS
    Admins = {a1, a2}
    Amount = 2
    Handlers = {"request", "refund", "finalize"}
    FaultKinds = {"crash", "store", "audit", "deduct", "rollback", "gateway"}
    MaxFaults = 2
    MaxFinals = 1
INVARIANTS TypeOK RefundIsExclusive TakenOnce RestoredIsWhole RefundedIsPaidBack RefundingIsHeld
SYMMETRY Symmetry
CHECK_DEADLOCK FALSE
