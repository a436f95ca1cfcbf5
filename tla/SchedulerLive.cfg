SPECIFICATION FairSpec
CONSTANTS
    Pollers = {p1}
    Rebuilders = {f1}
    Readers = {r1}
    Writers = {w1}
    MaxFaults = 2
    None = None
    NoSnap = NoSnap
INVARIANT RetiredGroupIsNotServed
PROPERTY Converges
CHECK_DEADLOCK FALSE
