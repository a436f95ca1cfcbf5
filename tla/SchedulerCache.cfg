SPECIFICATION Spec
CONSTANTS
    Pollers = {p1}
    Rebuilders = {}
    Readers = {r1}
    Writers = {w1, w2}
    MaxFaults = 2
    None = None
    NoSnap = NoSnap
INVARIANTS TypeOK RetiredGroupIsNotServed
SYMMETRY Symmetry
CHECK_DEADLOCK FALSE
