CONSTANTS
    Sub = {s1, s2}
    Worker = {w1, w2}
    Manual = {m1}
    None = None
    MaxEvents = 2
SPECIFICATION Spec
INVARIANTS NoPoolBehindStop
CHECK_DEADLOCK FALSE
