SPECIFICATION Spec
CONSTANTS
    Task = {t1, t2}
    Poller = {p1, p2}
    MaxGen = 2
    SpineOn = FALSE
    MayFail = TRUE
SYMMETRY Interchangeable
INVARIANTS TypeOK NeverStalled LateVerdictRejected
CHECK_DEADLOCK FALSE
