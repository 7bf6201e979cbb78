SPECIFICATION Spec
CONSTANTS
    Device = {d1}
    Session = {s1}
    Text = {t1, t2}
    MaxSend = 2
    None = None
SYMMETRY Interchangeable
INVARIANTS TypeOK NoRestoreLost ReappliedOnlyFromStaleList OutlivedRowIsTried
CHECK_DEADLOCK FALSE
