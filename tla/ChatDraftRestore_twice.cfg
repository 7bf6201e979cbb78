SPECIFICATION Spec
CONSTANTS
    Device = {d1}
    Session = {s1}
    Text = {t1}
    MaxSend = 1
    None = None
INVARIANT AppliedAtMostOnce
CHECK_DEADLOCK FALSE
