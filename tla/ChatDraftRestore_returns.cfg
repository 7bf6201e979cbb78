SPECIFICATION FairSpec
CONSTANTS
    Device = {d1}
    Session = {s1, s2}
    Text = {t1}
    MaxSend = 1
    None = None
INVARIANT SlotIsOnScreen
PROPERTIES RestoreReachesComposer AppliedRowIsConsumed
CHECK_DEADLOCK FALSE
