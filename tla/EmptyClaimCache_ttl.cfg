SPECIFICATION LiveSpec
CONSTANTS
    Task = {t1, t2}
    Poller = {p1}
    MaxGen = 2
    SpineOn = TRUE
    MayFail = TRUE
PROPERTIES QueuedIsClaimed
CHECK_DEADLOCK FALSE
