SPECIFICATION LiveSpec
CONSTANTS
    Runner = {r1, r2}
    MaxTime = 3
    FaultHorizon = 1
    Mode = "latest_only"
    Cadence = 2
    ScheduleDelay = 0
    CatchUpWindow = 4
    MaxPlansPerTick = 2
    MaxLateness = 2
    StaleTimeout = 1
    AllowStaleReentry = TRUE
    MaxAttempts = 2
    RetryBackoff <- ShortBackoff
    NoLease = NoLease
PROPERTIES AbandonedLeaseClosed
