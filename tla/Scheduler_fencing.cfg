SPECIFICATION Spec
CONSTANTS
    Runner = {r1, r2}
    MaxTime = 4
    FaultHorizon = 4
    Mode = "every_plan"
    Cadence = 2
    ScheduleDelay = 0
    CatchUpWindow = 4
    MaxPlansPerTick = 2
    MaxLateness = 2
    StaleTimeout = 1
    AllowStaleReentry = TRUE
    MaxAttempts = 2
    RetryBackoff <- ShortBackoff
    NoLease = NoLease
SYMMETRY Interchangeable
INVARIANTS TypeOK LeasesDistinct SuccessIsReal
PROPERTIES ImplementsFencedLease
