SPECIFICATION Spec
CONSTANTS
    MaxTasks = 3
    Agent = {a1}
    Runtime = {r1}
    RuntimeOf <- MCRuntimeOf
    Issue = {i1}
    Chat = {}
    ChatAgent <- MCChatAgent
    Unlinked = {"quick_create", "run_only"}
    IssuePriority = {1}
    MaxConcurrent <- Parallel
    MaxAttempts = 2
    RunCap = 3
    Handler = {h1}
    MayRestart = FALSE
    NoRow = NoRow
INVARIANTS TypeOK OneRunPerKey CapacityRespected IdleAgentShownIdle BusyAgentShownWorking
PROPERTIES ImplementsWorkLedger
CHECK_DEADLOCK FALSE
