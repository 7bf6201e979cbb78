SPECIFICATION Spec
CONSTANTS
    MaxTasks = 3
    Agent = {a1}
    Runtime = {r1}
    RuntimeOf <- MCRuntimeOf
    Issue = {i1}
    Chat = {c1}
    ChatAgent <- MCChatAgent
    Unlinked = {}
    IssuePriority = {1}
    MaxConcurrent <- Parallel
    MaxAttempts = 2
    RunCap = 3
    Handler = {h1, h2}
    MayRestart = TRUE
    NoRow = NoRow
INVARIANTS RetryLineage FailureHandledOnce TurnAnsweredOnce
PROPERTIES NoResurrection
CHECK_DEADLOCK FALSE
