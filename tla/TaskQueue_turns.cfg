SPECIFICATION Spec
CONSTANTS
    MaxTasks = 3
    Agent = {a1, a2}
    Runtime = {r1}
    RuntimeOf <- MCRuntimeOf
    Issue = {i1}
    Chat = {c1}
    ChatAgent <- MCChatAgent
    Unlinked = {}
    IssuePriority = {1}
    MaxConcurrent <- Serial
    MaxAttempts = 2
    RunCap = 3
    Handler = {}
    MayRestart = FALSE
    NoRow = NoRow
INVARIANTS BusyAgentShownWorking ChatTurnsInOrder
CHECK_DEADLOCK FALSE
