SPECIFICATION Spec
CONSTANTS
    N = 2
    Status = {s1, s2}
    Owner = {o1, o2}
    NoOwner = NoOwner
    Foreign = {f1}
    Start = {o1}
    MaxShown = 2
    Board = Board
    Mine = Mine
    List = {Board, o1}
    Involved = {o1}
    PageSize = 1
    MaxVersion = 1
    MaxMutation = 0
    MaxConnect = 1
    MaxTurn = 4
    None = None
PROPERTIES NeverAWrongPatch
CHECK_DEADLOCK FALSE
