SPECIFICATION Spec
CONSTANTS
    N = 1
    Status = {s1, s2}
    Owner = {o1, o2, NoOwner}
    NoOwner = NoOwner
    Foreign = {f1}
    Start = {o1}
    MaxShown = 1
    Board = Board
    Mine = Mine
    List = {Board, o1}
    Involved = {o1}
    PageSize = 1
    MaxVersion = 2
    MaxMutation = 2
    MaxConnect = 2
    MaxTurn = 4
    None = None
SYMMETRY Columns
INVARIANTS TypeOK RowsAreCurrent GuessIsPending
CHECK_DEADLOCK FALSE
