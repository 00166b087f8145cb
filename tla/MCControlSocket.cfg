CONSTANTS
    Clients = {c1}
    Dirs = {"r", "d"}
    Root = "r"
    Files = {"f"}
    Names = {"s", "l"}
    LongNames = {"l"}
    None = None
    Requests <- MCRequests
    Buf = 5
    MaxQueries = 2
    MaxMoves = 1
SPECIFICATION FairSpec
CHECK_DEADLOCK FALSE
INVARIANT AnswerIsRight
PROPERTY QueryReturns
