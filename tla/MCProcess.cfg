CONSTANTS
    Procs = {p1, p2}
    Commands = {p1, p2}
    Passwords = {w1}
    MasterKey = MasterKey
    WrongKey = WrongKey
    Options <- MCOptions
    None = None
    Missing = Missing
    NoOpener = NoOpener
    Partial = Partial
    MaxRuns = 4
    IdleTimeouts = {4, 5, 8, 9}
    TwoMinutes = 2
    MaxOpen = 1
    Paths <- MCPaths
    Root = ""
    Kind <- MCKind
    Ino <- MCIno
    Children <- MCChildren
    Openers = {t1, t2}
    Threads = {t1, t2}
    Chmods = {{}, {"w"}, {"r", "w"}}
    prefetchN = 4
    Wants = {1, 2, 3}
    MaxBatches = 4
SPECIFICATION MCSpec
INVARIANTS
    MasterKeySurvives
    MountIsServed
    ParentTellsOutcome
    UnmountsOnlyWhenQuiet
    ExitZeroMeansClean
    RelaxedIsPrivate
    NoByteTwice
PROPERTIES
    IdleIsUnmounted
    NothingHangs
CHECK_DEADLOCK FALSE
