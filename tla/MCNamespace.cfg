CONSTANTS
    t1 = t1
    t2 = t2
    t3 = t3
    Sharers = {t1, t2, t3}
    m1 = m1
    m2 = m2
    FileIDs = {i1, i2}
    NoID = NoID
    ZeroID = ZeroID
    Torn = Torn
    Zero = Zero
    MaxBlocks = 2
    Users <- MCUsers
    d1 = d1
    d2 = d2
    Threads = {t1, t2}
    Dirs = {r, d1, d2}
    Root = r
    Files = {f1, f2}
    Whiteout = Whiteout
    ShortNames = {s1}
    LongNames = {l1}
    Absent = Absent
    Settings <- MCSettings
SPECIFICATION MCSpec
SYMMETRY Symmetry
INVARIANTS
    FilesAreListed
    NothingLeftBehind
    NamesStayDecryptable
    SharedFileIsSound
