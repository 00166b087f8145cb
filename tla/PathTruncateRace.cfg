CONSTANTS
    Threads = {t1, t2}
    Handles = {h1, h2}
    Entries = {e1, e2}
    FileIDs = {i1, i2, i3}
    NoID = NoID
    ZeroID = ZeroID
    None = None
SPECIFICATION Spec
INVARIANTS
    HeaderAlwaysMatchesBlocks
