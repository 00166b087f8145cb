CONSTANTS
    Handles = {h1, h2}
    FileIDs = {i1, i2}
    NoID = NoID
    ZeroID = ZeroID
    PlainBS = 2
    CipherBS = 3
    HeaderLen = 2
    MaxSize = 5
    WriteData <- MCWriteData
SPECIFICATION Spec
SYMMETRY Symmetry
INVARIANTS
    WellFormed
    ReadsAreFaithful
PROPERTIES
    ImplementsPlainFile
CHECK_DEADLOCK FALSE
