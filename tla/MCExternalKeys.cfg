CONSTANTS
    Threads = {t1, t2}
    Nobody = Nobody
    Settings <- MCSettings
    Capacity = 2
    MaxBlockCount = 2
    MaxBlockKeyBatch = 1
    MaxSessions = 2
    SeqMax = 1
    MaxRelays = 4
SPECIFICATION FairSpec
INVARIANTS
    RightKeys
    SequencesIncrease
    SessionLossIsMasked
PROPERTIES
    RequestsEnd
