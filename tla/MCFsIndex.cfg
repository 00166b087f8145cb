CONSTANTS
    PlainBS = 4
    CipherBS = 7
    HeaderLen = 3
    Blksize = 4
    ENXIO = ENXIO
    MaxOff = 22
    uuids = {u1, u2}
    None = None
    Garbled = Garbled
    NameLens = {0, 1, 255, 256}
    Targets = {0, 1, 346, 347, 4096, 4097}
    XattrLens = {0, 341, 342, 821, 822, 65400, 65401, 65530, 65531}
    MaxXattrs = 2
    BlockSize = 2
    nameMax = 7
    longNameMax = 8
    MaxPlainName = 3
    LenMod = 32
    MaxShort = 20
    aesBlockLen = 2
    Nothing = Nothing
    ParamLens = {0, 1, 8, 9, 10, 11, 12, 13, 31, 32, 40}
    t1 = t1
    t2 = t2
    d1 = d1
    f1 = f1
    f2 = f2
    FileNames = {n1, n2}
    RootDirUUID = RootDirUUID
    Torn = Torn
SPECIFICATION MCSpec
INVARIANTS
    AcceptedCacheIsCurrent
    IndexMatchesBlobs
    NothingTorn
    OffsetsAgree
    OnlyIntactRecordsRead
    NamesRoundTrip
    FramesAreUnambiguous
