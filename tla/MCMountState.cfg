CONSTANTS
    Namespaces = {root, usb, nfs}
    Inos <- MCInos
    PassthruSpace = 2
    MaxNamespaceId = 2
    SpillSpaceStart = 4
    MaxUint64 = 8
    RootNamespace = root
    Absent = Absent
    Threads = {t1, t2}
    None = None
    DirInos = {x1, x2}
    DirNames = {n1, n2}
    dirCacheSize = 1
    MaxFd = 3
    MaxGen = 2
    Indices = {i1, i2, i3, i4}
    Keys = {k1}
    BadKey = BadKey
    Capacity = 3
    Entries = {e1, e2, e3, e4}
    Nil = Nil
    Goroutines = {g1, g2}
    Nobody = Nobody
    OSThreads = {o1, o2}
    Users = {alice, bob}
    UserAttrs = {a}
    Acl = Acl
    Capability = Capability
    Invalid = Invalid
    Foreign = Foreign
    Undecryptable = Undecryptable
    Values = {0, 2, 5}
    Overhead = 1
    GETXATTR_BUFSZ_SMALL = 3
    XATTR_SIZE_MAX = 6
    LISTXATTR_BUFSZ_SMALL = 2
    Dests = {2}
SPECIFICATION MCSpec
SYMMETRY DirSymmetry
INVARIANTS
    Unique
    DirCacheIsSound
    CredentialsMatch
    XattrsAreAMap
PROPERTIES
    Stable
    ImplementsLruSpec
CHECK_DEADLOCK FALSE
