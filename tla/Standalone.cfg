SPECIFICATION StandaloneSpec
CONSTANTS
    \* limiter
    Addrs = {1, 2}
    Burst = 2
    Rate = 1
    IdleTTL = 3
    GcEvery = 2
    MaxSize = 1
    MaxNow = 5
    \* updates
    Checks = {k1, k2}
    Version <- ReleaseVersions
    Chunks = 2
    Inodes = {i1, i2}
    EnvVersion = 0
    \* vault
    MaxRows = 3
    MaxKeys = 2
    \* keys
    Desktops = {ada, ben}
    MaxMade = 3
    MaxSends = 3
    MaxExits = 1
    MaxWaiting = 2
    \* contacts
    Pair = {ada, ben}
    NoFriends = NoFriends
    Friends = Friends
    MaxAsks = 2
    MaxDrops = 1
    MaxDialogs = 2
    \* calls
    MaxCalls = 2
    MaxFiles = 2
    MaxChunks = 2
    ada = ada
    ben = ben
INVARIANTS
    StandaloneTypeOK
    RateHolds
    InstalledWhole
    CleanRunsKept
    CacheIsPinned
    Readable
    ContactsFollow
    WholeFiles
    Companded
PROPERTY NewerServed
SYMMETRY UpdatesSymmetry
\* Components come to the end of their bounds.
CHECK_DEADLOCK FALSE
