CONSTANTS
    j1 = j1
    j2 = j2
    u1 = u1
    u2 = u2
    a = a
    b = b
    h1 = h1
    Jobs = {j1, j2}
    Slots = {a, b}
    Lines <- TwoFiles
    Uids = {u1, u2}
    Hosts = {h1}
    HostOf <- SharedHost
    NoHost = NoHost
    NoUid = NoUid
    NoLine = NoLine
    NoJob = NoJob
    NoSlot = NoSlot
    FileOf <- TwoFilesFileOf
    UidOf <- TwoFilesUidOf
    KindOf <- TwoFilesKindOf
    BatchSize = 3
    ChunkSize = 2
    Faults = FALSE
    MaxStalled = 1
    LeaseCanExpire = FALSE

SPECIFICATION Spec
PROPERTY EveryLineAccountedFor
CHECK_DEADLOCK FALSE
