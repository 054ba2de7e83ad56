CONSTANTS
    j1 = j1
    j2 = j2
    u1 = u1
    u2 = u2
    a = a
    b = b
    h1 = h1
    Jobs = {j1}
    Slots = {a, b}
    Lines <- OneFile
    Uids = {u1, u2}
    Hosts = {h1}
    HostOf <- SharedHost
    NoHost = NoHost
    NoUid = NoUid
    NoLine = NoLine
    NoJob = NoJob
    NoSlot = NoSlot
    FileOf <- OneFileFileOf
    UidOf <- OneFileUidOf
    KindOf <- OneFileKindOf
    BatchSize = 2
    ChunkSize = 2
    Faults = TRUE
    MaxStalled = 1
    LeaseCanExpire = TRUE

SPECIFICATION FairSpec
PROPERTY OutcomeIsFinal
PROPERTY QueuedJobsEnd
CHECK_DEADLOCK FALSE
