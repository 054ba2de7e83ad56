CONSTANTS
    r1 = r1
    r2 = r2
    r3 = r3
    Requests = {r1, r2, r3}
    Slots = {s1, s2}
    Endpoints <- SomeEndpoints
    NoSlot = NoSlot

SPECIFICATION FairSpec
INVARIANT PoolInvariant
INVARIANT LostConnectionsHaveACause
INVARIANT AnswersMatchData
INVARIANT RowsHaveTheirFile
INVARIANT AbortedByTwo
INVARIANT LeftoverInvariant
PROPERTY EveryRequestIsAnswered
CHECK_DEADLOCK FALSE
