CONSTANTS
    Retailers = {r1, r2}
    Reps = {p1, p2}
    Calls = {c1, c2}
    NoRep = NoRep
    Nobody = Nobody
    Kinds = {"assign", "unassign", "edit", "delete"}
    MaxBulk = 2
    MaxInFlight = 2

SPECIFICATION FairSpec

PROPERTY EveryCallEnds
CHECK_DEADLOCK FALSE
