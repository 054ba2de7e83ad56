CONSTANTS
    Retailers = {r1}
    Reps = {p1, p2}
    Calls = {c1, c2}
    NoRep = NoRep
    Nobody = Nobody
    Kinds = {"assign", "unassign"}
    MaxBulk = 1
    MaxInFlight = 3

SPECIFICATION Spec
INVARIANT EveryUnassignedIsListed
CHECK_DEADLOCK FALSE
