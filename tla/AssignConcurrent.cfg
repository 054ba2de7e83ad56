CONSTANTS
    Retailers = {r1, r2}
    Reps = {p1, p2}
    Calls = {c1, c2, c3}
    NoRep = NoRep
    Nobody = Nobody
    Kinds = {"assign", "unassign", "edit", "delete"}
    MaxBulk = 2
    MaxInFlight = 3

SPECIFICATION Spec
SYMMETRY Symmetry
INVARIANT AssignmentInvariant
INVARIANT NoOrphanAssignment
PROPERTY OwnersChangeOnRequest
PROPERTY ImplementsRegister
CHECK_DEADLOCK FALSE
