CONSTANTS
    Retailers = {r1, r2, r3}
    Reps = {p1, p2}
    Calls = {c1, c2, c3}
    NoRep = NoRep
    Nobody = Nobody
    Kinds = {"assign", "unassign", "edit", "delete"}
    MaxBulk = 2
    MaxInFlight = 1

SPECIFICATION Spec
SYMMETRY Symmetry
INVARIANT SerialInvariant
INVARIANT FlagMatchesAssignment
PROPERTY AuditTrailFrozen
PROPERTY AssignTakesEffect
PROPERTY UnassignReportsWhatItDid
CHECK_DEADLOCK FALSE
