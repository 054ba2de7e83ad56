CONSTANTS
    Processes = {p1, p2}
    Calls = {c1, c2, c3}
    Endpoints <- SomeEndpoints
    MaxInFlight = 1
    SharedStore = FALSE
    StoreCanFail = TRUE
    NoEntry = NoEntry
    NoProcess = NoProcess

SPECIFICATION Spec
SYMMETRY Symmetry
INVARIANT FreshForItsService
INVARIANT CacheInvariant
INVARIANT NothingEscapesInvalidation
CHECK_DEADLOCK FALSE
