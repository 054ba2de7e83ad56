CONSTANTS
    Processes = {p1}
    Calls = {c1, c2, c3}
    Endpoints <- AcrossServices
    MaxInFlight = 1
    SharedStore = FALSE
    StoreCanFail = FALSE
    NoEntry = NoEntry
    NoProcess = NoProcess

SPECIFICATION Spec
INVARIANT FreshListings
CHECK_DEADLOCK FALSE
