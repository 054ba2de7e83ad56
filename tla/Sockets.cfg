CONSTANTS
    Processes = {p1, p2}
    Sockets = {s1, s2}
    Users = {u1, u2}
    Messages = {m1}
    Everyone = Everyone
    Nobody = Nobody
    NoSocket = NoSocket
    NoProcess = NoProcess

SPECIFICATION FairSpec
INVARIANT SocketInvariant
INVARIANT RegistriesAgree
INVARIANT ChatFindsTheLatest
INVARIANT AtMostOnce
PROPERTY EverythingArrives
CHECK_DEADLOCK FALSE
