CONSTANTS
    r1 = r1
    r2 = r2
    Registrations = {r1, r2}
    Asked <- SomeRequests
    mailA = mailA
    maila = maila
    Emails <- Addresses
    Words = {"w", "s", "b@x"}
    Lower <- LowerCase
    WordOf <- LocalPart
    Seed <- SeededRep
    Seeder = Seeder
    None = None
    Blank = Blank

SPECIFICATION FairSpec
INVARIANT RegistrationInvariant
INVARIANT AccountReachable
INVARIANT AccountInvariant
INVARIANT AnswersTellTheTruth
INVARIANT CollisionsAreRaces
PROPERTY EveryRegistrationEnds
CHECK_DEADLOCK FALSE
