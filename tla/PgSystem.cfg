CONSTANTS
    Clients = {p, q}
    Logins <- MCLogins
    Typed = {"a", "n"}
    Seed <- MCSeed
    MaxWrites = 3
    MaxStops = 1
    MaxTries = 1
    MaxFailures = 2
SYMMETRY MCSymmetry
SPECIFICATION Spec
CONSTRAINT MCMishaps
INVARIANTS StoreConsistent OnlySearchHurts FailuresStayLocal CopiesFaithful
CHECK_DEADLOCK FALSE
