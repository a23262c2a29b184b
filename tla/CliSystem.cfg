CONSTANTS
    Clients = {p, q}
    Logins = {"a", "e", "n"}
    Typed = {"a", "n"}
    Seed <- MCSeed
    MaxWrites = 2
    MaxStops = 1
    MaxTries = 1
SYMMETRY MCSymmetry
SPECIFICATION Spec
INVARIANTS TypeOK CopiesFaithful FreeAreAbandoned CalmBeforeFirstEnd
PROPERTY AckedStays
CHECK_DEADLOCK FALSE
