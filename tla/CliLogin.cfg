CONSTANTS
    Clients = {p}
    Logins = {"a", "e", "s", "v", "m", "f", "ver", "y", "n"}
    Typed = {"a", "n"}
    Seed <- MCWholeSeed
    MaxWrites = 2
    MaxStops = 0
    MaxTries = 1
SPECIFICATION Spec
INVARIANT SendersKnown
CHECK_DEADLOCK FALSE
