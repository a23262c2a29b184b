CONSTANTS
    Logins <- MCLogins
    User = "a"
    InitialStore <- MCStore
    Faults = {}
    Behind = {}
    MaxMessages = 5
    MaxChats = 3
    MaxLogins = 2
SPECIFICATION Spec
INVARIANT ReadNotCounted
