CONSTANTS
    Logins <- MCLogins
    User = "a"
    InitialStore <- MCStore
    Faults = {"post", "report", "login"}
    Behind = {1}
    MaxMessages = 5
    MaxChats = 3
    MaxLogins = 2
SPECIFICATION Spec
INVARIANTS TypeOK LocalFaithful NothingMissed OpenedIsRead FirstPressOnce
PROPERTY PointerForward
