CONSTANTS
    Logins <- MCLogins
    Requesters = {"a", "n"}
    MaxStamp = 2
    MaxMessages = 3
    MaxChats = 2
    FirstSeeds <- MCFirstSeeds
    FullSeeds <- MCFullSeeds
SPECIFICATION Spec
INVARIANTS TypeOK StatusRows Pointers NothingHidden
PROPERTIES MessagesKept OnlyOwnMarks FailureHasNoEffect BoxSpec
