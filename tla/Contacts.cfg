CONSTANTS
    Contacts <- MCContacts
    Copies <- MCCopies
    InitialActive <- MCActive
    MaxChats = 2
    MaxPicked = 2
SPECIFICATION Spec
INVARIANTS TypeOK FormIsRow CanCancel FoundIsCurrent
PROPERTY SentAsOffered
