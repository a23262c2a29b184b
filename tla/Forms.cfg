SPECIFICATION Spec
CONSTANTS
    c1 = c1
    c2 = c2
    Clients = {c1, c2}
    Logins = {"annal"}
    Names = {"Anna"}
    Mails = {"m"}
    Refused = "-"
    Wide = "wide"
    None = None
    Prepared = {c1, c2}
    MaxEdits = 2
SYMMETRY Persons
INVARIANTS TypeOK OnlyOwnAccount
PROPERTIES RegisteredAsChecked SavesOnlyEdited
