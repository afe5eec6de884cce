CONSTANTS
    Users = {"u1", "u2"}
    SubIDs = {"s1"}
    Activities <- MCActivities
    PrefChoices <- MCPrefChoices
    ChanCap = 1
    DBErrors = TRUE
    None = None
SPECIFICATION Spec
CONSTRAINT StateBound
INVARIANTS
    TypeOK
    RegistryConsistent
    DeliveredWereStored
