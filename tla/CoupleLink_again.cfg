SPECIFICATION Spec
CONSTANTS
    Phone <- Codes
    Linkers <- Greater
    Unlinkers <- Smaller
    Visitors <- Smaller
    Restarters <- Nobody
    Patient = TRUE
    Delayed = {"global"}
    MaxLinks = 2
    MaxUnlinks = 1
    MaxFaults = 0
CHECK_DEADLOCK FALSE
INVARIANTS
    TypeOK
    ListenersMatchStatus
    SomebodyListens
PROPERTY
    LinkStays
