SPECIFICATION FairSpec
CONSTANTS
    Phone <- Codes
    Linkers <- Greater
    Unlinkers <- Smaller
    Visitors <- Nobody
    Restarters <- Smaller
    Patient = TRUE
    Delayed = {}
    MaxLinks = 1
    MaxUnlinks = 1
    MaxFaults = 1
CHECK_DEADLOCK FALSE
INVARIANTS
    ListenersMatchStatus
    SomebodyListens
PROPERTIES
    LinkArrives
    UnlinkNoticed
    UnlinkFinishes
