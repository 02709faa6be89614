SPECIFICATION FairSpec
CONSTANTS
    Phone <- Codes
    Linkers <- Greater
    Unlinkers <- Smaller
    Visitors <- Nobody
    Restarters <- Nobody
    Patient = TRUE
    Delayed = {}
    MaxLinks = 1
    MaxUnlinks = 1
    MaxFaults = 0
CHECK_DEADLOCK FALSE
PROPERTY
    StaysUnlinked
