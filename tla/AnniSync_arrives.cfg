SPECIFICATION FairSpec
CONSTANTS
    ann = ann
    bob = bob
    met = met
    Device <- Couple
    Anni <- MetDay
    Day = met
    Dated <- OnlyAnn
    Editors <- Couple
    Savers <- OnlyBob
    Listeners <- OnlyBob
    Patient <- OnlyBob
    Restarters <- OnlyBob
    MaxSaves = 2
    MaxFaults = 1
INVARIANTS
    TypeOK
    OneAtATime
    OwedPullHasOwner
    UnsharedIsKept
PROPERTIES
    SharedArrives
