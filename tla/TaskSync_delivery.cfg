SPECIFICATION FairSpec
CONSTANTS
    ann = ann
    bob = bob
    milk = milk
    Device <- Couple
    Task <- OneTask
    Slot <- InOrder
    Editors <- Couple
    Restarters <- Nobody
    MaxEdits = 2
    MaxFaults = 0
    MaxRestarts = 0
INVARIANTS
    HandedOverIsKept
    StatusCacheFollowsStore
PROPERTIES
    FlagReleased
    HandedOverArrives
