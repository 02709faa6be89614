SPECIFICATION FairSpec
CONSTANTS
    ann = ann
    bob = bob
    trip = trip
    Device <- Couple
    Wish <- OneWish
    Slot <- InOrder
    Editors <- Couple
    Listeners <- OnlyAnn
    Browsers <- OnlyAnn
    Restarters <- OnlyAnn
    MaxSaves = 2
    MaxFaults = 1
    MaxRestarts = 1
INVARIANTS
    TypeOK
    FlagHasOwner
    DeleteMarkHasOwner
    HandedOverIsKept
PROPERTIES
    ListsConverge
