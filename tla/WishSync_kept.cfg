SPECIFICATION Spec
CONSTANTS
    ann = ann
    bob = bob
    trip = trip
    Device <- Couple
    Wish <- OneWish
    Slot <- InOrder
    Editors <- OnlyAnn
    Listeners <- OnlyAnn
    Browsers <- OnlyAnn
    Restarters <- Nobody
    MaxSaves = 2
    MaxFaults = 0
    MaxRestarts = 0
PROPERTIES
    AddedWishKept
