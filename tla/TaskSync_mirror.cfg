SPECIFICATION FairSpec
CONSTANTS
    ann = ann
    bob = bob
    milk = milk
    Device <- Couple
    Task <- OneTask
    Slot <- InOrder
    Editors <- OnlyAnn
    Restarters <- OnlyAnn
    MaxEdits = 2
    MaxFaults = 1
    MaxRestarts = 1
INVARIANTS
    TypeOK
    FlagHasOwner
    DeleteMarkHasOwner
    PassiveDeviceMirrors
PROPERTIES
    PassiveDeviceConverges
    PassiveDeviceFollows
