SPECIFICATION FairSpec
CONSTANTS
    ann = ann
    bob = bob
    met = met
    Device <- Couple
    Anni <- MetDay
    Day = met
    Dated <- OnlyAnn
    Editors <- OnlyAnn
    Savers <- OnlyBob
    Listeners <- OnlyBob
    Patient <- OnlyAnn
    Restarters <- Nobody
    MaxSaves = 2
    MaxFaults = 0
PROPERTIES
    UnsharedLeavesPartner
