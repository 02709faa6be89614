SPECIFICATION Spec
CONSTANTS
    ann = ann
    bob = bob
    Phone <- Couple
    Partner <- Other
    Assign = "both"
    Acts <- Everything
    Waits <- All
    MaxActs = 4
    MaxChecks = 1
    MaxBrowses = 1
    MaxFaults = 0
    MaxMisses = 1
    MaxRestarts = 1
CHECK_DEADLOCK FALSE
INVARIANTS
    AwardedOnce
    WithdrawnLeavesNoAward
    DeletedLeavesNothing
