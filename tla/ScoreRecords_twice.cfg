SPECIFICATION Spec
CONSTANTS
    ann = ann
    bob = bob
    Phone <- Couple
    Partner <- Other
    Assign = "both"
    Acts <- TapOnly
    Waits <- Nobody
    MaxActs = 3
    MaxChecks = 0
    MaxBrowses = 0
    MaxFaults = 0
    MaxMisses = 0
    MaxRestarts = 0
CHECK_DEADLOCK FALSE
INVARIANTS
    AwardedOnce
