SPECIFICATION Spec
CONSTANTS
    ann = ann
    bob = bob
    Phone <- Couple
    Partner <- Other
    Assign = "partner"
    Acts <- Everything
    Waits <- Nobody
    MaxActs = 2
    MaxChecks = 1
    MaxBrowses = 0
    MaxFaults = 1
    MaxMisses = 1
    MaxRestarts = 1
CHECK_DEADLOCK FALSE
INVARIANTS
    TypeOK
    OnePenaltyPerCheck
PROPERTIES
    RemovedStaysRemoved
    PenaltyStays
    LatenessStays
    LateCompletionIsFree
