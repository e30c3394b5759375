SPECIFICATION FairSpec
CONSTANTS
    MaxAttempts = 2
    Visibility = 3
    MaxRequests = 2
    MaxDeliveries = 6
    MaxFaults = 1
INVARIANTS
    TypeOK
    ClosedJobHasClosedGeneration
PROPERTIES
    NoCallIsRepeatedInDoubt
    GenerationEnds
CHECK_DEADLOCK FALSE
