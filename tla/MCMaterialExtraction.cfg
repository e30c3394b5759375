SPECIFICATION FairSpec
CONSTANTS
    MaxAttempts = 2
    Visibility = 4
    PurgeMeetsResult = FALSE
    OnTimeDeliveries = 3
    MaxDeliveries = 5
    MaxFaults = 1
INVARIANTS
    TypeOK
    ContentOnlyOfCompleted
    
    UndisturbedWorkIsKept

    
CHECK_DEADLOCK FALSE
