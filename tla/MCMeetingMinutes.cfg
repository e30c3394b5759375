SPECIFICATION FairSpec
CONSTANTS
    Workers = {w1, w2}
    FinalAttempts = 2
    MaxDeliveries = 2
    LateWrites = FALSE
    MaxBatches = 1
    MaxJobs = 2
    MaxOverruns = 1
    MaxFaults = 2
INVARIANTS TypeOK DoneMinutesStand EveryFurtherHearingTakesAFault
PROPERTIES EndedMeetingIsSettled
CHECK_DEADLOCK FALSE
