SPECIFICATION FairSpec
CONSTANTS
    k1 = k1  k2 = k2  k3 = k3
    w1 = w1  w2 = w2  w3 = w3
    Nobody = Nobody
    Keys = {k1, k2}
    Workers = {w1, w2}
    QueueLimit = 1
    MaxAttempts = 2
    GuardMayBreak = TRUE
    MaxRetries = 1
    MaxFaults = 1
PROPERTIES
    OutcomeIsFinal
    EveryTurnEnds
    EveryMessageIsTakenOrHeld
CHECK_DEADLOCK FALSE
