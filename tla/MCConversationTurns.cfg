SPECIFICATION Spec
CONSTANTS
    k1 = k1  k2 = k2  k3 = k3
    w1 = w1  w2 = w2  w3 = w3
    Nobody = Nobody
    Keys = {k1, k2, k3}
    Workers = {w1, w2}
    QueueLimit = 1
    MaxAttempts = 1
    GuardMayBreak = FALSE
    MaxRetries = 1
    MaxFaults = 2
SYMMETRY Symmetry
INVARIANTS
    TypeOK
    OneProviderCall
    AnsweredInOrder
PROPERTY ImplementsAnsweredMessages
CHECK_DEADLOCK FALSE
