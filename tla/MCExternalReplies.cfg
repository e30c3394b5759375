SPECIFICATION FairSpec
CONSTANTS
    Workers = {w1, w2}
    Senders = {s1}
    RoomOf <- OneRoom
    MaxAttempts = 2
    MaxResends = 1
    MaxJobs = 4
    MaxOverruns = 1
    MaxFaults = 3
INVARIANTS RepliesTypeOK EveryFurtherCopyTakesAFault RepliesLeaveInOrder
PROPERTIES EveryReplyIsAnswered
CHECK_DEADLOCK FALSE
