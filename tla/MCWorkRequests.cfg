SPECIFICATION Spec
CONSTANTS
    Sessions = {s1, s2}
    MaxRounds = 2
    MaxRows = 3
    MaxVersion = 4
INVARIANTS TypeOK OnlyTheLatestRoundWaits ClosedRequestHasClosedTask
PROPERTIES HeldWorkKeepsAHolder
CHECK_DEADLOCK FALSE
