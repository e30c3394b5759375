SPECIFICATION Spec
CONSTANTS
    tA = tA  tB = tB  tC = tC
    s1 = s1  s2 = s2
    Nothing = Nothing
    Tasks = {tA, tB}
    Requested = {}
    Sessions = {s1}
    Commands = {"change", "add"}
    Overlapping = {}
    Restarts = TRUE
    MaxVersion <- MCMaxVersion
INVARIANTS
    DoneTaskHasNoOpenPart
CHECK_DEADLOCK FALSE
