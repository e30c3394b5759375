SPECIFICATION Spec
CONSTANTS
    tA = tA  tB = tB  tC = tC
    s1 = s1  s2 = s2
    Nothing = Nothing
    Tasks = {tA, tB, tC}
    Requested = {tB}
    Sessions = {s1, s2}
    Commands = {"change", "agree", "report", "reopen", "move", "order", "add", "decide"}
    Overlapping = {"change", "agree", "report", "reopen", "order"}
    Restarts = FALSE
    MaxVersion <- MCMaxVersion
SYMMETRY Symmetry
INVARIANTS
    TypeOK
    DoneTaskHasNoOpenPart
    PictureShowsTheTask
PROPERTIES
    OnlyOvertakenWalksCloseACycle
CHECK_DEADLOCK FALSE
