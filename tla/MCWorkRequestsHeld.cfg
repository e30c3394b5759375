SPECIFICATION Spec
CONSTANTS
    Sessions = {s1}
    MaxRounds = 2
    MaxRows = 3
    MaxVersion = 5
PROPERTIES HeldWorkEndsByAgreement
CHECK_DEADLOCK FALSE
