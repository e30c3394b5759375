SPECIFICATION Spec
CONSTANTS
    Servers = {s1, s2, s3}
    Proposed = {p1, p2}
    Direct = {d1}
    MaxSeats = 4
    MaxRequests = 5
    MaxFaults = 2
SYMMETRY Symmetry
INVARIANTS
    TypeOK
    OneSeatPerProposal
    NoSeatIsForgotten
    BookedMeetingHasItsSeat
CHECK_DEADLOCK FALSE
