SPECIFICATION RegularSpec
CONSTANTS
    Peers = {p1, p2}
    MaxStarts = 1
SYMMETRY PeerSymmetry
INVARIANTS
    TypeOK
    JoinedIsHeard
PROPERTIES
    ImplementsConference
CHECK_DEADLOCK FALSE
