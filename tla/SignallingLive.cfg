SPECIFICATION Spec
CONSTANTS
    Peers = {"p1"}
    Called <- CalledInBoth
    NoPeer = "none"
INVARIANTS
    ClosedIsForgotten
    NoCircle
PROPERTIES
    CloseEnds
CHECK_DEADLOCK FALSE
