SPECIFICATION Spec
CONSTANTS
    Peers = {p1, p2}
    NoPeer = NoPeer
    MaxOffers = 2
    MaxRestarts = 0
INVARIANTS
    NoAssertFailure
CHECK_DEADLOCK FALSE
