SPECIFICATION Spec
CONSTANTS
    Peers = {p1, p2}
    NoPeer = NoPeer
    MaxOffers = 1
    MaxRestarts = 0
SYMMETRY PeerSymmetry
INVARIANTS
    FaultNeedsOverlap
CHECK_DEADLOCK FALSE
