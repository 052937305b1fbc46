SPECIFICATION OrderlySpec
CONSTANTS
    Peers = {p1, p2}
    NoPeer = NoPeer
    MaxOffers = 1
    MaxRestarts = 0
PROPERTIES
    
    IceReturns
CHECK_DEADLOCK FALSE
