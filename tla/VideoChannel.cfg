SPECIFICATION OrderlySpec
CONSTANTS
    Peers = {p1, p2}
    NoPeer = NoPeer
    MaxOffers = 2
    MaxRestarts = 1
SYMMETRY PeerSymmetry
INVARIANTS
    TypeOK
    StreamIsHolders
    HolderStreams
    FreeIsQuiet
    IceAwaitsLaunch
    LeaverNoticed
PROPERTIES
    ImplementsExclusiveStream
CHECK_DEADLOCK FALSE
