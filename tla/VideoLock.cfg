SPECIFICATION Spec
CONSTANTS
    Peers = {p1, p2}
    GrpcThreads = {g1}
    NoPeer = NoPeer
INVARIANTS
    IInv
    OneSender
    OwnerCanRelease
PROPERTIES
    ImplementsExclusiveLock
    
