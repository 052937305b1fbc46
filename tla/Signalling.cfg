SPECIFICATION Spec
CONSTANTS
    Peers = {"p1", "p2"}
    Called <- CalledInConference
    NoPeer = "none"
INVARIANTS
    TypeOK
    LockHolderAlive
    
    
    ListIsSessions

    
CHECK_DEADLOCK FALSE
