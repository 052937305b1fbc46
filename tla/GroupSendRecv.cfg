SPECIFICATION OrderlySpec
CONSTANTS
    Ues = {u1, u2}
    FailingUes = {u1}
    NoUe = NoUe
INVARIANTS
    NoFault
    OneTalker
    HolderIsHeard
    PeersMatchElements
PROPERTIES
    FloorHandover
    ImplementsExclusiveFloor
