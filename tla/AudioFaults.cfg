SPECIFICATION Spec
CONSTANTS
    Peers = {p1}
    MaxStarts = 2
INVARIANTS
    FaultHasCause
    WholePeers
PROPERTIES
    OnlyLeaversGo
CHECK_DEADLOCK FALSE
