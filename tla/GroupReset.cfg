SPECIFICATION Spec
CONSTANTS
    Ues = {u1}
    FailingUes = {u1}
    NoUe = NoUe
INVARIANTS
    MediaInv
    
    ClosedIsGone
PROPERTIES
    CloseCleans
