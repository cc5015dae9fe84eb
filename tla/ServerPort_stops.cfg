CONSTANTS
    a = a
    b = b
    a1 = a1
    a2 = a2
    b1 = b1
    Names = {a, b}
    Sockets = {a1, a2, b1}
    Owner <- MCOwner
    NoSocket = NoSocket
    MaxInterrupts = 2
SPECIFICATION FairSpec
INVARIANTS
    TypeOK
    TableIsTrue
PROPERTIES
    InterruptEnds
CHECK_DEADLOCK FALSE
