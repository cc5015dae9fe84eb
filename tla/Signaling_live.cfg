CONSTANTS
    a = a
    b = b
    a1 = a1
    a2 = a2
    b1 = b1
    r1 = r1
    r2 = r2
    Names = {a, b}
    Rooms = {r1, r2}
    Sockets = {a1, a2, b1}
    Owner <- MCOwner
    NoSocket = NoSocket
    Relays = {}
    Overlap = {}
    MaxInbox = 1
SPECIFICATION FairSpec
INVARIANTS
    TypeOK
    RosterCurrent
PROPERTIES
    JoinIsAnswered
    DepartureIsSeen
CHECK_DEADLOCK FALSE
