CONSTANTS
    a = a
    b = b
    a1 = a1
    a2 = a2
    b1 = b1
    r1 = r1
    r2 = r2
    Names = {a, b}
    Rooms = {r1, r2}
    Sockets = {a1, a2, b1}
    Owner <- MCOwner
    NoSocket = NoSocket
    Relays = {"file_offer", "answer"}
    Overlap = {"open", "broken"}
    MaxInbox = 1
SPECIFICATION Spec
INVARIANTS
    MembersAreReachable
    OnlyDirectRelaysAreLost
CHECK_DEADLOCK FALSE
