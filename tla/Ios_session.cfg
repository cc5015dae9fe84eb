CONSTANTS
    own = own
    peers = peers
    Rooms = {own, peers}
    PeerRoom = peers
    Uuids = {u}
    MaxConnects = 2
    MaxMoves = 2
    MaxChunks = 2
    MaxJobs = 3
SPECIFICATION FairSpec
INVARIANTS
    TypeOK
    QuietWhenInactive
    NoSessionLeaks
    ReadyIsOpen
    PeerIsMet
PROPERTIES
    NegotiationEnds
    SendsEnd
CHECK_DEADLOCK FALSE
