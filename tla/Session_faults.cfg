CONSTANTS
    f = f
    g = g
    h = h
    Files = {f, g, h}
    StartFiles <- MCStartFiles
    NoFile = NoFile
    HasPeer = TRUE
    Unreadable = {h}
    Timeouts = {"join", "peer", "pong", "description"}
    Stops = TRUE
    MaxLosses = 2
    MaxReceives = 1
    MaxLeaves = 0
SPECIFICATION Spec
INVARIANTS
    TypeOK
    NeverParked
    RequestsInOrder
    RosterOfThisConnection
CHECK_DEADLOCK FALSE
