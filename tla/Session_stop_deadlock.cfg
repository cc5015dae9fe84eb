CONSTANTS
    f = f
    g = g
    h = h
    Files = {}
    StartFiles <- MCNoStartFiles
    NoFile = NoFile
    HasPeer = TRUE
    Unreadable = {}
    Timeouts = {"join", "peer", "pong", "description"}
    Stops = TRUE
    MaxLosses = 1
    MaxReceives = 0
    MaxLeaves = 0
SPECIFICATION FairSpec
PROPERTIES
    StopReturns
CHECK_DEADLOCK FALSE
