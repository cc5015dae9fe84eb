CONSTANTS
    f = f
    g = g
    h = h
    Files = {f, g}
    StartFiles <- MCNoStartFiles
    NoFile = NoFile
    HasPeer = TRUE
    Unreadable = {}
    Timeouts = {"peer", "pong", "description"}
    Stops = TRUE
    MaxLosses = 0
    MaxReceives = 0
    MaxLeaves = 1
SPECIFICATION FairSpec
PROPERTIES
    
    
    StopReturns
CHECK_DEADLOCK FALSE
