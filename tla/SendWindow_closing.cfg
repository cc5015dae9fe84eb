CONSTANTS
    big = big
    odd = odd
    empty = empty
    gone = gone
    Files = {big, odd, empty, gone}
    Size <- MCSize
    Unreadable = {gone}
    NoFile = NoFile
    MaxMessageSize = 2
    MayClose = TRUE
SPECIFICATION FairSpec
INVARIANTS
    TypeOK
    BufferBounded
    CompletedWhole
    SleepsForAReason

    
    
CHECK_DEADLOCK FALSE
