CONSTANTS
    alice = alice
    bob = bob
    top = top
    sub = sub
    Mirrors = {alice, bob}
    Paths = {top, sub}
    NewDirs = {sub}
    Slow = {}
    NoPath = NoPath
    MaxEdits = 2
    MaxDeletes = 1
    MaxLosses = 1
SPECIFICATION FairSpec
INVARIANTS
    TypeOK
    RecordIsTaken
    ChangeIsReported
PROPERTIES
    NotSentBack
    
CHECK_DEADLOCK FALSE
