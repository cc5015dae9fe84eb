CONSTANTS
    alice = alice
    bob = bob
    t1 = t1
    t2 = t2
    t3 = t3
    t4 = t4
    t5 = t5
    d1 = d1
    d2 = d2
    d3 = d3
    f0 = f0
    f1 = f1
    f2 = f2
    Senders = {alice, bob}
    Transfers = {t1, t2, t3, t5}
    From <- MCFrom
    Dest <- MCSharedDest
    Source <- MCSource
    Length <- MCLength
    MaxMessage = 2
    Missing = Missing
    NoTransfer = NoTransfer
    Faults = {"unreadable", "resized", "locked", "write", "drop"}
SPECIFICATION Spec
INVARIANTS
    FrontOnlyOpen
    OneWriterPerFile
CHECK_DEADLOCK FALSE
