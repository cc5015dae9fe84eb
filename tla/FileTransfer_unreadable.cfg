CONSTANTS
    alice = alice
    bob = bob
    t1 = t1
    t2 = t2
    t3 = t3
    t4 = t4
    t5 = t5
    d1 = d1
    d2 = d2
    d3 = d3
    f0 = f0
    f1 = f1
    f2 = f2
    Senders = {alice, bob}
    Transfers = {t1, t2}
    From <- MCFrom
    Dest <- MCDest
    Source <- MCSource
    Length <- MCLength
    MaxMessage = 2
    Missing = Missing
    NoTransfer = NoTransfer
    Faults = {"unreadable"}
SPECIFICATION Spec
INVARIANTS
    SavedAsOffered
CHECK_DEADLOCK FALSE
