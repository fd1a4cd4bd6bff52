SPECIFICATION Spec
CONSTANTS
    a = a
    b = b
    c = c
    Requests <- MCRequests
    Locks <- MCLocks
    NoLock = NoLock
    Gone = Gone
    MaxCommits = 2
INVARIANTS
    TypeOK
    OneInside
PROPERTIES
    ImplementsAtomicStore
    EveryRequestAnswered
