SPECIFICATION FairSpec
CONSTANTS
    t1 = t1
    t2 = t2
    t3 = t3
    a = a
    b = b
    c = c
    Threads = {t1, t2, t3}
    Lockables = {a, b, c}
    NoThread = NoThread
    Requests <- OppositeOrders
INVARIANTS
    IInv
    NoHoldAndWait
PROPERTIES
    ReturnsWithAll
    BlocksOnBusy
    LocksAtomically
    LockReturns
