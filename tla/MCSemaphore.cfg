SPECIFICATION FairSpec
CONSTANTS
    w1 = w1
    w2 = w2
    w3 = w3
    r = r
    s = s
    NoThread = NoThread
    NoCondVar = NoCondVar
    Threads = {w1, w2, w3, r}
    Waiters = {w1, w2, w3}
    Requesters = {r}
    Adopted = {w3, r}
    CondVars = {s}
    Permits = 1
    MaxRequests = 1
INVARIANTS
    PermitsAccounted
PROPERTIES
    NoIdlePermit
    InterruptionEndsWait
