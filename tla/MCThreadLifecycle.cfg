SPECIFICATION FairSpec
CONSTANTS
    parent = parent
    child = child
    other = other
    startedCondVar = startedCondVar
    joinedOrDetachedCondVar = joinedOrDetachedCondVar
    workCondVar = workCondVar
    NoThread = NoThread
    NoCondVar = NoCondVar
    Threads = {parent, child, other}
    Adopted = {other}
    CondVars = {startedCondVar, joinedOrDetachedCondVar, workCondVar}
    MaxRequests = 2
PROPERTIES
    EnabledReadStable
    TerminatesForDetachedException
    DestructorEnds
    InterruptionEndsMain
INVARIANTS
    WaitOwnsMutex
    WaitingPointerInWait
    DataOutlivesUse
    ReleasedOnlyCompleted
