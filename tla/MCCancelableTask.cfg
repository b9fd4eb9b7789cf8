SPECIFICATION TaskFairSpec
CONSTANTS
    o1 = o1
    o2 = o2
    poolThread = poolThread
    NoRunner = NoRunner
    Owners = {o1, o2}
INVARIANTS
    OutcomeReported
    WaitersGetOutcome
PROPERTIES
    WaitEnds
