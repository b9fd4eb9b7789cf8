SPECIFICATION TFairSpec
CHECK_DEADLOCK FALSE
CONSTANTS
    SigTerm = SigTerm
    SigInt = SigInt
    p1 = p1
    p2 = p2
    NoPair = NoPair
    NoSig = NoSig
    Sigs = {SigTerm, SigInt}
    Pairs = {p1, p2}
    BufferSize = 1
    MaxCaught = 2
INVARIANTS
    AllOrNothing
    HandledHasSocket
    
    QuitArmed

    
    
