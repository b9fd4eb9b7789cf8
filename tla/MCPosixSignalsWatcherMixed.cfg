SPECIFICATION Spec
CHECK_DEADLOCK FALSE
CONSTANTS
    sigTerm = sigTerm
    sigInt = sigInt
    p1 = p1
    p2 = p2
    NoPair = NoPair
    NoSig = NoSig
    Sigs = {sigTerm, sigInt}
    Pairs = {p1, p2}
    BufferSize = 2
    MaxCaught = 4
INVARIANTS
    BytesMatch
