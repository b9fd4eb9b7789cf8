SPECIFICATION Spec
CONSTANTS
    CheckRelTime = 3
    Second = 8
    IntMax = 15
    RelTimes <- MCRelTimes
    AbsTimes <- MCAbsTimes
INVARIANTS
    SleepsToTheSlice
    
PROPERTIES
    TimeoutRechecked
