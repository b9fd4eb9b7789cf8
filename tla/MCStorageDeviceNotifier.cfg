SPECIFICATION Spec
CHECK_DEADLOCK FALSE
CONSTANTS
    sda1 = sda1
    sdb1 = sdb1
    Devices = {sda1, sdb1}
    MaxEvents = 4
SYMMETRY DeviceSymmetry
INVARIANTS
    
    NoDeletedUse
    
    
