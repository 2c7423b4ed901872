SPECIFICATION Spec
CONSTANTS
    Slot = {s1,s2}
    MaxPINAttempts = 3
    Lockout = 2
    MaxTime = 3
    MaxMisses = 5
    MaxFaults = 0
    Nil = Nil
SYMMETRY SlotSymmetry
CHECK_DEADLOCK FALSE
PROPERTY WrongPINKeepsLock
