SPECIFICATION Spec
CONSTANTS
    Slot = {s1, s2, s3}
    MaxPINAttempts = 3
    Lockout = 2
    MaxTime = 5
    MaxMisses = 6
    MaxFaults = 1
    Nil = Nil
SYMMETRY SlotSymmetry
INVARIANTS
    TypeOK
    LockMatchesAttempts
    NoSpuriousLock
    EveryMissCounted
    ThirdMissLocks
PROPERTY LockHolds
CHECK_DEADLOCK FALSE
