SPECIFICATION Spec
CONSTANTS
    Req = {r1, r2}
    LockTTL = 2
    RespTTL = 3
    MaxExecs = 3
    MaxFaults = 0
INVARIANT ExecutedOnce
CHECK_DEADLOCK FALSE
