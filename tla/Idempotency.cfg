SPECIFICATION FairSpec
CONSTANTS
    Req = {r1, r2, r3}
    LockTTL = 2
    RespTTL = 3
    MaxExecs = 3
    MaxFaults = 2
INVARIANTS
    TypeOK
    OneHandler
    LockIsHeld
    RetryPaid
PROPERTY LockClears
CHECK_DEADLOCK FALSE
