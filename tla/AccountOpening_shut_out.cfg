SPECIFICATION OpeningSpec
CONSTANTS
    Req = {r1, r2}
    LoginReq = {l1}
    AccessTTL = 1
    ElevatedTTL = 2
    MaxAccounts = 1
    MaxDbFaults = 0
INVARIANT OpenFirstIsTrue
CHECK_DEADLOCK FALSE
