SPECIFICATION Spec
CONSTANTS
    Msg = {m1, m2}
    Req = {r1, r2}
    NoMsg = NoMsg
    Skew = 1
    Floor = 2
    Ahead = 2
    MaxNonceFaults = 1
    LoginReq = {l1}
    AccessTTL = 1
    ElevatedTTL = 1
    MaxAccounts = 2
    MaxDbFaults = 1
    LockTTL = 1
    RespTTL = 2
    MaxExecs = 2
    MaxFaults = 1
    MaxAllFaults = 2
SYMMETRY Symmetry
CONSTRAINT LoginWhenNeeded
INVARIANTS
    TypeOK
    ReplayPaid
    NonceMeansUsed
    OneAccountPerKey
    AccountComesWithToken
    ResentWasOpened
PROPERTY SuspensionStands
CHECK_DEADLOCK FALSE
