SPECIFICATION Spec
CONSTANTS
    Cust = {c1,c2}
    Form <- MCForm
    RSlot = {r1}
    VSlot = {v1,v2}
    Minute = 1
    MaxTime = 2
    MaxFaults = 1
    Nil = Nil
    People <- MCPeople
    Address <- MCAddress
SYMMETRY MCSymmetry
CHECK_DEADLOCK FALSE
INVARIANTS
    TypeOK
    ActiveIsConfirmed
    ConfirmedIsActive
    PendingHasCode
    UniqueIdentity
    StoredWasSent
    PhoneIsFound
PROPERTY ImplementsMembership
