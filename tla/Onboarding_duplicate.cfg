SPECIFICATION Spec
CONSTANTS
    Cust = {c1,c2}
    Form <- MCForm
    RSlot = {r1,r2}
    VSlot = {v1}
    Minute = 2
    MaxTime = 2
    MaxFaults = 0
    Nil = Nil
SYMMETRY MCSymmetry
CHECK_DEADLOCK FALSE
INVARIANT UniqueIdentity
