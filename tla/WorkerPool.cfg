SPECIFICATION Spec
CONSTANTS
    Request = {r1, r2}
    Worker = {w1, w2}
    BufferSize = 2
    Nil = Nil
INVARIANTS
    TypeOK
    NothingLost
    ProcessedOnce
    CleanMeansDone
    OnlySlowRequestsPanic
PROPERTIES
    Exits
    JobsDone
    ImplementsLedger
CHECK_DEADLOCK FALSE
