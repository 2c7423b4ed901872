SPECIFICATION Spec
CONSTANTS
    Proc = {api1, gen}
    Api = {api1}
    Key = {k1, k2, k3, k4}
    MaxCrashes = 2
    NoKeyset = NoKeyset
SYMMETRY KeySymmetry
INVARIANTS
    TypeOK
    StoredReadable
    ServedReadable
    PrimaryPersisted
PROPERTIES
    VersionNeverFalls
    ImplementsVault
CHECK_DEADLOCK FALSE
