SPECIFICATION Spec
CONSTANTS
    Proc = {api1, api2}
    Api = {api1, api2}
    Key = {k1, k2, k3, k4}
    MaxCrashes = 2
    NoKeyset = NoKeyset
SYMMETRY KeySymmetry
INVARIANT StoredReadable
CHECK_DEADLOCK FALSE
