CONSTANTS
    Calls = {p1, p2}
    Requests = {r1}
    Connections = {c1}
    Owners = {o1, o2}
    Bodies = {b1, b2}
    None = None
    MayCancel = TRUE
    MaxCrashes = 1
    MaxStoreErrors = 1
    MaxRotations = 1
SPECIFICATION Spec
SYMMETRY Symmetry
INVARIANTS TypeOK AtMostOneGeneration FencedNeverGenerates Told LockProtects
PROPERTIES LedgerSpec
CHECK_DEADLOCK FALSE
