CONSTANTS
    Calls = {p1, p2}
    Requests = {r1}
    Connections = {c1}
    Owners = {o1}
    Bodies = {b1}
    None = None
    MayCancel = TRUE
    MaxCrashes = 1
    MaxStoreErrors = 0
    MaxRotations = 1
SPECIFICATION FairSpec
PROPERTIES StartedSettles WaiterEnds
CHECK_DEADLOCK FALSE
