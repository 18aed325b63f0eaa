CONSTANTS
    Calls = {p1}
    Requests = {r1}
    Connections = {c1}
    Owners = {o1}
    Bodies = {b1}
    None = None
    MayCancel = TRUE
    MaxCrashes = 0
    MaxStoreErrors = 0
    MaxRotations = 0
SPECIFICATION Spec
INVARIANT RunningIsExecuted
CHECK_DEADLOCK FALSE
