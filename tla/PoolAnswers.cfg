SPECIFICATION FairSpec
CONSTANTS
    Accounts = {a1, a2}
    Requests = {r1}
    Sessions = {}
    None = None
    Deadlines = {"auth_dead"}
    Happenings = {{"usage", "probe", "catalog", "disable"}, {"issue", "deadline", "disable"}}
    Slots = 1
    Capacity = 1
    MaxObjects = 1
INVARIANTS DrainedIdle
PROPERTIES RequestAnswered PauseEnds
CHECK_DEADLOCK FALSE
