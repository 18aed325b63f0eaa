SPECIFICATION FilesSpec
CONSTANTS
    Journal = Journal
    Absent = Absent
    Clients = {c1, c2}
    Procs = {p1}
    Commands = {"setup", "restore"}
    Selections = {{c1, c2}, {c2}}
    Versions = {v1, v2}
    Movable = {c2, Journal}
    MaxRuns = 2
    MaxEdits = 2
    MaxMoves = 1
    MaxCrashes = 1
    MaxFails = 1
    MaxTroubles = 2
    Askers = {a1, a2}
    NoAsker = NoAsker
    LastVersion = 3
SYMMETRY Symmetry
INVARIANTS FilesKept RecoverableUntilTorn UpdatesKept
PROPERTIES UndoneIsUndone UpdatesForward
CHECK_DEADLOCK FALSE
