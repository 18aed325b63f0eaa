SPECIFICATION Spec
CONSTANTS
    Slots = {blue, green}
    Requests = {r1, r2}
    None = None
    StandbyUsed = FALSE
    MaxDeploys = 2
    MaxCrashes = 1
    MaxNotes = 1
SYMMETRY Symmetry
INVARIANTS HandedOver OneSlotServes
PROPERTIES DocumentGrows
CHECK_DEADLOCK FALSE
