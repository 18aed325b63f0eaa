SPECIFICATION Spec
CONSTANTS
    Accounts = {a1, a2, a3}
    Requests = {r1}
    Sessions = {s1, s2}
    None = None
    Deadlines = {}
    Happenings = {{"delete", "register"}, {"delete", "lapse", "deadline"}}
    Slots = 1
    Capacity = 1
    MaxObjects = 2
SYMMETRY Symmetry
INVARIANTS Owned
PROPERTIES PointerKept ConversationStays
CHECK_DEADLOCK FALSE
