SPECIFICATION Spec
CONSTANTS
    Slots = {blue, green}
    Objects = {u1, u2}
    None = None
    MaxLogins = 2
    MaxRefreshes = 2
    MaxStalls = 1
    MaxFailures = 1
SYMMETRY Symmetry
INVARIANTS TypeOK NeverTwice StoredTokenUsable DeadIsDead LeaseHonoured
PROPERTIES TokenNeverRegresses
