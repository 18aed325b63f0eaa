CONSTANTS
  Callers = {r1, r2, x1}
  Clients = {r1, r2}
  Accounts = {a1, a2}
  Endpoints = {e1, e2}
  Direct = Direct
  None = None
  Absent = Absent
  MaxTries = 2
  Strategies = {"off", "ordered", "fastest"}
  Chains <- ProxyChains
  Limits <- Settings
  MaxChanges = 1
  KeyLimits = {0, 1, 2}
  MaxEdits = 1
  Weathers = {"keys", "slots", "limits", "routes", "stream", "payload"}
  Conversations <- Dialogues
  Plain <- Question
  Caps = {5, 9}
  MaxSilences = 2
  MaxChunks = 3
  MaxSearches = 2
SPECIFICATION Spec
SYMMETRY Symmetric
INVARIANTS SlotsHeld Answered KeysHeld ToolsPaired
CHECK_DEADLOCK FALSE
