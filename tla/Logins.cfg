CONSTANTS
  Flows = {f1, f2}
  Calls = {c1, c2}
  Conns = {i1, i2}
  Users = {u1, u2}
  Identities <- Shared
  None = None
  Imported = Imported
  Kinds = {"social", "idc"}
  MaxCalls = 3
  MaxRotations = 1
SPECIFICATION Spec
SYMMETRY Symmetric
INVARIANTS PollsExclusive GrantedOnce SoldOnce
PROPERTIES GoneStaysGone
CHECK_DEADLOCK FALSE
