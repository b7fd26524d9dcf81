CONSTANTS
  Msg = {m1, m2, m3}
  Opening = {o1, o2}
  Listing = {o1, o2, l1}
  Limit = 2
  MaxClock = 1
  None = None
SYMMETRY Symmetry
SPECIFICATION ChatSpec
CHECK_DEADLOCK FALSE
INVARIANTS ChatTypeOK WalkMissesOnlyTies DeliveredButUnsaved
