CONSTANTS
  User = {ann, bob, cid}
  Active = {ann, bob}
  Request = {r1, r2}
  Listing = {}
  None = None
SYMMETRY Symmetry
SPECIFICATION Spec
CHECK_DEADLOCK FALSE
INVARIANTS OneConversationPerPair
