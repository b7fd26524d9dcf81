CONSTANTS
  ann = ann
  bob = bob
  a1 = a1
  cv1 = cv1
  User = {ann, bob}
  Device = {a1, b1}
  Conversation = {cv1, cv2}
  ClientId = {k1, k2}
  Body = {x}
  Request = {r1, r2}
  Owner <- MCOwner
  Members <- MCMembers
  None = None
  Reader = b1
  Chat = cv1
  Listing = {l1, l2}
  Limit = 1
  MaxClock = 1
SYMMETRY Symmetry
ACTION_CONSTRAINT AnnStays
SPECIFICATION DeliverySpec
CHECK_DEADLOCK FALSE
INVARIANTS ReadsWhatWasSent
