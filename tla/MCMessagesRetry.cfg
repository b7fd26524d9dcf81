CONSTANTS
  ann = ann
  bob = bob
  a1 = a1
  b1 = b1
  cv1 = cv1
  cv2 = cv2
  r1 = r1
  r2 = r2
  r3 = r3
  User = {ann, bob}
  Device = {a1, b1}
  Conversation = {cv1, cv2}
  ClientId = {c1}
  Body = {t1}
  Request = {r1, r2, r3}
  None = None
  Owner <- MCOwner
  Members <- MCMembers
SPECIFICATION FairSpec
ACTION_CONSTRAINTS InOrder AnnStays
CHECK_DEADLOCK FALSE
INVARIANTS TypeOK NoDuplicateMessage AckedIsStored
PROPERTIES ImplementsMessageLog EveryRequestEnds
