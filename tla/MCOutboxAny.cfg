CONSTANTS
  ann = ann
  bob = bob
  a1 = a1
  a2 = a2
  b1 = b1
  cv1 = cv1
  User = {ann, bob}
  Device = {a1, a2, b1}
  Conversation = {cv1}
  ClientId = {c1, c2}
  Body = {t1}
  Request = {r1, r2}
  None = None
  Owner <- MCOwner
  Members <- MCMembers
  Phone = a1
  Chat = cv1
  MaxOpen = 2
SYMMETRY Symmetry
SPECIFICATION OutboxSpec
CHECK_DEADLOCK FALSE
INVARIANTS FanOut OutboxTypeOK SentOnceOrTold
