CONSTANTS
  ann = ann
  bob = bob
  q1 = q1
  User = {ann, bob}
  Request = {q1, q2, q3, q4}
  Conversation = {cv1}
  ClientId = {c1}
  Body = {t1}
  Send = {m1}
  None = None
  Owner <- MCOwner
  Members <- MCMembers
SYMMETRY Symmetry
CONSTRAINT StoredOrUnderWay
SPECIFICATION BackendSpec
CHECK_DEADLOCK FALSE
INVARIANTS BackendTypeOK NeverBothLive SpentOnceAnswered SplitOnlyByOverlap LogoutEndsSession OrphanOnlyByStopOrExpiry LoggedOutIsCutOff
PROPERTIES RevocationIsFinal
