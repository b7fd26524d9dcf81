CONSTANTS
  Device = {d1}
  KeyId = {k1, k2}
  Ident = {i1, i2}
  Upload = {u1, u2}
  Fetch = {f1, f2}
  None = None
SYMMETRY Symmetry
CONSTRAINT OneMeeting
SPECIFICATION Spec
CHECK_DEADLOCK FALSE
INVARIANTS TypeOK ClaimedOnce UsedIffClaimed TwoActiveOnlyByOverlap PrekeyLostOnlyByError TornOnlyByUpload
PROPERTIES KeysNeverReissued
