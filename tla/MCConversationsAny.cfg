CONSTANTS
  User = {ann, bob, cid}
  Active = {ann, bob}
  Request = {r1, r2, r3}
  Listing = {l1}
  None = None
SYMMETRY Symmetry
SPECIFICATION Spec
CHECK_DEADLOCK FALSE
INVARIANTS TypeOK ReturnedIsShared ListingWhole DuplicateOnlyByOverlap
