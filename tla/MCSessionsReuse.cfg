CONSTANTS
  Request = {q1, q2, q3}
  None = None
SYMMETRY Symmetry
SPECIFICATION Spec
CHECK_DEADLOCK FALSE
INVARIANTS RedeemedOnce
