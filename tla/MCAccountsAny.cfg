CONSTANTS
  Request = {q1, q2, q3, q4}
  MaxAttempts = 1
  MaxFaults = 1
  None = None
SYMMETRY Symmetry
SPECIFICATION AccountSpec
CHECK_DEADLOCK FALSE
INVARIANTS AccountTypeOK AcceptedTwiceOnlyByOverlap GuessBudget CounterExpires RegisteredOnce SpentCodeActivates RegisterSendsCode
PROPERTIES FreshBudget CodeGoesForCause
