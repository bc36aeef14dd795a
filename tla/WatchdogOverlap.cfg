\* The interval of a replaced generation keeps ticking while it drains.
SPECIFICATION Spec
CONSTANTS
  Requests = {q1, q2}
  MaxEdits = 2
INVARIANTS
  TicksNeverDoubleUp
CHECK_DEADLOCK FALSE
