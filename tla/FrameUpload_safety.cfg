SPECIFICATION Spec
CONSTANTS
  Captures = {c1}
  Indexes = {0, 1}
  Contents = {x, y}
  NoContent = none
  Requests = {r1, r2}
CHECK_DEADLOCK FALSE
INVARIANT ConfirmedIsRecorded
INVARIANT NeverOvercounted
PROPERTY KeepsLedger
