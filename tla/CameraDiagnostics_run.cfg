SPECIFICATION Spec
CONSTANTS
  d1 = d1
  d2 = d2
  x = x
  y = y
  Diags = {d1, d2}
  Plans <- MCPlans
  Gateways = {g1}
  Indexes = {0, 1}
  Contents = {x, y}
  None = none
CHECK_DEADLOCK FALSE
INVARIANT OneCamera
INVARIANT FrameIsKept
PROPERTY CameraFreed
