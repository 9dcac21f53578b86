SPECIFICATION Spec
CONSTANTS
  Contents = {x, y}
  Incomplete = none
  Keys = {}
  NoKey = noKey
  ItemCount = 1
  MaxRevision = 2
  MaxCursor = 4
  Publishers = {"workflow", "debug"}
  EnabledSettings = {TRUE, FALSE}
SYMMETRY Symmetry
CHECK_DEADLOCK FALSE
INVARIANT ReadyIsServed
INVARIANT CurrentClientIsRight
