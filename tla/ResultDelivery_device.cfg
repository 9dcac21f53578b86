SPECIFICATION FairSpec
CONSTANTS
  Contents = {x}
  Incomplete = none
  Keys = {k1, k2}
  NoKey = noKey
  ItemCount = 2
  MaxRevision = 1
  MaxCursor = 4
  Publishers = {"workflow"}
  EnabledSettings = {TRUE}
CHECK_DEADLOCK FALSE
INVARIANT RowMatchesLog
INVARIANT CompletedOnce
INVARIANT CancelFence
PROPERTY ResultReachesDevice
