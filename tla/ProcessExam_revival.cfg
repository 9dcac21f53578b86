SPECIFICATION Spec
CONSTANTS
  RetryKeys = {}
  RetryStages = {}
  SessionTypes = {"EXAM"}
  MayCancel = TRUE
  MaxOrphans = 1
  Faults = {}
CHECK_DEADLOCK FALSE
PROPERTY CancelIsDurable
