SPECIFICATION Spec
CONSTANTS
  RetryKeys = {k1}
  RetryStages = {"IMAGE_PROCESSING", "SOLVING", "AUDIO_ASSEMBLING", "CANCELLED"}
  SessionTypes = {"EXAM", "HANDWRITTEN_WORD"}
  MayCancel = TRUE
  MaxOrphans = 1
  Faults = {"activity", "dispatch", "request"}
CONSTRAINT RetryOfExamAlone
CHECK_DEADLOCK FALSE
INVARIANT IntentBehindLock
INVARIANT CancelReachesDevice
INVARIANT GatesGuardStates
INVARIANT ResultBeforeEnd
