SPECIFICATION FairSpec
CONSTANTS
  RetryKeys = {k1, k2}
  RetryStages = {"IMAGE_PROCESSING", "SOLVING", "AUDIO_ASSEMBLING", "CANCELLED"}
  SessionTypes = {"EXAM", "HANDWRITTEN_WORD"}
  MayCancel = FALSE
  MaxOrphans = 1
  Faults = {}
CHECK_DEADLOCK FALSE
PROPERTY LegalTransitions
PROPERTY ExamFinishes
