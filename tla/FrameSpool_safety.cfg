SPECIFICATION Spec
CONSTANTS
  Sources = {"ANDROID_CAMERA", "ESP32_CAMERA"}
  MaxCursor = 1
  ManualCaptures = 2
  Frames = 2
  Contents = {x, y}
  NoContent = none
  MaxPages = 1
  MaxAttempts = 1
  Faults = {"preferences"}
CONSTRAINT Bounds
CHECK_DEADLOCK FALSE
INVARIANT AckedIsStored
INVARIANT EffectIsDurable
INVARIANT EspPendingKept
INVARIANT PagesBounded
INVARIANT CommandsAreDrained
