SPECIFICATION Spec
CONSTANTS
  MaxCommands = 2
  DrainLimit = 20
  EspEvents = {"FORWARDED", "RECEIVED", "APPLIED", "OFF", "FAILED"}
  Faults = {"page", "answer", "commit"}
CHECK_DEADLOCK FALSE
PROPERTY KeepsLease
INVARIANT PhysicalProof
INVARIANT CursorCoversCommands
