SPECIFICATION FairSpec
CONSTANTS
  MaxCommands = 2
  DrainLimit = 20
  EspEvents = {"FORWARDED", "RECEIVED", "APPLIED", "OFF"}
  Faults = {}
CHECK_DEADLOCK FALSE
INVARIANT SentIsKnown
PROPERTY DeviceFreed
