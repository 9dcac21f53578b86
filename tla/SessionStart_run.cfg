SPECIFICATION Spec
CONSTANTS
  c1 = c1
  c2 = c2
  g1 = g1
  g2 = g2
  a1 = a1
  a2 = a2
  Connections = {c1, c2}
  Gateways = {g1, g2}
  Devices = {d1}
  Admins = {a1, a2}
  Global = global
  Values = {x, y}
  MaxRequests = 3
  MaxVersion = 3
  MaxRevision = 4
  Scenes <- MCScenes
  None = none
CHECK_DEADLOCK FALSE
INVARIANT OneActiveRevision
INVARIANT SettingsAreVersioned
INVARIANT SessionsAreBound
PROPERTY RequestsEnd
