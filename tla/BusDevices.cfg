SPECIFICATION Spec
CONSTANTS
  n1 = n1
  n2 = n2
  Nodes = {n1, n2}
  None = None
  MAX_ELEMENT_COUNT = 2
  LAST_ADDRESS = 1
  MAX_RETRY = 1
  QueueLength = 1
  EndpointCounts = {0, 1, 2}
  Decommission = TRUE
INVARIANTS
  TypeOK
  ElementsMatch
  OldDeviceStays
  RestartAgrees
PROPERTIES
  OthersSurvive
SYMMETRY Alike
