SPECIFICATION LiveSpec
CONSTANTS
  n1 = n1
  n2 = n2
  Nodes = {n1}
  None = None
  MAX_ELEMENT_COUNT = 2
  LAST_ADDRESS = 1
  MAX_RETRY = 2
  QueueLength = 2
  EndpointCounts = {0, 1, 2}
  Decommission = TRUE
INVARIANT AnswersFit
PROPERTY CommissionEnds
