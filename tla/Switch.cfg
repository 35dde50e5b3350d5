SPECIFICATION LiveSpec
CONSTANTS
  Relays = {0, 1}
  a = a
  Address = {a}
  NoAddress = NoAddress
  None = None
  Values = {1}
  QueueLength = 2
  LAST_COUNTER = 1
INVARIANTS
  TypeOK
  StoredAgrees
  CounterFresh
  SendAwake
  CommonTerminal
PROPERTIES
  BlindInterlock
  QueueDropsOldest
  RelaysFollow
