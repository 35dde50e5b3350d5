SPECIFICATION LiveSpec
CONSTANTS
  c1 = c1
  c2 = c2
  f1 = f1
  Clients = {c1, c2}
  Uses <- FewUses
  Forwards = {f1}
  Slots = {1, 2}
  NoClient = NoClient
  MAX_RETRY = 1
  PING_RETRY = 1
  FORWARD_RETRY = 1
INVARIANTS
  TypeOK
  OneConnection
  GrantHolds
  OkIsTaken
  TakenOnce
  ReceiverWakes
PROPERTIES
  
  ForwardsReturn
CHECK_DEADLOCK FALSE
