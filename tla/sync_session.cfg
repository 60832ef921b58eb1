SPECIFICATION Spec
CONSTANTS
  Ids = {1}
  FreeKeep = 0
  BatchIdle = 1
  BatchWaiting = 2
  QuietReuse = TRUE
  QuietSlot = TRUE
  QuietClient = TRUE
  MaxObjects = 3
  MaxMessages = 7
  MaxState = 3
  MaxLogins = 2
INVARIANTS TypeOK AcksPendingCounts RequestNotForgotten SettledIsCurrent DestroyersCounted
PROPERTIES ImplementsMirror
CHECK_DEADLOCK FALSE
