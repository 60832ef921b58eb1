SPECIFICATION Spec
CONSTANTS
  Ids = {1}
  FreeKeep = 0
  BatchIdle = 1
  BatchWaiting = 2
  QuietReuse = TRUE
  QuietSlot = TRUE
  QuietClient = FALSE
  MaxObjects = 2
  MaxMessages = 5
  MaxState = 0
  MaxLogins = 1
PROPERTIES OrdersFindNoOwned
CHECK_DEADLOCK FALSE
