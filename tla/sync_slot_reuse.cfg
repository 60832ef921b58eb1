SPECIFICATION Spec
CONSTANTS
  Ids = {1, 2}
  FreeKeep = 0
  BatchIdle = 1
  BatchWaiting = 2
  QuietReuse = TRUE
  QuietSlot = FALSE
  QuietClient = TRUE
  MaxObjects = 2
  MaxMessages = 5
  MaxState = 1
  MaxLogins = 2
PROPERTIES CreationWaits
CHECK_DEADLOCK FALSE
