SPECIFICATION FairSpec
CONSTANTS
  Ids = {1, 2}
  FreeKeep = 0
  BatchIdle = 1
  BatchWaiting = 2
  QuietReuse = TRUE
  QuietSlot = TRUE
  QuietClient = TRUE
  MaxObjects = 3
  MaxMessages = 6
  MaxState = 0
  MaxLogins = 1
INVARIANTS KnownIsHeld NoOrphan
PROPERTIES CreationWaits EventuallyKnown EventuallyGone
CHECK_DEADLOCK FALSE
