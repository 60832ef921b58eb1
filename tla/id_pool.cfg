SPECIFICATION FairSpec
CONSTANTS
  Ids = {i1, i2, i3}
  Users = {u1, u2}
  Server = server
  Freed = freed
  Prefetch = 3
  NeedBelow = 2
  Batch = 2
  First = 2
  FreeKeep = 0
  HogLimit = 2
  MaxAsked = 1
INVARIANTS TypeOK CreationIsAccepted OwnIsThere NoIdIsLost EmptyRingIsServed
PROPERTIES ImplementsLeases EventuallyTaken
CHECK_DEADLOCK FALSE
