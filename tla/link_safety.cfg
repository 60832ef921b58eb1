SPECIFICATION IdsSpec
CONSTANTS
  IdSpace = 12
  Reserved = 0
  Window = 10
  AckBack = 3
  MaxNoAck = 1
  PacketLimit = 0
  AckBatch = 0
  MaxLeft = 1
  ToClient = TRUE
  Start = 9
  Span = 2
  Gap = 3
  FirstIdBound = 2
  RingAge = 5
  MaxCreated = 6
  Quarter = 3
  LeftQuarters <- Left
INVARIANTS TypeOK AtMostOnce AckPendingCounts AckedWasAccepted ExpandedInOrder
PROPERTIES ImplementsChannel SurelyNew OldWasSeen
CHECK_DEADLOCK FALSE
