SPECIFICATION Spec
CONSTANTS
  IdSpace = 8
  Reserved = 0
  Window = 4
  AckBack = 3
  MaxNoAck = 1
  PacketLimit = 1
  AckBatch = 1
  MaxLeft = 0
  ToClient = FALSE
  Start = 2
  Span = 2
  Gap = 3
  FirstIdBound = 100
  RingAge = 100
  MaxCreated = 4
PROPERTIES SurelyNew
CHECK_DEADLOCK FALSE
