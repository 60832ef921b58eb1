SPECIFICATION FairSpec
CONSTANTS
  IdSpace = 8
  Reserved = 1
  Window = 5
  AckBack = 3
  MaxNoAck = 1
  PacketLimit = 0
  AckBatch = 1
  MaxLeft = 1
  ToClient = FALSE
  Start = 0
  Span = 2
  Gap = 3
  FirstIdBound = 4
  RingAge = 5
  MaxCreated = 2
PROPERTIES EventuallyAcked
CONSTRAINT LeftWhenQuiet
CHECK_DEADLOCK FALSE
