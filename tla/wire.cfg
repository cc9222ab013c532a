SPECIFICATION Spec
CONSTANTS
  Contents <- AllContents
  StartSeqs <- SomeNumbers
  CHUNK_SIZE = 5
  BufferSize = 24
  Garbage <- BlankOrFull
  Damages <- SomeBursts
  Sent <- TwoAndMore
CHECK_DEADLOCK FALSE
INVARIANTS OutputIsTheFile ChecksumIsCrc DamageIsDetected AckReadsBack
PROPERTY ImplementsPackets
