SPECIFICATION FramingSpec
CONSTANTS
  Writes <- MCWrites
  ReservedWrites <- MCReservedWrites
  Bytes <- MCBytes
  MaxFrameBytes = 4
  InitialQueue <- MCInitialQueue
  NegotiatedQueues <- MCNegotiatedQueues
  NoWrite = NoWrite
  Streams <- MCStreams
  MaxDecodedBytes = 2
  MaxChunk = 7
  NoBody = NoBody
INVARIANTS
  QueueAccounting
  NoIdleCapacity
  FramesMatchStream
  DeadlineCoversPartialFrame
PROPERTIES
  AdmittedSettles
CHECK_DEADLOCK FALSE
