SPECIFICATION Spec
CONSTANTS
  Client = Client
  Server = Server
  MAX_PAYLOAD_LEN = 2
  Frames <- AllFrames
  ForeignFrames <- Unreadable
  Chunk = 20
  PipeCapacity = 20
  StreamBuffer = 9
  Portions = {5, 16}
  Writers = {Client}
  MaxSends = 2
  Faults = {"cancel", "close", "break", "rewrap"}
INVARIANTS TypeOK DeliveredInOrder BufferIsTheUnreturned WaitsOnlyForMissingBytes BufferBound
PROPERTIES RejectionIsFinal EndOfFileComesLast ImplementsTransport
CHECK_DEADLOCK FALSE
