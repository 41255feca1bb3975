SPECIFICATION FairSpec
CONSTANTS
  Client = Client
  Server = Server
  MAX_PAYLOAD_LEN = 2
  Frames <- TwoFrames
  ForeignFrames <- NoFrames
  Chunk = 5
  PipeCapacity = 6
  StreamBuffer = 3
  Portions = {16}
  Writers = {Client, Server}
  MaxSends = 2
  Faults = {"close"}
PROPERTIES EveryFrameArrives SendReturnsUnlessWedged
CHECK_DEADLOCK FALSE
