SPECIFICATION FairSpec
CONSTANTS
  START_BYTE = START
  STOP_BYTE = STOP
  ESCAPE_BYTE = ESC
  PlainBytes = {a}
  PayloadMax = 2
  EncodedMax = 3
  DecodedMax = 2
  MaxPackets = 2
  Payloads <- MCPayloads
INVARIANTS TypeOK BuffersInBounds ZeroMeansFinished
PROPERTIES PipeSafety LoopEnds EventuallyDelivered
CHECK_DEADLOCK FALSE
