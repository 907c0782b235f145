SPECIFICATION FaultySpec
CONSTANTS
  START_BYTE = START
  STOP_BYTE = STOP
  ESCAPE_BYTE = ESC
  PlainBytes = {a}
  PayloadMax = 1
  EncodedMax = 3
  DecodedMax = 2
  MaxPackets = 2
  MaxFaults = 0
  MaxRestarts = 1
  Payloads <- MCPayloads
INVARIANT RestartIntact
CHECK_DEADLOCK FALSE
