SPECIFICATION FaultySpec
CONSTANTS
  START_BYTE = START
  STOP_BYTE = STOP
  ESCAPE_BYTE = ESC
  PlainBytes = {}
  PayloadMax = 1
  EncodedMax = 3
  DecodedMax = 1
  MaxPackets = 3
  MaxFaults = 1
  MaxRestarts = 1
  Payloads <- MCMixed
INVARIANTS FaultsTypeOK BuffersInBounds Resynchronised
CHECK_DEADLOCK FALSE
