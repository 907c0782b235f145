SPECIFICATION Spec
CONSTANTS
  START_BYTE = START
  STOP_BYTE = STOP
  ESCAPE_BYTE = ESC
  PlainBytes = {a}
  PayloadMax = 3
  EncodedMax = 8
  DecodedMax = 1
  MaxPackets = 1
  Payloads <- MCPayloads
INVARIANT OversizeNotDelivered
CHECK_DEADLOCK FALSE
