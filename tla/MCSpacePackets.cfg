SPECIFICATION Spec
CONSTANTS
  Packetizers = {"DEFAULT", "STRICT_CCSDS", "THIN"}
  Requests <- MCRequests
  Data <- MCData
  DataHits <- MCDataHits
  Bursts <- MCBursts
  writeCrc <- MCCrc16
  writeChecksum <- MCIsoChecksum
  Counts <- MCCounts
  ExpectedType = "Telecommand"
  NONE = NONE
INVARIANTS TypeOK SentIsReceived DamageDetected TableAgrees StrictIsCcsds
CHECK_DEADLOCK FALSE
