SPECIFICATION Spec
CONSTANTS
  Packetizers = {"THIN", "STRICT_CCSDS"}
  Requests <- MCLengths
  Data <- MCData
  DataHits <- MCDataHits
  Bursts <- MCBursts
  writeCrc <- MCCrc16
  writeChecksum <- MCIsoChecksum
  Counts <- MCCounts
  ExpectedType = "Telecommand"
  NONE = NONE
INVARIANTS AssertedIsReceived
CHECK_DEADLOCK FALSE
