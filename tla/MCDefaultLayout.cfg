SPECIFICATION Spec
CONSTANTS
  Packetizers = {"DEFAULT"}
  Requests <- MCSmall
  Data <- MCData
  DataHits <- MCDataHits
  Bursts <- MCBursts
  writeCrc <- MCCrc16
  writeChecksum <- MCIsoChecksum
  Counts <- MCCounts
  ExpectedType = "Telecommand"
  NONE = NONE
INVARIANTS DefaultIsCcsds
CHECK_DEADLOCK FALSE
