SPECIFICATION Spec
CONSTANTS
  Transfers <- MCTransfers
INVARIANTS SumsFit IsoVerifies CrcDetects IsoDetects
PROPERTIES SumsStandard CrcDivides
CHECK_DEADLOCK FALSE
