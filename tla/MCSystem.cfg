SPECIFICATION FairSpec
CONSTANTS
  Partitions = {1, 2, 3}
  SYSTEM_BUSES_NUMBER = 3
  INTERFACE_MAX_ID = 4
  SYSTEM_DEVICE_NUMBER = 5
  device_to_bus_map <- MCBus
  packetizer_configurations <- MCKinds
  owner <- MCOwner
  PortMaps <- MCPortMaps
  SendType <- MCSend
  ExpectType <- MCExpect
  Data = {x}
  MaxRequests = 2
INVARIANTS TypeOK StopsIfAmbiguous RightInterface 
PROPERTIES Arrives
CHECK_DEADLOCK FALSE
