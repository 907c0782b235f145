SPECIFICATION FairSpec
CONSTANTS
  t1 = t1
  t2 = t2
  d1 = d1
  d2 = d2
  peer = peer
  b1 = b1
  b2 = b2
  b3 = b3
  i1 = i1
  i2 = i2
  i3 = i3
  x = x
  y = y
  Tasks = {t1}
  Drivers = {d1, d2}
  Buses = {b1, b2, b3}
  Interfaces = {i1, i2, i3}
  Pids = {t1, peer}
  Data = {x}
  bus_to_packetizer_cfg <- ReceiveCfg
  port_to_bus_map <- ReceiveMap
  Routes <- ReceiveRoutes
  Received <- ReceiveReceived
  Provided = {}
  valid_buses = {b1, b2, b3}
  ExpectedType = "Telemetry"
  MaxSeq = 1
  Callbacks = {cb1, cb2}
  NULL = NULL
  NoThread = NoThread
  NONE = NONE
  INTERFACE_INVALID_ID = INTERFACE_INVALID_ID
  MaxRequests = 1
  MaxArrivals = 2
PROPERTIES AtomicCalls EveryCallReturns
