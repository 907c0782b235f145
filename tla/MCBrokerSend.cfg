SPECIFICATION Spec
CONSTANTS
  t1 = t1
  t2 = t2
  d1 = d1
  d2 = d2
  peer = peer
  b1 = b1
  b2 = b2
  b3 = b3
  i1 = i1
  i2 = i2
  i3 = i3
  x = x
  y = y
  Tasks = {t1, t2}
  Drivers = {d1}
  Buses = {b1, b2}
  Interfaces = {i1, i2}
  Pids = {t1, t2, peer}
  Data = {x, y}
  bus_to_packetizer_cfg <- SendCfg
  port_to_bus_map <- SendMap
  Routes <- SendRoutes
  Received <- SendReceived
  Provided = {}
  valid_buses = {b1, b2}
  ExpectedType = "Telemetry"
  MaxSeq = 1
  Callbacks = {cb1}
  NULL = NULL
  NoThread = NoThread
  NONE = NONE
  INTERFACE_INVALID_ID = INTERFACE_INVALID_ID
  MaxRequests = 3
  MaxArrivals = 1
INVARIANTS TypeOK SequenceConsecutive PassthroughResolved
PROPERTIES AtomicCalls
