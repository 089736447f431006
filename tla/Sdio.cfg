SPECIFICATION MCSpec
CONSTANTS QMax = 2 RxMax = 2 Thresh = 1 Buffers = 3 tx_aggr_counter = 3 MaxTrgg = 2 MaxMade = 3
  Inputs = {"data", "command", "scan", "suspend"}
  Settings <- AllSettings
CHECK_DEADLOCK FALSE
INVARIANTS BuffersSuffice WaitersServed
PROPERTIES TrafficFlows BusRests
