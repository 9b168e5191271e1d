SPECIFICATION FairSpec
CONSTANTS
  Devices <- OneDevice
  Queues = {1}
  QueueOf <- OneQueue
  Ports = {"READ", "WRITE"}
  PortOf <- SplitPorts
  GLOBAL_MAX = 2
  READ_MAX = 1
  WRITE_MAX = 2
  FIFO_DEPTH_INBOUND = 1
  FIFO_DEPTH_FAULT = 1
  MaxTasks = 4
INVARIANTS TypeOK CountersMatchTasks OnePlaceEach
PROPERTIES Refines PortsGetIn
CHECK_DEADLOCK FALSE
