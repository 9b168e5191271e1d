SPECIFICATION StuckSpec
CONSTANTS
  Devices <- TwoDevices
  Queues = {1, 2}
  QueueOf <- PerDevice
  Ports = {"RW"}
  PortOf <- SinglePort
  GLOBAL_MAX = 3
  READ_MAX = 1
  WRITE_MAX = 2
  FIFO_DEPTH_INBOUND = 1
  FIFO_DEPTH_FAULT = 1
  MaxTasks = 3
PROPERTIES ReadsNeverWait HeadWriteAnswered
CHECK_DEADLOCK FALSE
