SPECIFICATION FairSpec
CONSTANTS
  QUEUE_SIZE = 2
  Cpus = {"c1"}
  Vectors = {"v"}
  Icvec <- OneVector
  RequestKinds = {"last", "disallowed"}
  MaxRecords = 2
  MaxMasks = 1
  MaxRestarts = 1
  Alone = TRUE
  Quiet = TRUE
INVARIANTS RecordsIntact NoLostInterrupt EachPageRequestOnce
PROPERTY RecordsReachDriver
CHECK_DEADLOCK FALSE
