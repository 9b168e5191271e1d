SPECIFICATION LoadSpec
CONSTANTS
  Walkers <- TwoWalkers
  Walks <- TwoPlusOne
  Steps <- StepsOf
  Callers = {"rp", "fault"}
  CallKind <- ReadAndWrite
  MrifWrites = {"bit0"}
  ReqDepth = 1
  RspDepth = 1
  CtrlDepth = 2
  DDR_MAX_OUTSTANDING = 2
  AXI_MASTER_1_MAX = 2
  DdrFifo = 2
  DDR_READ_MAX = 1
  DDR_WRITE_MAX = 1
  MaxCalls = 3
INVARIANTS RightOwner CountersMatch OwnDataAlone
PROPERTY EveryAccessEnds
CHECK_DEADLOCK FALSE
