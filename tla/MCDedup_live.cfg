SPECIFICATION FairSpec
CONSTANTS
  LAST_PAGE = 2
  MaxTasks = 4
  PREFETCH_DEPTH = 1
  BUFFER_SIZE = 2
  RAMS = 1
  WAYS = 2
  INSIDE_DEPTH = 2
  UPDATE_DEPTH = 1
  HASH_DEPTH = 1
  RAM_DEPTH = 1
  PTW_MAX = 1
  Unmapped <- NoFault
  FirstTable = FALSE
  TwoStage = TRUE
  Prompt = TRUE
INVARIANTS BypassedAnswered NoAbandonedLine
PROPERTY EveryMissAnswered
CHECK_DEADLOCK FALSE
