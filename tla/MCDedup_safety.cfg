SPECIFICATION Spec
CONSTANTS
  LAST_PAGE = 2
  MaxTasks = 4
  PREFETCH_DEPTH = 1
  BUFFER_SIZE = 3
  RAMS = 1
  WAYS = 2
  INSIDE_DEPTH = 1
  UPDATE_DEPTH = 2
  HASH_DEPTH = 1
  RAM_DEPTH = 1
  PTW_MAX = 2
  Unmapped <- SecondPageFaults
  FirstTable = FALSE
  TwoStage = TRUE
  Prompt = FALSE
INVARIANTS TypeOK ChainsWellFormed TaskOutlivesItsWalk AnsweredOnce
CHECK_DEADLOCK FALSE
