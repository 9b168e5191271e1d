SPECIFICATION FairSpec
CONSTANTS
  MaxTasks = 3
  Requests <- MixedRequests
  DDT <- Devices
  PDT <- Processes
  COLLECTOR_MAX_WALK <- OneDevice
  XDTW_MAX <- OneEach
  PARSER_DEPTH = 2
  REQUEST_DEPTH = 1
  RESPONSE_DEPTH = 1
  UPDATE_DEPTH = 1
  XDTW_DEPTH = 1
  BACK_DEPTH = 1
INVARIANTS CountersMatchWalks OneOwner SameAsSequential
PROPERTY EveryTaskLeaves
CHECK_DEADLOCK FALSE
