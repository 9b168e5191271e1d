SPECIFICATION Spec
CONSTANTS
  Keys <- SafeKeys
  Commands <- LazyCommands
  LIB_SIZE = 2
  VN_MAX = 3
  PT_RAMS = 2
  WALKER_RAMS = 1
  LazyEnabled = TRUE
  MaxWalks = 1
  LastVn = 3
  Drained = TRUE
INVARIANTS InvalidatedNeverHit NeverAhead
