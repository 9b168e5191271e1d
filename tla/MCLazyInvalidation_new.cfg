SPECIFICATION Spec
CONSTANTS
  Keys <- NewKeys
  Commands <- NewCommands
  LIB_SIZE = 2
  VN_MAX = 4
  PT_RAMS = 1
  WALKER_RAMS = 1
  LazyEnabled = TRUE
  MaxWalks = 2
  LastVn = 2
  Drained = FALSE
INVARIANTS NewLineHits
