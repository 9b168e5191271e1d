SPECIFICATION FairSpec
CONSTANTS
  QUEUE_SIZE = 4
  MAX_ITAGS = 2
  CC = 2
  Programs <- Mixes
  MaxRestarts = 2
  MaxExpiries = 1
  Batched = TRUE
  LateAnswers = FALSE
  Patient = TRUE
INVARIANTS EachCommandOnce FenceMeansDone WaitHasReason StopIsSignalled
PROPERTY QueueResumes
CHECK_DEADLOCK FALSE
