SPECIFICATION LiveSpec
CONSTANTS
  v1 = v1
  v2 = v2
  w1 = w1
  w2 = w2
  None = None
  Version = {v1, v2}
  MaxSub = 2
  Clean = {1}
  Worker = {w1, w2}
  MaxAttempts = 2
  Reaping = TRUE
  Durable = TRUE
  MaxRestarts = 1
INVARIANT OneWorkerPerJob
INVARIANT VettedOnce
INVARIANT NoLimbo
INVARIANT AttemptLeft
PROPERTY JobSettles
CHECK_DEADLOCK FALSE
