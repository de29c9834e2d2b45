SPECIFICATION Spec
CONSTANTS
  v1 = v1
  v2 = v2
  w1 = w1
  w2 = w2
  None = None
  Version = {v1, v2}
  MaxSub = 2
  Clean = {1}
  Worker = {w1}
  MaxAttempts = 2
  Reaping = FALSE
  Durable = FALSE
  MaxRestarts = 0
CHECK_DEADLOCK FALSE
INVARIANT BadUploadNeverLive
