\* A threaded interp whose handlers do nothing; the clock passes a whole second.
SPECIFICATION PartsSpec
CONSTANTS
  Delays = {1, 2}
  Onces = {TRUE}
  Updates <- SomeUpdates
  Ops = {}
  Buckets = 2
  Index <- BucketOf
  MsPerSec = 2
  MaxTime = 5
  MaxIds = 2
  MaxDepth = 1
  None = None
PROPERTY NotEarly
CHECK_DEADLOCK FALSE
