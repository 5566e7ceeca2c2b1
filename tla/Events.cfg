\* Two timers besides the queue handler, a clock of two short seconds; and four short
\* seconds for updates without timers.
SPECIFICATION PartsSpec
CONSTANTS
  Delays = {1}
  Onces = {TRUE, FALSE}
  Updates <- SomeUpdates
  Ops = {"set", "clear", "update", "exit"}
  Buckets = 2
  Index <- BucketOf
  MsPerSec = 2
  MaxTime = 4
  MaxIds = 3
  MaxDepth = 2
  None = None
INVARIANTS
  TimeoutOnce
  NoFreedEvent
CHECK_DEADLOCK FALSE
PROPERTIES
  UpdateWaits
  PassAdvances
  TimersRun
  UpdateEnds
