\* Callbacks do not nest; every kind of request is pending together.
SPECIFICATION FairSpec
CONSTANTS
  NumScripts = 3
  Throwing = {2, s2}
  Malformed = {}
  Syncs = {s1, s2}
  Calls = {c1}
  Msgs = {m1}
  Targets = {"other"}
  MaxDepth = 1
  LockTimed = FALSE
  ScriptEnds = FALSE
  Failed = Failed
  None = None
INVARIANTS
  ScriptsInOrder
  SyncRunsOnce
  ListSound
  NoFreedMemory
PROPERTIES
  SyncAnswered
  ImplementsService
