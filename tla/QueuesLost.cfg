\* Scripts and a message.
SPECIFICATION Spec
CONSTANTS
  NumScripts = 2
  Throwing = {}
  Malformed = {}
  Syncs = {}
  Calls = {}
  Msgs = {m1}
  Targets = {"other"}
  MaxDepth = 1
  LockTimed = FALSE
  ScriptEnds = FALSE
  Failed = Failed
  None = None
INVARIANTS
  NoScriptLost
CHECK_DEADLOCK FALSE
