\* A sub-interp without a script.
SPECIFICATION DuoSpec
CONSTANTS
  Main = Main
  a = a
  b = b
  p = p
  Subs = {a, p}
  Parent <- TrioParent
  Home <- TrioHome
  Loops = {a}
  Keepers = {p}
  Ops = {"nested", "alias", "call", "eval", "sleep"}
  LockTimed = TRUE
  MaxDepth = 4
  Syncs = {s1, s2}
  Calls = {c1}
  Msgs = {m1}
  Targets = {"other", "function"}
  Failed = Failed
  None = None
INVARIANTS
  DuoCallReturns
CHECK_DEADLOCK FALSE
