\* All operations in a trio of interps, locks that may be refused, an interp that keeps its
\* mutex; a chain of threads; queues whose callbacks nest.
SPECIFICATION ThreadsSpec
CONSTANTS
  Main = Main
  a = a
  b = b
  p = p
  Subs = {a, p}
  Parent <- TrioParent
  Home <- TrioHome
  Loops = {a}
  Keepers = {p}
  Ops = {"nested", "alias", "call", "eval", "sleep"}
  LockTimed = TRUE
  MaxDepth = 4
  Syncs = {s1, s2}
  Calls = {c1}
  Msgs = {m1}
  Targets = {"other", "function"}
  Failed = Failed
  None = None
SYMMETRY Symmetry
INVARIANTS
  LocksSound
  ChainNoDeadlock
  EvalsServed
PROPERTIES
  EvaluatedAgain
CHECK_DEADLOCK FALSE
