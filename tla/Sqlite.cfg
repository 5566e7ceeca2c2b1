\* Queries inside queries and transactions inside transactions, three deep.
SPECIFICATION Spec
CONSTANTS
  Texts <- SomeTexts
  Modes = {"rows", "callback", "none"}
  Limits = {0, 1}
  Sizes = {0, 2}
  InitSize = 1
  Rows = 2
  MaxCalls = 3
  MaxDepth = 3
  MaxStmts = 4
INVARIANTS
  Accounted
  CacheSafe
  TransactionDepth
CHECK_DEADLOCK FALSE
PROPERTIES
  TransactionAtomic
