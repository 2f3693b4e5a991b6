SPECIFICATION FairSpec
CONSTANTS
  Threads = {t1, t2}
  Handlers = {h1, h2}
  Breakpoints = {b1}
  CallRules <- SafeRules
  MaxDepth = 3
  MaxCalls = 5
  None = None
INVARIANTS TypeOK IteratorsLive NoLockCycle
PROPERTIES RemovalQuiescent ImplementsRegistry OperationsEnd
CHECK_DEADLOCK FALSE
