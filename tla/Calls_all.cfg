SPECIFICATION Spec
CONSTANTS
  Threads = {t1, t2}
  Caller = t1
  Given <- AllCalls
  Top = {304, 312}
  MaxStops = 1
INVARIANTS CallsAnswer CallsLeaveNothing
CHECK_DEADLOCK FALSE
