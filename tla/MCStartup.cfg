CONSTANTS
  Threads = {t1, t2, t3}
  Scenarios <- MCScenarios
  Callers = {c1, c2}
  ErrorScenarios <- MCErrorScenarios
  ObjPointers = {"obj"}
  ErrPointers = {"err"}
  NULL = NULL
  Orders <- MCOrders
SPECIFICATION StartupSpec
INVARIANTS
  UsersSeeAllClasses
  OneBuilder
  ClassesFreed
  FirstUseSucceeds
  MadeOnce
  SuccessMeansReady
  CounterExact
  NoneBlockedForEver
  InitialisersOnce
  EveryCallLands
  NothingLeaks
PROPERTIES
  InitReturns
  Returns
CHECK_DEADLOCK FALSE
