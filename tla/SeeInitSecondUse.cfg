CONSTANTS
  Threads = {t1}
  Scenarios <- SecondUse
  Callers = {c1}
  ErrorScenarios <- MCErrorScenarios
  ObjPointers = {}
  ErrPointers = {}
  NULL = NULL
  Orders <- MCOrders
SPECIFICATION StartupSpec
INVARIANTS
  EveryUseSucceeds
CHECK_DEADLOCK FALSE
