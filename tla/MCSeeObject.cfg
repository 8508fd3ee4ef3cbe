CONSTANTS
  t1 = t1
  t2 = t2
  buffer = buffer
  array = array
  part = part
  a1 = a1
  a2 = a2
  b1 = b1
  parts = parts
  element = element
  NULL = NULL
  Threads <- MCThreads
  Objects <- MCObjects
  Slots <- MCSlots
  Owner <- MCOwner
  Rank <- MCRank
SPECIFICATION Spec
INVARIANTS
  RefcountExact
  ReferencesAreLive
  DestroyedOnce
  NoneForgotten
PROPERTY ImplementsCollector
CHECK_DEADLOCK FALSE
