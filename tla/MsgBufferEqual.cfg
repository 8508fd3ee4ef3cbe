CONSTANTS
  a = a
  b = b
  Msgs <- MCMsgs
  Ids <- MCIds
  Writes <- LongWrites
  MaxParts = 2
  DamageBytes = {0, 5, 6}
  MaxDamage = 0
  MemFail = FALSE
  NULL = NULL
SYMMETRY Symmetry
SPECIFICATION Spec
INVARIANTS
  EqualMeansSameContents
