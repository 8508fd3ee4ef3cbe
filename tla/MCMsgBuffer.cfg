CONSTANTS
  a = a
  b = b
  Msgs <- MCMsgs
  Ids <- MCIds
  Writes <- MCWrites
  MaxParts = 2
  DamageBytes = {0, 1, 6}
  MaxDamage = 1
  MemFail = TRUE
  NULL = NULL
SYMMETRY Symmetry
SPECIFICATION Spec
INVARIANTS
  LengthExact
  RoundTrip
  EqualIsExact
PROPERTIES
  AcceptedIsWhatWasRead
