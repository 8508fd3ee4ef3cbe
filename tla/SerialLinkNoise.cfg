CONSTANTS
  Messages <- MCMessages
  Noise <- MCNoise
  MaxSent = 1
  MaxTroubles = 1
SPECIFICATION Spec
INVARIANTS
  HeaderIsFound
CHECK_DEADLOCK FALSE
