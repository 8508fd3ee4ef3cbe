CONSTANTS
  Messages <- MCMessages
  Noise <- MCNoise
  MaxSent = 2
  MaxTroubles = 1
SPECIFICATION Spec
INVARIANTS
  EveryByteOnce
  RejectsOnlyDisturbed
PROPERTY ImplementsMsgLink
CHECK_DEADLOCK FALSE
