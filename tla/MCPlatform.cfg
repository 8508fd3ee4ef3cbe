CONSTANTS
  s1 = s1
  s2 = s2
  tty = tty
  Serials <- MCSerials
  Ttys <- MCTtys
  Files = {}
  Targets <- MCTtys
  Fds <- MCFds
  Speeds = {0, 9600}
  B0 = 0
  Durations <- MCDurations
  Tenth = 2
  MaxTenths = 2
  Failures = {"open", "tcgetattr", "tcsetattr", "tcflush"}
  Program = Program
  NULL = NULL
  com1 = com1
  h1 = h1
  h2 = h2
  h3 = h3
  Ports <- MCPorts
  Handles <- MCHandles
  Invalid = Invalid
  Known <- MCKnown
  BaudRates <- MCBaudRates
  Foreign = 3
  Requests = {0, 1, 2, 5}
  WindowsDurations <- MCWindowsDurations
  Micro = 2
  Milli = 2
  DWord = 4
  Lengths = {1, 4}
  MaxQueue = 1
  d1 = d1
  d2 = d2
  p1 = p1
  p2 = p2
  DurationVars <- MCDurationVars
  TimeVars <- MCTimeVars
  Uses <- MCUses
  DurationMem <- MCDurationMem
  TimeMem <- MCTimeMem
  Modulus = 8
  Counts <- MCCounts
  Factors = {3}
  Scalars <- MCScalars
  Halves <- MCHalves
  MaxNow = 2
  MemFail = TRUE
  Nothing = Nothing
SYMMETRY Symmetry
VIEW MCView
SPECIFICATION MCSpec
INVARIANTS
  OwnDescriptor
  NoneLost
  HandlesAreOwned
  PositiveTimeoutWaits
  CountsExact
  OrderIsLinear
PROPERTIES
  ClosesOnlyItsOwn
  FailureIsClean
  
