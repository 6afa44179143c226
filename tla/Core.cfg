SPECIFICATION Spec
CONSTANTS
  Threads = {1, 2}
  MaxSockets = 2
  Socks = {1, 2}
  Dirs = {"in"}
  Delayed = {2}
  MaxEps = 1
  MaxReady = 1
  MaxRounds = 1
  StatSocks = {1}
INVARIANTS
  SafeUnlessRacing
  SignalsTrue
  TableSound
PROPERTIES
  ImplementsLifetime
  Released
  CloseReturns
CHECK_DEADLOCK FALSE
