SPECIFICATION Spec
CONSTANT Granularity = 2
CONSTANT MaxMem = 4
CONSTANT Threads = {1, 2}
CONSTANT Binds = {1, 2}
CONSTANT Connects = {1}
CONSTANT MaxUp = 3
CONSTANT MaxDown = 1
INVARIANTS
  SafeUnlessRacing
  NothingLost
PROPERTIES
  CloseEnds
CHECK_DEADLOCK FALSE
