SPECIFICATION Spec
CONSTANTS
  Timers = {t1, t2}
  MaxTimeout = 2
INVARIANTS
  NeverBad
PROPERTIES
  OnTime
  Fires
  StopCompletes
