SPECIFICATION Spec
CONSTANTS
  Clients = {1, 2}
  Cap = 1
  MaxRequests = 5
  MaxBreaks = 2
INVARIANT InOrder
PROPERTIES
  Finishes
  ServerFree
CHECK_DEADLOCK FALSE
