SPECIFICATION Spec
CONSTANT PrefixMax = 1
CONSTANT SparseMax = 2
CONSTANT Topics <- MCTopics
CONSTANT Data <- MCData
CONSTANT MaxRef = 2
INVARIANTS
  Matches
CHECK_DEADLOCK FALSE
