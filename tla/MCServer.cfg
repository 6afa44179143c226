CONSTANTS
  k1 = k1
  k2 = k2
  k3 = k3
  a = a
  big = big
  MEM = 4
  SLABSIZE = 5
  W = 2
  NW = 1
  Classes <- MCClasses
  Keys = {k1, k2, k3}
  KeyLen <- MCKeyLen
  KEYSIZE = 3
  NB = 1
  hasher <- MCHasher
  TimerMod = 3
  CAP = 15
  Values <- MCValues
  Dirt <- MCDirt
  MemSizes <- MCMemSizes
  Default = 11
SPECIFICATION Spec
CHECK_DEADLOCK FALSE
INVARIANTS
  FlagTrue
  UsedIsReachable
PROPERTIES
  ImplementsStore
