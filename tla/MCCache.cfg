CONSTANTS
  k1 = k1
  k2 = k2
  k3 = k3
  a = a
  big = big
  hollow = hollow
  wide = wide
  huge = huge
  raw = raw
  MEM = 4
  SLABSIZE = 5
  W = 2
  NW = 1
  Classes <- MCClasses
  Keys = {k1, k2, k3}
  KeyLen <- ShortKeys
  KEYSIZE = 3
  NB = 2
  hasher <- MCHasher
  TimerMod = 3
  CAP = 15
  Values <- MCValues
  Dirt <- MCDirt
  MemSizes <- MCMemSizes
SPECIFICATION Spec
INVARIANTS
  Consistent
PROPERTIES
  ImplementsStore
  EvictsOnlyForRoom
CHECK_DEADLOCK FALSE
