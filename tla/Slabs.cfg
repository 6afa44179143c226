\* A small slab manager: slabs of 4 bytes with classes 1, 2 and 4 over 2
\* words of 2 bits.  Class 1 clears both words, as class 64 does in the
\* source; class 2 clears one word and keeps no entry in the next; class 4
\* has a partial word, as the classes above 2^15 do.
CONSTANTS
  MEM = 4
  SLABSIZE = 5
  W = 2
  NW = 2
  Classes = {1, 2, 4}
  Sizes = {1, 2, 3, 5}
  MaxSlabs = 3
SPECIFICATION Spec
INVARIANTS
  OwnedExactly
  FullMeansFull
PROPERTIES
  ImplementsPool
