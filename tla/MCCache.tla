------------------------------ MODULE MCCache -------------------------------
(***************************************************************************)
(* A small cache: slabs of 4 bytes, classes 2 and 4 (two entries or one),  *)
(* three keys in two buckets, timers modulo 3.  With SLABSIZE = 5 and CAP  *)
(* = 15 the sizes 2, 5 and 100 give caches of one slab, none and two.      *)
(***************************************************************************)
EXTENDS Cache

CONSTANTS k1, k2, k3, a, big, hollow, wide, huge, raw

MCClasses  == {2, 4}
MCHasher   == [k \in Keys |-> IF k = k1 THEN 0 ELSE 3]
MCMemSizes == {2, 5, 100}
MCDirt     == {{}, {0}}      \* class 4 keeps one bit of the partial word
NoDirt     == {{}}           \* fresh pages: malloc returns zeroed memory

\* All keys short, or all but k1 as long as the array.
ShortKeys == [k \in Keys |-> 1]
LongKeys  == [k \in Keys |-> IF k = k1 THEN 1 ELSE 3]

Str(id, size) == [id |-> id, size |-> size, len |-> size, nul |-> TRUE]

\* Strings of one and three bytes, one above MEM and one above SLABSIZE, a value
\* with a zero byte before its last, and bytes that do not end in 0.
MCValues == {Str(a, 1), Str(big, 3), Str(wide, 5), Str(huge, 6),
             [id |-> hollow, size |-> 3, len |-> 2, nul |-> TRUE],
             [id |-> raw, size |-> 1, len |-> 2, nul |-> FALSE]}
Strings  == {Str(a, 1), Str(big, 3)}
=============================================================================
