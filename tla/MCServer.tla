------------------------------ MODULE MCServer ------------------------------
(***************************************************************************)
(* A server with a cache of one or two slabs of 4 bytes, two keys in one   *)
(* bucket, a third that is too long to be set, and strings of one and      *)
(* three bytes, as requests carry them.                                    *)
(***************************************************************************)
EXTENDS Server

CONSTANTS k1, k2, k3, a, big

MCClasses  == {2, 4}
MCHasher   == [k \in Keys |-> 3]
MCKeyLen   == [k \in Keys |-> IF k = k3 THEN 4 ELSE 1]
MCMemSizes == {-1, 0, 5}     \* clamped down, clamped up or the default, and as is
MCDirt     == {{}, {0}}
MCValues   == {[id |-> a, size |-> 1, len |-> 1, nul |-> TRUE],
               [id |-> big, size |-> 3, len |-> 3, nul |-> TRUE]}
=============================================================================
