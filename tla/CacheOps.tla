------------------------------ MODULE CacheOps ------------------------------
(***************************************************************************)
(* The cache of cache.c as operators on a cache object: each C function    *)
(* maps the object it gets to the one it leaves, and its result.           *)
(*                                                                         *)
(* The program is sequential, so a whole call is one step.  Undefined or   *)
(* unspecified outcomes are parameters: what malloc left in a new slab's   *)
(* status word (`dirt`) and, for a key that fills the 32 bytes of          *)
(* meta_obj.key, what the stored string becomes (`tail`): its terminator   *)
(* falls on the address field and is overwritten when that is assigned.    *)
(***************************************************************************)
EXTENDS SlabOps

CONSTANTS
  Keys,      \* the key strings callers use
  KeyLen,    \* their strlen
  KEYSIZE,   \* sizeof(meta_obj.key), 32
  NB,        \* num_buckets, 30
  hasher,    \* the hash of every key
  TimerMod,  \* timers are uint8_t, so they count modulo 256
  CAP,       \* 2^32: the largest maxmem, and the modulus of cache->size
  Values,    \* [id, size, len, nul]: val_size, strlen(val) + 1, last byte is 0
  Dirt       \* what malloc may leave in a status word

\* A name is a string of the key table: a key (tail = -1) or, for a key that
\* runs into the bytes of its address `at`, a longer one that hashes to `tail`.
Name == [key : Keys, tail : -1..(NB - 1), at : Address]

\* The null pointer that a get of an unknown key returns.
Nil == [id |-> "nil"]

\* The largest class is a whole slab (man->classes ends with 2^20).
ASSUME CacheAssumption ==
  /\ KEYSIZE \in Nat /\ KeyLen \in [Keys -> Nat]
  /\ NB \in Nat \ {0} /\ hasher \in [Keys -> Nat]
  /\ TimerMod \in Nat \ {0}
  /\ CAP \in Nat /\ 2 * SLABSIZE <= CAP
  /\ MEM \in Classes
  /\ \A v \in Values : v.size \in Nat \ {0} /\ v.len \in Nat /\ v.nul \in BOOLEAN
  /\ Nil \notin Values
  /\ Dirt \subseteq SUBSET AllOnes

-----------------------------------------------------------------------------
Buckets == 0..(NB - 1)

\* `val` is what the bytes at `address` hold now (see cache_set).
Meta == [name : Name, address : Address, size : Nat, timer : 0..(TimerMod - 1),
         slab_class : Classes, val : Values]

CacheObj == [maxmem : Nat, size : Nat, num_values : Int,
             buckets : [Buckets -> Seq(Meta)], slabs : Seq(Slab)]

NoBuckets == [b \in Buckets |-> LL_create]

\* The NULL cache pointer: no cache has a maxmem of 0.
NullCache == [maxmem |-> 0, size |-> 0, num_values |-> 0,
              buckets |-> NoBuckets, slabs |-> LL_create]

IsNull(c) == c.maxmem = 0

\* The places of the metas of a cache, and the meta at a place.
Places(c)    == UNION {{<<b, p>> : p \in DOMAIN c.buckets[b]} : b \in Buckets}
MetaAt(c, x) == c.buckets[x[1]][x[2]]

Bucket(name) == IF name.tail = -1 THEN hasher[name.key] % NB ELSE name.tail
Lookup(key)  == [key |-> key, tail |-> -1, at |-> NULL]

create_cache(maxmem) ==
  LET atleast == IF maxmem < SLABSIZE THEN 2 * SLABSIZE ELSE maxmem
  IN  [NullCache EXCEPT !.maxmem = IF atleast > CAP THEN CAP ELSE atleast]

\* The positions in a bucket that meta_compare accepts for a name.
Hits(c, name) == {p \in DOMAIN c.buckets[Bucket(name)] :
                    c.buckets[Bucket(name)][p].name = name}

get_meta(c, name) == LL_find(Hits(c, name))

\* timer <= 255 always holds of a uint8_t: the increment wraps.
update_timers(c) ==
  [c EXCEPT !.buckets = [b \in Buckets |->
     [p \in DOMAIN c.buckets[b] |->
        [c.buckets[b][p] EXCEPT !.timer = (@ + 1) % TimerMod]]]]

\* Faults: the slot is not given back, or the count is not taken down.
Unlink_leaks(c, name) ==
  [c EXCEPT !.buckets[Bucket(name)] = LL_delete(@, Hits(c, name)), !.num_values = @ - 1]
\* The caller has checked that the name is there (cache.c:386).
Unlink(c, name) ==
  [c EXCEPT !.slabs = man_delete(@, c.buckets[Bucket(name)][get_meta(c, name)].address),
            !.buckets[Bucket(name)] = LL_delete(@, Hits(c, name)),
            !.num_values = @ - 1]

cache_delete(c, name) ==
  IF IsNull(c) \/ get_meta(c, name) = 0 THEN [rc |-> 255, c |-> c]
  ELSE [rc |-> 0, c |-> update_timers(Unlink(c, name))]

\* The first place, in bucket and list order, with the greatest timer above 0.
EvictPlace(c, slab_class) ==
  LET cand   == {x \in Places(c) : /\ MetaAt(c, x).timer > 0
                                   /\ MetaAt(c, x).slab_class = slab_class}
      oldest == {x \in cand : \A y \in cand : MetaAt(c, y).timer <= MetaAt(c, x).timer}
      b      == Min({x[1] : x \in oldest})
  IN  IF cand = {} THEN << >>
      ELSE <<b, Min({x[2] : x \in {y \in oldest : y[1] = b}})>>

cache_evict(c, slab_class) ==
  LET x == EvictPlace(c, slab_class)
  IN  IF x = << >> THEN c ELSE cache_delete(c, MetaAt(c, x).name).c

\* What malloc may leave in the slabs a call adds; without room it adds none.
Leftovers(c) == IF c.maxmem - c.size > SLABSIZE THEN Dirt ELSE {{}}

expand_cache(c, slab_class, dirt) ==
  IF c.maxmem - c.size > SLABSIZE
  THEN [c EXCEPT !.slabs = slab_add(@, slab_class, dirt),
                 !.size  = (@ + SLABSIZE) % CAP]
  ELSE c

\* An address asked for on behalf of a cache, and the cache with its new slabs.
Located(c, r)       == [addr |-> r.addr, c |-> [c EXCEPT !.slabs = r.slabs]]
Find(c, slab_class) == Located(c, get_address(c.slabs, slab_class))

OrExpand(found, slab_class, dirt) ==
  IF found.addr # NULL \/ found.c.size >= found.c.maxmem THEN found
  ELSE Find(expand_cache(found.c, slab_class, dirt), slab_class)

free_space(c, slab_class, dirt) == OrExpand(Find(c, slab_class), slab_class, dirt)

create_meta(key, tail, val, addr, slab_class) ==
  [name |-> [key |-> key, tail |-> tail, at |-> IF tail = -1 THEN NULL ELSE addr],
   address |-> addr, size |-> val.size, timer |-> 0, slab_class |-> slab_class, val |-> val]

\* memcpy to an address: every meta that points there now holds these bytes.
Write(c, addr, val) ==
  [c EXCEPT !.buckets = [b \in Buckets |->
     [p \in DOMAIN c.buckets[b] |->
        IF c.buckets[b][p].address = addr THEN [c.buckets[b][p] EXCEPT !.val = val]
        ELSE c.buckets[b][p]]]]

\* The checks before anything is changed: the result, 0 to go on.
Refusal(c, key, val) ==
  CASE IsNull(c)              -> 5
    [] KeyLen[key] > KEYSIZE  -> 1
    [] val.size > SLABSIZE    -> 2
    [] val.size > c.maxmem    -> 3
    [] ~val.nul               -> 6
    [] OTHER                  -> 0

Insert(c, key, tail, val, addr, slab_class) ==
  LET d == update_timers(Write(c, addr, val))
  IN  [d EXCEPT !.buckets[Bucket(Lookup(key))] =
                   LL_append(@, create_meta(key, tail, val, addr, slab_class)),
                !.num_values = @ + 1]

StoreIn(room, key, tail, val) ==
  IF room.addr = NULL THEN [rc |-> 4, c |-> room.c]
  ELSE [rc |-> 0, c |-> Insert(room.c, key, tail, val, room.addr, get_slab_class(val.size))]

DeleteOld(c, key) == IF get_meta(c, Lookup(key)) # 0 THEN cache_delete(c, Lookup(key)).c ELSE c

OrEvict(room, slab_class, dirt) ==
  IF room.addr # NULL THEN room
  ELSE free_space(cache_evict(room.c, slab_class), slab_class, dirt)

\* Faults: the old value is not deleted first, or room is made by evicting
\* before a free entry or a new slab is looked for.
Replace_keeps_old(c, key, tail, val, dirt1, dirt2) ==
  StoreIn(free_space(c, get_slab_class(val.size), dirt1), key, tail, val)
Replace_evicts_first(c, key, tail, val, dirt1, dirt2) ==
  LET slab_class == get_slab_class(val.size)
  IN  StoreIn(free_space(cache_evict(DeleteOld(c, key), slab_class), slab_class, dirt1),
               key, tail, val)

\* Delete the old value, find room, evict and try again, store the new one.
Replace(c, key, tail, val, dirt1, dirt2) ==
  LET slab_class == get_slab_class(val.size)
      room       == free_space(DeleteOld(c, key), slab_class, dirt1)
  IN  StoreIn(OrEvict(room, slab_class, dirt2), key, tail, val)

cache_set(c, key, tail, val, dirt1, dirt2) ==
  IF Refusal(c, key, val) # 0 THEN [rc |-> Refusal(c, key, val), c |-> c]
  ELSE Replace(c, key, tail, val, dirt1, dirt2)

\* The meta that cache_get returns the value of has its timer reset; `good` is
\* the assertion that the bytes there are a string of the recorded size.
cache_get(c, key) ==
  LET b    == Bucket(Lookup(key))
      p    == get_meta(c, Lookup(key))
      meta == c.buckets[b][p]
  IN  IF IsNull(c) \/ p = 0 THEN [hit |-> FALSE, good |-> TRUE, c |-> c]
      ELSE [hit |-> TRUE, val |-> meta.val, good |-> meta.val.len = meta.size,
            c |-> [c EXCEPT !.buckets[b][p].timer = 0]]

cache_space_used(c) == MapThenSumSet(LAMBDA x : MetaAt(c, x).size, Places(c))

-----------------------------------------------------------------------------
\* The addresses the cache's metas point to.
AddressesOf(c) == {MetaAt(c, x).address : x \in Places(c)}

\* The value a lookup of the key reaches, or Nil.
ValueOf(c, key) ==
  LET p == get_meta(c, Lookup(key))
  IN  IF p = 0 THEN Nil ELSE c.buckets[Bucket(Lookup(key))][p].val

\* The timer of a key that has a value.
TimerOf(c, key) == c.buckets[Bucket(Lookup(key))][get_meta(c, Lookup(key))].timer
=============================================================================
