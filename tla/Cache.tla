------------------------------- MODULE Cache --------------------------------
(***************************************************************************)
(* The cache library as a component: a caller with one cache pointer makes *)
(* the calls of cache.h in any order, with any key and value.              *)
(***************************************************************************)
EXTENDS CacheOps

CONSTANTS MemSizes   \* the maxmem values create_cache is called with

ASSUME MemAssumption == MemSizes \subseteq Nat

VARIABLES
  cache,   \* the object the caller's pointer leads to, NullCache for NULL
  ret,     \* the call that returned last: [op, key, rc, val], val for a get
  proc     \* "running", "aborted" by an assertion, or "undefined" after a
           \* write behind a slab's memory; nothing is said of what follows

vars == <<cache, ret, proc>>

Returned(op, key, rc, val) == [op |-> op, key |-> key, rc |-> rc, val |-> val]
NoKey == "no key"

Init ==
  /\ cache = NullCache
  /\ ret = Returned("start", NoKey, 0, Nil)
  /\ proc = "running"

CreateCache(maxmem) ==
  /\ proc = "running" /\ IsNull(cache)
  /\ cache' = create_cache(maxmem)
  /\ ret' = Returned("create", NoKey, 0, Nil)
  /\ UNCHANGED proc

DestroyCache ==
  /\ proc = "running"
  /\ cache' = NullCache
  /\ ret' = Returned("destroy", NoKey, IF IsNull(cache) THEN 255 ELSE 0, Nil)
  /\ UNCHANGED proc

\* A key shorter than the array ends inside it; the low byte of the address
\* may be 0 and end a longer one as well.
Tails(key) == IF KeyLen[key] = KEYSIZE THEN -1..(NB - 1) ELSE {-1}

CacheSet(key, val) ==
  /\ proc = "running"
  /\ \E tail \in Tails(key), dirt1, dirt2 \in Leftovers(cache) :
       LET r == cache_set(cache, key, tail, val, dirt1, dirt2)
       IN  /\ cache' = r.c
           /\ ret' = Returned("set", key, r.rc, Nil)
           /\ proc' = IF r.rc = 0 /\ val.size > MEM THEN "undefined" ELSE proc

CacheGet(key) ==
  /\ proc = "running"
  /\ LET r == cache_get(cache, key)
     IN  /\ cache' = r.c
         /\ ret' = Returned("get", key, 0, IF r.hit THEN r.val ELSE Nil)
         /\ proc' = IF r.good THEN proc ELSE "aborted"

CacheDelete(key) ==
  /\ proc = "running"
  /\ LET r == cache_delete(cache, Lookup(key))
     IN  cache' = r.c /\ ret' = Returned("delete", key, r.rc, Nil)
  /\ UNCHANGED proc

Next ==
  \/ \E maxmem \in MemSizes : CreateCache(maxmem)
  \/ DestroyCache
  \/ \E key \in Keys : \/ CacheGet(key)
                       \/ CacheDelete(key)
                       \/ \E val \in Values : CacheSet(key, val)

Spec == Init /\ [][Next]_vars

-----------------------------------------------------------------------------
\* Types: a cache object (or NULL), the last result and the process state.
TypeOK ==
  /\ cache \in CacheObj
  /\ ret \in [op : {"start", "create", "destroy", "set", "get", "delete"},
              key : Keys \cup {NoKey}, rc : {0, 1, 2, 3, 4, 5, 6, 255},
              val : Values \cup {Nil}]
  /\ proc \in {"running", "aborted", "undefined"}

\* The allocator's bits and the metas of the key table agree: an entry is
\* marked exactly when one meta points to it, or malloc left it marked.  Every
\* path of cache_set (old value deleted, victim evicted, room not found) has to
\* keep the two in step.
SlotsMatchMetas ==
  /\ HeldAreEntries(cache.slabs, AddressesOf(cache))
  /\ BitsMatch(cache.slabs, AddressesOf(cache))
  /\ JunkApart(cache.slabs, AddressesOf(cache))
  /\ FullSound(cache.slabs)

\* No two metas share a slot or a name, each fits its slot and is in the bucket
\* its key hashes to; otherwise one value would overwrite another, or a delete
\* would leave a second copy behind.
MetasApart ==
  /\ \A x, y \in Places(cache) : x # y =>
       /\ MetaAt(cache, x).address # MetaAt(cache, y).address
       /\ MetaAt(cache, x).name # MetaAt(cache, y).name
  /\ \A x \in Places(cache) :
       LET m == MetaAt(cache, x)
       IN  /\ m.slab_class = cache.slabs[m.address.slab].class
           /\ m.size <= m.slab_class \/ m.size > MEM
           /\ x[1] = Bucket(Lookup(m.name.key))

\* num_values counts the metas and size the bytes of the slabs: neither counter
\* drifts over any sequence of calls, and size never reaches maxmem, so neither
\* the uint32_t sum in expand_cache nor its subtraction wraps.
CountersMatch ==
  /\ cache.num_values = Cardinality(Places(cache))
  /\ cache.size = SLABSIZE * Len(cache.slabs)
  /\ ~IsNull(cache) => cache.size < cache.maxmem /\ cache.maxmem <= CAP

\* The assertion of cache_get (cache.c:373), "Get returned a value of the wrong
\* length", fires only for a value that was set with a zero byte before its last.
AbortsOnlyHollow ==
  proc = "aborted" =>
    ret.op = "get" /\ ret.val \in Values /\ ret.val.nul /\ ret.val.len # ret.val.size

\* The invariant of the cache that every path of cache_set, cache_get and
\* cache_delete has to restore: key table, slab manager and counters say the
\* same, and a get that finds a key finds a whole value.
Consistent == TypeOK /\ SlotsMatchMetas /\ MetasApart /\ CountersMatch /\ AbortsOnlyHollow

\* The cache keeps the README's promise, whatever is evicted or refused.
Abstract == INSTANCE Store WITH
  StoreKeys <- Keys, StoreValues <- Values, NoValue <- Nil,
  store <- [k \in Keys |-> ValueOf(cache, k)],
  told <- IF ret.op \in {"set", "get", "delete"}
          THEN [op |-> ret.op, key |-> ret.key, ok |-> ret.rc = 0, val |-> ret.val]
          ELSE [op |-> "reset", key |-> NoKey, ok |-> TRUE, val |-> Nil]

ImplementsStore == Abstract!StoreSpec

\* A set costs another key its value only if the class had no free entry and
\* the cache no room for another slab (free_space before cache_evict), or malloc
\* left the slab it added without a clear bit.  The key that loses it is the
\* least recently used one by the timers: when the set looked for room no value
\* of the class had a greater timer.  It is never the key the call before has
\* set or read, unless the set first deletes an old value of its own key, which
\* advances the timers.
EvictsOnlyForRoom ==
  [][\A k \in Keys :
       (ret'.op = "set" /\ ret'.rc = 0 /\ k # ret'.key /\ ValueOf(cache, k) # Nil /\ ValueOf(cache', k) = Nil) =>
         /\ \A n \in DOMAIN cache'.slabs :
              cache'.slabs[n].class = get_slab_class(ValueOf(cache', ret'.key).size) =>
                get_free_index(cache'.slabs[n].status) = 0
         /\ \/ cache'.maxmem - cache'.size <= SLABSIZE
            \/ \E n \in DOMAIN cache'.slabs :
                 n > Len(cache.slabs) /\ Entries(cache'.slabs[n].class) \subseteq cache'.slabs[n].junk
         /\ \A j \in Keys \ {ret'.key} :
              (ValueOf(cache, j) # Nil /\ get_slab_class(ValueOf(cache, j).size) = get_slab_class(ValueOf(cache', ret'.key).size)) =>
                TimerOf(DeleteOld(cache, ret'.key), j) <= TimerOf(DeleteOld(cache, ret'.key), k)
         /\ k = ret.key /\ ret.op \in {"set", "get"} /\ ret.rc = 0 => ValueOf(cache, ret'.key) # Nil]_vars

\* A set that returns 0 has stored the value: the key is found again.  (README:
\* "Optimistically, a set value should be successfully returned if no other
\* sets have occurred".)
StoredIfSaid ==
  ret.op = "set" /\ ret.rc = 0 /\ proc = "running" => ValueOf(cache, ret.key) # Nil
=============================================================================
