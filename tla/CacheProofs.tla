---------------------------- MODULE CacheProofs -----------------------------
(***************************************************************************)
(* Theorems about the cache library, for every set of keys, values and     *)
(* classes, every hash, every limit and every sequence of calls.           *)
(***************************************************************************)
EXTENDS Cache, CacheLemmas

\* No key fills the array of a meta (its terminator would be overwritten).
KeysFit == \A k \in Keys : KeyLen[k] # KEYSIZE

Ret == [op : {"start", "create", "destroy", "set", "get", "delete"},
        key : Keys \cup {NoKey}, rc : {0, 1, 2, 3, 4, 5, 6, 255}, val : Values \cup {Nil}]

\* The timer of the key that was set or read last is 0.
Fresh ==
  ret.op \in {"set", "get"} /\ ret.rc = 0 =>
    \A x \in Places(cache) : MetaAt(cache, x).name = Lookup(ret.key) => MetaAt(cache, x).timer = 0

\* A set that said so has stored the value, unless the key fills the array.
Found ==
  ret.op = "set" =>
    /\ ret.key \in Keys
    /\ ret.rc = 0 /\ KeyLen[ret.key] # KEYSIZE => ValueOf(cache, ret.key) # Nil

\* The inductive invariant.
Inv ==
  /\ Good(cache)
  /\ ret \in Ret /\ proc \in {"running", "aborted", "undefined"}
  /\ AbortsOnlyHollow /\ Fresh /\ Found

-----------------------------------------------------------------------------
\* The fields of a result.
LEMMA RetIs ==
  ASSUME NEW op \in {"start", "create", "destroy", "set", "get", "delete"},
         NEW key \in Keys \cup {NoKey}, NEW rc \in {0, 1, 2, 3, 4, 5, 6, 255}, NEW val \in Values \cup {Nil}
  PROVE  LET r == Returned(op, key, rc, val) IN
         r \in Ret /\ r.op = op /\ r.key = key /\ r.rc = rc /\ r.val = val
  BY DEF Ret, Returned

\* What malloc leaves and what becomes of a key are among the cases cache_set
\* was looked at for.
LEMMA Inputs ==
  ASSUME NEW c, NEW key \in Keys
  PROVE  /\ Leftovers(c) \subseteq SUBSET AllOnes
         /\ Tails(key) \subseteq -1 .. (NB - 1)
         /\ KeyLen[key] # KEYSIZE => Tails(key) = {-1}
  BY CacheAssumption DEF Leftovers, Tails

\* A set, as a step: what SetIs says, and what is returned.
LEMMA SetStep ==
  ASSUME Inv, NEW key \in Keys, NEW val \in Values, CacheSet(key, val)
  PROVE  \E tail \in Tails(key), rc \in {0, 1, 2, 3, 4, 5, 6} :
           /\ ret' = Returned("set", key, rc, Nil) /\ proc = "running" /\ proc' \in {"running", "undefined"}
           /\ \/ rc \in {1, 2, 3, 5, 6} /\ cache' = cache
              \/ rc = 4 /\ SetFailed(cache, cache', key)
              \/ rc = 0 /\ SetDone(cache, cache', key, tail, val)
<1>1. PICK tail \in Tails(key), dirt1 \in Leftovers(cache), dirt2 \in Leftovers(cache) :
        LET r == cache_set(cache, key, tail, val, dirt1, dirt2) IN
        /\ cache' = r.c /\ ret' = Returned("set", key, r.rc, Nil)
        /\ proc' = IF r.rc = 0 /\ val.size > MEM THEN "undefined" ELSE proc
  BY DEF CacheSet
<1> DEFINE r == cache_set(cache, key, tail, val, dirt1, dirt2)
<1>2. proc = "running" /\ Good(cache)
  BY DEF CacheSet, Inv
<1>3. tail \in -1 .. (NB - 1) /\ dirt1 \in SUBSET AllOnes /\ dirt2 \in SUBSET AllOnes
  BY Inputs
<1>4. \/ r.rc \in {1, 2, 3, 5, 6} /\ r.c = cache
      \/ r.rc = 4 /\ ~IsNull(cache) /\ SetFailed(cache, r.c, key)
      \/ r.rc = 0 /\ ~IsNull(cache) /\ SetDone(cache, r.c, key, tail, val)
  BY <1>2, <1>3, SetIs
<1>5. cache' = r.c /\ ret' = Returned("set", key, r.rc, Nil) /\ proc' \in {"running", "undefined"}
  BY <1>1, <1>2
<1> HIDE DEF r
<1>6. r.rc \in {0, 1, 2, 3, 4, 5, 6}
  BY <1>4
<1> QED
  BY <1>2, <1>4, <1>5, <1>6

\* Every call keeps the invariant.
LEMMA Inductive == Inv /\ [Next]_vars => Inv'
<1> SUFFICES ASSUME Inv, [Next]_vars PROVE Inv'
  OBVIOUS
<1>0. /\ Good(cache) /\ ret \in Ret /\ proc \in {"running", "aborted", "undefined"}
      /\ AbortsOnlyHollow /\ Fresh /\ Found
  BY DEF Inv
<1>1. ASSUME NEW maxmem \in MemSizes, CreateCache(maxmem) PROVE Inv'
  <2>1. Good(cache')
    BY <1>1, CreateIs, MemAssumption DEF CreateCache
  <2>2. ret' \in Ret /\ ret'.op = "create"
    BY <1>1, RetIs DEF CreateCache
  <2>3. proc' = "running"
    BY <1>1 DEF CreateCache
  <2> QED
    BY <2>1, <2>2, <2>3 DEF Inv, AbortsOnlyHollow, Fresh, Found
<1>2. CASE DestroyCache
  <2>1. Good(cache')
    BY <1>2, NullIs DEF DestroyCache
  <2>2. ret' \in Ret /\ ret'.op = "destroy"
    BY <1>2, RetIs DEF DestroyCache
  <2>3. proc' = "running"
    BY <1>2 DEF DestroyCache
  <2> QED
    BY <2>1, <2>2, <2>3 DEF Inv, AbortsOnlyHollow, Fresh, Found
<1>3. ASSUME NEW key \in Keys, CacheGet(key) PROVE Inv'
  <2> DEFINE r == cache_get(cache, key)
             v == IF r.hit THEN r.val ELSE Nil
  <2>1. /\ Good(r.c) /\ v = ValueOf(cache, key) /\ r.good \in BOOLEAN
        /\ ~r.good => r.hit /\ r.val \in Values /\ r.val.nul /\ r.val.len # r.val.size
        /\ \A x \in Places(r.c) : MetaAt(r.c, x).name = Lookup(key) => MetaAt(r.c, x).timer = 0
    BY <1>0, GetIs
  <2>2. /\ cache' = r.c /\ ret' = Returned("get", key, 0, v)
        /\ proc = "running" /\ proc' = IF r.good THEN proc ELSE "aborted"
    BY <1>3 DEF CacheGet
  <2>3. v \in Values \cup {Nil}
    <3>1. cache \in CacheObj /\ Tidy(cache)
      BY <1>0 DEF Good, Orderly
    <3> QED
      BY <2>1, <3>1, ValueHere, ValueNone
  <2>4. ~r.good => v \in Values /\ v.nul /\ v.len # v.size
    BY <2>1
  <2> HIDE DEF r, v
  <2>5. ret' \in Ret /\ ret'.op = "get" /\ ret'.key = key /\ ret'.rc = 0 /\ ret'.val = v
    BY <2>2, <2>3, RetIs
  <2>6. AbortsOnlyHollow' /\ proc' \in {"running", "aborted", "undefined"}
    BY <2>2, <2>4, <2>5 DEF AbortsOnlyHollow
  <2>7. Fresh' /\ Found'
    BY <2>1, <2>2, <2>5 DEF Fresh, Found
  <2> QED
    BY <2>1, <2>2, <2>5, <2>6, <2>7 DEF Inv
<1>4. ASSUME NEW key \in Keys, CacheDelete(key) PROVE Inv'
  <2> DEFINE r == cache_delete(cache, Lookup(key))
  <2>1. Good(r.c) /\ r.rc \in {0, 255}
    BY <1>0, DeleteKey
  <2>2. cache' = r.c /\ ret' = Returned("delete", key, r.rc, Nil) /\ proc' = "running"
    BY <1>4 DEF CacheDelete
  <2> HIDE DEF r
  <2>3. ret' \in Ret /\ ret'.op = "delete"
    BY <2>1, <2>2, RetIs
  <2> QED
    BY <2>1, <2>2, <2>3 DEF Inv, AbortsOnlyHollow, Fresh, Found
<1>5. ASSUME NEW key \in Keys, NEW val \in Values, CacheSet(key, val) PROVE Inv'
  <2>1. PICK tail \in Tails(key), rc \in {0, 1, 2, 3, 4, 5, 6} :
          /\ ret' = Returned("set", key, rc, Nil) /\ proc = "running" /\ proc' \in {"running", "undefined"}
          /\ \/ rc \in {1, 2, 3, 5, 6} /\ cache' = cache
             \/ rc = 4 /\ SetFailed(cache, cache', key)
             \/ rc = 0 /\ SetDone(cache, cache', key, tail, val)
    BY <1>5, SetStep
  <2>2. ret' \in Ret /\ ret'.op = "set" /\ ret'.key = key /\ ret'.rc = rc
    BY <2>1, RetIs
  <2>3. Good(cache')
    BY <1>0, <2>1 DEF SetFailed, SetDone
  <2>4. Fresh' /\ Found'
    <3>1. CASE rc # 0
      BY <2>2, <3>1 DEF Fresh, Found
    <3>2. CASE rc = 0
      <4>1. SetDone(cache, cache', key, tail, val)
        BY <2>1, <3>2
      <4>2. KeyLen[key] # KEYSIZE => tail = -1
        BY Inputs
      <4>3. val # Nil
        BY CacheAssumption
      <4> QED
        BY <2>2, <4>1, <4>2, <4>3 DEF Fresh, Found, SetDone
    <3> QED
      BY <3>1, <3>2
  <2>5. AbortsOnlyHollow' /\ proc' \in {"running", "aborted", "undefined"}
    BY <2>1 DEF AbortsOnlyHollow
  <2> QED
    BY <2>2, <2>3, <2>4, <2>5 DEF Inv
<1>6. CASE UNCHANGED vars
  BY <1>0, <1>6 DEF vars, Inv, AbortsOnlyHollow, Fresh, Found
<1> QED
  BY <1>1, <1>2, <1>3, <1>4, <1>5, <1>6 DEF Next

\* It holds at first: no cache, no metas.
LEMMA InitInv == Init => Inv
<1> SUFFICES ASSUME Init PROVE Inv
  OBVIOUS
<1>1. ret \in Ret /\ ret.op = "start" /\ proc = "running" /\ cache = NullCache
  BY RetIs DEF Init
<1> QED
  BY <1>1, NullIs DEF Inv, AbortsOnlyHollow, Fresh, Found

\* Every reachable state satisfies the inductive invariant.
THEOREM Invariance == Spec => []Inv
  BY InitInv, Inductive, PTL DEF Spec

-----------------------------------------------------------------------------
\* A value that fits a slab fits its class.
LEMMA FitsClass == \A size \in Nat : size <= get_slab_class(size) \/ size > MEM
<1> TAKE size \in Nat
<1> DEFINE fits == {class \in Classes : class >= size}
<1>1. MEM \in Classes /\ MEM \in Nat /\ Classes \subseteq Nat
  BY CacheAssumption, SlabAssumption
<1>2. CASE size <= MEM
  <2>1. fits # {} /\ fits \in SUBSET Nat
    BY <1>1, <1>2
  <2>2. Min(fits) \in fits
    BY <2>1, MinIsLeast
  <2>3. get_slab_class(size) = Min(fits)
    BY <2>1 DEF get_slab_class
  <2> QED
    BY <1>1, <2>2, <2>3
<1> QED
  BY <1>1, <1>2

\* Key table, slab manager and counters agree after every sequence of calls, on
\* every path of cache_set, cache_get and cache_delete; the assertion of
\* cache_get fires only for a value with a zero byte before its last.  Nothing
\* is assumed about keys and values: the overlong key loses its value, but
\* corrupts neither the lists nor the slabs.
THEOREM CacheConsistent == Spec => []Consistent
<1>1. Inv => Consistent
  <2> SUFFICES ASSUME Inv PROVE Consistent
    OBVIOUS
  <2>1. /\ cache \in CacheObj /\ Tidy(cache) /\ Classed(cache) /\ Counted(cache) /\ Sized(cache)
        /\ Sound(cache.slabs, AddressesOf(cache)) /\ AbortsOnlyHollow
    BY DEF Inv, Good, Orderly
  <2>2. TypeOK
    BY <2>1 DEF Inv, TypeOK, Ret
  <2>3. SlotsMatchMetas
    BY <2>1 DEF Sound, SlotsMatchMetas
  <2>4. MetasApart
    <3>1. ASSUME NEW x \in Places(cache)
          PROVE  LET m == MetaAt(cache, x) IN
                 /\ m.slab_class = cache.slabs[m.address.slab].class
                 /\ m.size <= m.slab_class \/ m.size > MEM
                 /\ x[1] = Bucket(Lookup(m.name.key))
      <4> DEFINE m == MetaAt(cache, x)
      <4>1. m \in Meta /\ m.size \in Nat
        BY <2>1, MetaIs, MetaFields
      <4>2. Rightful(x[1], m) /\ m.slab_class = cache.slabs[m.address.slab].class
        BY <2>1 DEF Tidy, Classed
      <4> HIDE DEF m
      <4>3. m.size <= m.slab_class \/ m.size > MEM
        BY <4>1, <4>2, FitsClass DEF Rightful
      <4> QED
        BY <4>2, <4>3 DEF Rightful, m
    <3> QED
      BY <2>1, <3>1 DEF MetasApart, Tidy
  <2>5. CountersMatch
    BY <2>1 DEF CountersMatch, Counted, Sized
  <2> QED
    BY <2>1, <2>2, <2>3, <2>4, <2>5 DEF Consistent
<1> QED
  BY <1>1, Invariance, PTL

\* A set that returns 0 has stored its value, if no key fills the array of a meta.
THEOREM StoredUnlessKeyFills ==
  ASSUME KeysFit
  PROVE  Spec => []StoredIfSaid
<1>1. Inv => StoredIfSaid
  <2> SUFFICES ASSUME Inv, ret.op = "set", ret.rc = 0, proc = "running"
               PROVE  ValueOf(cache, ret.key) # Nil
    BY DEF StoredIfSaid
  <2>1. Found
    BY DEF Inv
  <2> QED
    BY <2>1 DEF Found, KeysFit
<1> QED
  BY <1>1, Invariance, PTL

-----------------------------------------------------------------------------
\* The refinement mapping keeps every step: the calls of cache.h are the actions
\* of the store.
LEMMA StepsOfStore ==
  ASSUME KeysFit, Inv, [Next]_vars
  PROVE  [Abstract!StoreNext]_(Abstract!storeVars)
<1> DEFINE store == [k \in Keys |-> ValueOf(cache, k)]
<1>0. Good(cache)
  BY DEF Inv
<1>1. ASSUME NEW maxmem \in MemSizes, CreateCache(maxmem) PROVE Abstract!Reset
  <2>1. \A k \in Keys : ValueOf(cache', k) = Nil
    BY <1>1, CreateIs, MemAssumption DEF CreateCache
  <2>2. ret'.op = "create"
    BY <1>1, RetIs DEF CreateCache
  <2> QED
    BY <2>1, <2>2 DEF Abstract!Reset, Abstract!Nothing, Abstract!Tell, Abstract!Empty, NoKey
<1>2. ASSUME DestroyCache PROVE Abstract!Reset
  <2>1. \A k \in Keys : ValueOf(cache', k) = Nil
    BY <1>2, NullIs DEF DestroyCache
  <2>2. ret'.op = "destroy"
    BY <1>2, RetIs DEF DestroyCache
  <2> QED
    BY <2>1, <2>2 DEF Abstract!Reset, Abstract!Nothing, Abstract!Tell, Abstract!Empty, NoKey
<1>3. ASSUME NEW key \in Keys, CacheGet(key) PROVE Abstract!Get(key)
  <2> DEFINE r == cache_get(cache, key)
             v == IF r.hit THEN r.val ELSE Nil
  <2>1. v = ValueOf(cache, key) /\ \A k \in Keys : ValueOf(r.c, k) = ValueOf(cache, k)
    BY <1>0, GetIs
  <2>2. cache' = r.c /\ ret' = Returned("get", key, 0, v)
    BY <1>3 DEF CacheGet
  <2> HIDE DEF r, v
  <2>3. ret'.op = "get" /\ ret'.key = key /\ ret'.rc = 0 /\ ret'.val = ValueOf(cache, key)
    BY <2>1, <2>2 DEF Returned
  <2>4. \A k \in Keys : ValueOf(cache', k) = ValueOf(cache, k)
    BY <2>1, <2>2
  <2> QED
    BY <2>3, <2>4 DEF Abstract!Get, Abstract!Tell
<1>4. ASSUME NEW key \in Keys, CacheDelete(key) PROVE Abstract!Delete(key)
  <2> DEFINE r == cache_delete(cache, Lookup(key))
  <2>1. /\ r.rc \in {0, 255} /\ (r.rc = 0 <=> ValueOf(cache, key) # Nil)
        /\ \A k \in Keys : ValueOf(r.c, k) = IF k = key THEN Nil ELSE ValueOf(cache, k)
    BY <1>0, DeleteKey
  <2>2. cache' = r.c /\ ret' = Returned("delete", key, r.rc, Nil)
    BY <1>4 DEF CacheDelete
  <2> HIDE DEF r
  <2>3. ret'.op = "delete" /\ ret'.key = key /\ (ret'.rc = 0) = (ValueOf(cache, key) # Nil) /\ ret'.val = Nil
    BY <2>1, <2>2 DEF Returned
  <2>4. \A k \in Keys : ValueOf(cache', k) = IF k = key THEN Nil ELSE ValueOf(cache, k)
    BY <2>1, <2>2
  <2> QED
    BY <2>3, <2>4 DEF Abstract!Delete, Abstract!Tell
<1>5. ASSUME NEW key \in Keys, NEW val \in Values, CacheSet(key, val)
      PROVE  Abstract!Put(key, val) \/ Abstract!RefusePut(key)
  <2>1. PICK tail \in Tails(key), rc \in {0, 1, 2, 3, 4, 5, 6} :
          /\ ret' = Returned("set", key, rc, Nil)
          /\ \/ rc \in {1, 2, 3, 5, 6} /\ cache' = cache
             \/ rc = 4 /\ SetFailed(cache, cache', key)
             \/ rc = 0 /\ SetDone(cache, cache', key, tail, val)
    BY <1>5, SetStep
  <2>2. ret'.op = "set" /\ ret'.key = key /\ ret'.rc = rc /\ ret'.val = Nil
    BY <2>1 DEF Returned
  <2>3. CASE rc \in {1, 2, 3, 5, 6} /\ cache' = cache
    <3>1. rc # 0 /\ \A k \in Keys : ValueOf(cache', k) = ValueOf(cache, k)
      BY <2>3
    <3> QED
      BY <2>2, <3>1 DEF Abstract!RefusePut, Abstract!Tell
  <2>4. CASE rc = 4 /\ SetFailed(cache, cache', key)
    <3>1. rc # 0 /\ \A k \in Keys : ValueOf(cache', k) = IF k = key THEN Nil ELSE ValueOf(cache, k)
      BY <2>4 DEF SetFailed
    <3>2. store' = [store EXCEPT ![key] = Nil]
      BY <3>1
    <3> QED
      BY <2>2, <3>1, <3>2 DEF Abstract!RefusePut, Abstract!Tell
  <2>5. CASE rc = 0 /\ SetDone(cache, cache', key, tail, val)
    <3>1. tail = -1
      BY Inputs DEF KeysFit
    <3>2. ValueOf(cache', key) = val
      BY <2>5, <3>1 DEF SetDone
    <3>3. PICK lost \in Keys :
            /\ \A k \in Keys \ {key, lost} : ValueOf(cache', k) = ValueOf(cache, k)
            /\ lost # key => ValueOf(cache', lost) = Nil
      BY <2>5 DEF SetDone
    <3>4. \A k \in Keys : ValueOf(cache', k) = [[store EXCEPT ![lost] = Nil] EXCEPT ![key] = val][k]
      BY <3>2, <3>3
    <3>5. [k \in Keys |-> ValueOf(cache', k)] = [[store EXCEPT ![lost] = Nil] EXCEPT ![key] = val]
      BY <3>4
    <3> QED
      BY <2>2, <2>5, <3>2, <3>5 DEF Abstract!Put, Abstract!Tell
  <2> QED
    BY <2>1, <2>3, <2>4, <2>5
<1>6. CASE UNCHANGED vars
  BY <1>6 DEF vars, Abstract!storeVars
<1> QED
  BY <1>1, <1>2, <1>3, <1>4, <1>5, <1>6 DEF Next, Abstract!StoreNext

\* The cache implements the store of the README, whatever is evicted or refused:
\* a get returns the value set last or nil, a set that says so has stored the
\* value and cost at most one other key its own, one that fails touched no other.
THEOREM CacheIsStore ==
  ASSUME KeysFit
  PROVE  Spec => ImplementsStore
<1>1. Init => Abstract!StoreInit
  <2> SUFFICES ASSUME Init PROVE Abstract!StoreInit
    OBVIOUS
  <2>1. \A k \in Keys : ValueOf(cache, k) = Nil
    BY NullIs DEF Init
  <2>2. ret.op = "start"
    BY RetIs DEF Init
  <2> QED
    BY <2>1, <2>2 DEF Abstract!StoreInit, Abstract!Nothing, Abstract!Tell, Abstract!Empty, NoKey
<1>2. Inv /\ [Next]_vars => [Abstract!StoreNext]_(Abstract!storeVars)
  BY StepsOfStore
<1> QED
  BY <1>1, <1>2, Invariance, PTL DEF Spec, ImplementsStore, Abstract!StoreSpec

-----------------------------------------------------------------------------
\* cache_set evicts only when it must, the value of the class that its timer says
\* was idle longest, and never the key used last before it, unless deleting an
\* old value of its own key made that key's timer advance.
THEOREM EvictionIsLastResort ==
  ASSUME KeysFit
  PROVE  Spec => EvictsOnlyForRoom
<1> DEFINE A == \A k \in Keys :
       (ret'.op = "set" /\ ret'.rc = 0 /\ k # ret'.key /\ ValueOf(cache, k) # Nil /\ ValueOf(cache', k) = Nil) =>
         /\ \A n \in DOMAIN cache'.slabs :
              cache'.slabs[n].class = get_slab_class(ValueOf(cache', ret'.key).size) =>
                get_free_index(cache'.slabs[n].status) = 0
         /\ \/ cache'.maxmem - cache'.size <= SLABSIZE
            \/ \E n \in DOMAIN cache'.slabs :
                 n > Len(cache.slabs) /\ Entries(cache'.slabs[n].class) \subseteq cache'.slabs[n].junk
         /\ \A j \in Keys \ {ret'.key} :
              (ValueOf(cache, j) # Nil /\ get_slab_class(ValueOf(cache, j).size) = get_slab_class(ValueOf(cache', ret'.key).size)) =>
                TimerOf(DeleteOld(cache, ret'.key), j) <= TimerOf(DeleteOld(cache, ret'.key), k)
         /\ k = ret.key /\ ret.op \in {"set", "get"} /\ ret.rc = 0 => ValueOf(cache, ret'.key) # Nil
<1>1. Inv /\ [Next]_vars => [A]_vars
  <2> SUFFICES ASSUME Inv, [Next]_vars, ~UNCHANGED vars, NEW k \in Keys,
                      ret'.op = "set", ret'.rc = 0, k # ret'.key, ValueOf(cache, k) # Nil, ValueOf(cache', k) = Nil
               PROVE  /\ \A n \in DOMAIN cache'.slabs :
                           cache'.slabs[n].class = get_slab_class(ValueOf(cache', ret'.key).size) =>
                             get_free_index(cache'.slabs[n].status) = 0
                      /\ \/ cache'.maxmem - cache'.size <= SLABSIZE
                         \/ \E n \in DOMAIN cache'.slabs :
                              n > Len(cache.slabs) /\ Entries(cache'.slabs[n].class) \subseteq cache'.slabs[n].junk
                      /\ \A j \in Keys \ {ret'.key} :
                           (ValueOf(cache, j) # Nil /\ get_slab_class(ValueOf(cache, j).size) = get_slab_class(ValueOf(cache', ret'.key).size)) =>
                             TimerOf(DeleteOld(cache, ret'.key), j) <= TimerOf(DeleteOld(cache, ret'.key), k)
                      /\ k = ret.key /\ ret.op \in {"set", "get"} /\ ret.rc = 0 => ValueOf(cache, ret'.key) # Nil
    BY Zenon DEF A
  <2>1. PICK key \in Keys, val \in Values : CacheSet(key, val)
    <3>1. \A maxmem \in MemSizes : ~CreateCache(maxmem)
      BY DEF CreateCache, Returned
    <3>2. ~DestroyCache
      BY DEF DestroyCache, Returned
    <3>3. \A key \in Keys : ~CacheGet(key) /\ ~CacheDelete(key)
      BY DEF CacheGet, CacheDelete, Returned
    <3> QED
      BY <3>1, <3>2, <3>3 DEF Next
  <2>2. PICK tail \in Tails(key), rc \in {0, 1, 2, 3, 4, 5, 6} :
          /\ ret' = Returned("set", key, rc, Nil)
          /\ \/ rc \in {1, 2, 3, 5, 6} /\ cache' = cache
             \/ rc = 4 /\ SetFailed(cache, cache', key)
             \/ rc = 0 /\ SetDone(cache, cache', key, tail, val)
    BY <2>1, SetStep
  <2>3. ret'.key = key /\ SetDone(cache, cache', key, tail, val)
    BY <2>2 DEF Returned
  <2>4. tail = -1
    BY Inputs DEF KeysFit
  <2>5. ValueOf(cache', key) = val
    BY <2>3, <2>4 DEF SetDone
  <2>6. LostFor(cache, cache', key, get_slab_class(val.size), k)
    BY <2>3 DEF SetDone
  <2>7. k = ret.key /\ ret.op \in {"set", "get"} /\ ret.rc = 0 => ValueOf(cache, key) # Nil
    BY <2>6 DEF LostFor, Inv, Fresh
  <2> QED
    BY <2>3, <2>5, <2>6, <2>7 DEF LostFor, Exhausted, Filled, IdleLongest
<1> QED
  BY <1>1, Invariance, PTL DEF Spec, EvictsOnlyForRoom

=============================================================================
