---------------------------- MODULE ServerProofs ----------------------------
(***************************************************************************)
(* Theorems about the server, for every memory size, set of keys and       *)
(* values and every sequence of requests.                                  *)
(***************************************************************************)
EXTENDS Server, CacheLemmas

\* No key fills the array of a meta (its terminator would be overwritten).
KeysFit == \A k \in Keys : KeyLen[k] # KEYSIZE

\* The fields of a reply that are not a sum.
Reply ==
  /\ reply.op \in {"start", "memsize", "shutdown", "delete", "get", "put", "head", "bad"}
  /\ reply.key \in Keys \cup {NoKey} /\ reply.status \in {0, 200, 201, 204, 400, 500}
  /\ reply.val \in Values \cup {Nil}

\* The inductive invariant.
Inv ==
  /\ Good(global_cache) /\ Reply
  /\ cache_has_been_set \in BOOLEAN /\ proc \in {"running", "exited", "aborted", "undefined"}
  /\ NothingToDiscard /\ FlagNeedsCache

-----------------------------------------------------------------------------
\* A conversion to uint64_t gives no negative number.
LEMMA U64Is == \A m \in Int : U64(m) \in Nat
<1>1. CAP \in Nat /\ CAP > 0
  BY CacheAssumption, SlabAssumption
<1>2. ASSUME NEW m \in Int, NEW n \in Nat, n > 0 PROVE m % n \in Nat
  BY <1>2
<1>3. CAP * CAP \in Nat /\ CAP * CAP > 0
  BY <1>1
<1> QED
  BY <1>2, <1>3 DEF U64

\* What a reply says.
LEMMA ReplyIs ==
  ASSUME NEW op, NEW key, NEW status, NEW val, cache_reply(op, key, status, val)
  PROVE  reply'.op = op /\ reply'.key = key /\ reply'.status = status /\ reply'.val = val
  BY DEF cache_reply

\* A lookup finds a value or nil, and nil where there are no metas.
LEMMA ValueIs ==
  ASSUME NEW c, Good(c), NEW k \in Keys
  PROVE  ValueOf(c, k) \in Values \cup {Nil} /\ (Places(c) = {} => ValueOf(c, k) = Nil)
<1>1. c \in CacheObj /\ Tidy(c)
  BY DEF Good, Orderly
<1> QED
  BY <1>1, ValueHere, ValueNone

\* A PUT, as a step: what SetIs says, and what is replied.
LEMMA PutStep ==
  ASSUME Inv, NEW key \in Keys, NEW val \in Values, Put(key, val)
  PROVE  \E tail \in Tails(key), rc \in {0, 1, 2, 3, 4, 5, 6} :
           /\ cache_has_been_set' = (cache_has_been_set \/ rc = 0)
           /\ reply'.op = "put" /\ reply'.key = key /\ reply'.val = Nil
           /\ reply'.status = IF rc = 0 THEN 204 ELSE 500
           /\ proc' \in {"running", "undefined"}
           /\ \/ rc \in {1, 2, 3, 5, 6} /\ global_cache' = global_cache
              \/ rc = 4 /\ SetFailed(global_cache, global_cache', key)
              \/ rc = 0 /\ ~IsNull(global_cache) /\ SetDone(global_cache, global_cache', key, tail, val)
<1>1. PICK tail \in Tails(key), dirt1 \in Leftovers(global_cache), dirt2 \in Leftovers(global_cache) :
        LET r == cache_set(global_cache, key, tail, val, dirt1, dirt2) IN
        /\ global_cache' = r.c /\ cache_has_been_set' = (cache_has_been_set \/ r.rc = 0)
        /\ cache_reply("put", key, IF r.rc = 0 THEN 204 ELSE 500, Nil)
        /\ proc' = IF r.rc = 0 /\ val.size > MEM THEN "undefined" ELSE proc
  BY DEF Put
<1> DEFINE r == cache_set(global_cache, key, tail, val, dirt1, dirt2)
<1>2. proc = "running" /\ Good(global_cache)
  BY DEF Put, Inv
<1>3. tail \in -1 .. (NB - 1) /\ dirt1 \in SUBSET AllOnes /\ dirt2 \in SUBSET AllOnes
  BY CacheAssumption DEF Leftovers, Tails
<1>4. \/ r.rc \in {1, 2, 3, 5, 6} /\ r.c = global_cache
      \/ r.rc = 4 /\ ~IsNull(global_cache) /\ SetFailed(global_cache, r.c, key)
      \/ r.rc = 0 /\ ~IsNull(global_cache) /\ SetDone(global_cache, r.c, key, tail, val)
  BY <1>2, <1>3, SetIs
<1>5. /\ global_cache' = r.c /\ cache_has_been_set' = (cache_has_been_set \/ r.rc = 0)
      /\ cache_reply("put", key, IF r.rc = 0 THEN 204 ELSE 500, Nil) /\ proc' \in {"running", "undefined"}
  BY <1>1, <1>2
<1> HIDE DEF r
<1>6. r.rc \in {0, 1, 2, 3, 4, 5, 6}
  BY <1>4
<1>7. /\ reply'.op = "put" /\ reply'.key = key /\ reply'.val = Nil
      /\ reply'.status = IF r.rc = 0 THEN 204 ELSE 500
  BY <1>5, ReplyIs
<1> QED
  BY <1>2, <1>4, <1>5, <1>6, <1>7

-----------------------------------------------------------------------------
\* Every request keeps the invariant.
LEMMA Inductive == Inv /\ [Next]_vars => Inv'
<1> SUFFICES ASSUME Inv, [Next]_vars PROVE Inv'
  OBVIOUS
<1>0. /\ Good(global_cache) /\ Reply
      /\ cache_has_been_set \in BOOLEAN /\ proc \in {"running", "exited", "aborted", "undefined"}
      /\ NothingToDiscard /\ FlagNeedsCache
  BY DEF Inv
<1>1. ASSUME NEW m \in MemSizes, PostMemsize(m) PROVE Inv'
  <2>1. cache_has_been_set' = cache_has_been_set /\ proc' = proc
    BY <1>1 DEF PostMemsize
  <2>2. CASE ~cache_has_been_set
    <3>1. global_cache' = create_cache(U64(m)) /\ cache_reply("memsize", NoKey, 201, Nil)
      BY <1>1, <2>2 DEF PostMemsize
    <3>2. Good(global_cache') /\ Places(global_cache') = {}
      BY <3>1, CreateIs, U64Is, ServerAssumption
    <3>3. Reply'
      BY <3>1, ReplyIs DEF Reply
    <3> QED
      BY <1>0, <2>1, <2>2, <3>2, <3>3 DEF Inv, NothingToDiscard, FlagNeedsCache
  <2>3. CASE cache_has_been_set
    <3>1. global_cache' = global_cache /\ cache_reply("memsize", NoKey, 500, Nil)
      BY <1>1, <2>3 DEF PostMemsize
    <3>2. Reply'
      BY <3>1, ReplyIs DEF Reply
    <3> QED
      BY <1>0, <2>1, <3>1, <3>2 DEF Inv, NothingToDiscard, FlagNeedsCache
  <2> QED
    BY <1>0, <2>2, <2>3
<1>2. CASE PostShutdown
  <2>1. global_cache' = NullCache /\ ~cache_has_been_set' /\ cache_has_been_set' \in BOOLEAN
        /\ proc' \in {"running", "exited"}
    BY <1>2 DEF PostShutdown
  <2>2. PICK status \in {204, 500} : cache_reply("shutdown", NoKey, status, Nil)
    BY <1>2 DEF PostShutdown
  <2>3. Reply'
    BY <2>2, ReplyIs DEF Reply
  <2> QED
    BY <2>1, <2>3, NullIs DEF Inv, NothingToDiscard, FlagNeedsCache
<1>3. ASSUME NEW key \in Keys, Delete(key) PROVE Inv'
  <2> DEFINE r == cache_delete(global_cache, Lookup(key))
  <2>1. /\ Good(r.c) /\ r.c.maxmem = global_cache.maxmem
        /\ r.rc \in {0, 255} /\ (r.rc = 0 <=> ValueOf(global_cache, key) # Nil) /\ (r.rc = 255 => r.c = global_cache)
    BY <1>0, DeleteKey
  <2>2. global_cache' = r.c /\ cache_has_been_set' = cache_has_been_set /\ proc' = proc
    BY <1>3 DEF Delete
  <2>3. PICK status \in {204, 500} : cache_reply("delete", key, status, Nil)
    BY <1>3 DEF Delete
  <2> HIDE DEF r
  <2>4. Reply'
    BY <2>3, ReplyIs DEF Reply
  <2>5. Places(global_cache) = {} => r.c = global_cache
    BY <1>0, <2>1, ValueIs
  <2> QED
    BY <1>0, <2>1, <2>2, <2>4, <2>5 DEF Inv, NothingToDiscard, FlagNeedsCache, IsNull
<1>4. ASSUME NEW key \in Keys, Get(key) PROVE Inv'
  <2> DEFINE r == cache_get(global_cache, key)
             v == IF r.hit THEN r.val ELSE Nil
  <2>1. /\ Good(r.c) /\ v = ValueOf(global_cache, key)
        /\ Places(r.c) = Places(global_cache) /\ (IsNull(r.c) <=> IsNull(global_cache))
    BY <1>0, GetIs
  <2>2. /\ global_cache' = r.c /\ cache_has_been_set' = cache_has_been_set /\ proc' \in {"running", "aborted"}
        /\ reply' = reply \/ \E status \in {200, 204} : cache_reply("get", key, status, v)
    BY <1>4 DEF Get
  <2>3. v \in Values \cup {Nil}
    BY <1>0, <2>1, ValueIs
  <2> HIDE DEF r, v
  <2>4. Reply'
    <3>1. CASE reply' = reply
      BY <1>0, <3>1 DEF Reply
    <3>2. ASSUME NEW status \in {200, 204}, cache_reply("get", key, status, v) PROVE Reply'
      BY <2>3, <3>2, ReplyIs DEF Reply
    <3> QED
      BY <2>2, <3>1, <3>2
  <2> QED
    BY <1>0, <2>1, <2>2, <2>4 DEF Inv, NothingToDiscard, FlagNeedsCache
<1>5. ASSUME NEW key \in Keys, NEW val \in Values, Put(key, val) PROVE Inv'
  <2>1. PICK tail \in Tails(key), rc \in {0, 1, 2, 3, 4, 5, 6} :
          /\ cache_has_been_set' = (cache_has_been_set \/ rc = 0)
          /\ reply'.op = "put" /\ reply'.key = key /\ reply'.val = Nil
          /\ reply'.status = IF rc = 0 THEN 204 ELSE 500
          /\ proc' \in {"running", "undefined"}
          /\ \/ rc \in {1, 2, 3, 5, 6} /\ global_cache' = global_cache
             \/ rc = 4 /\ SetFailed(global_cache, global_cache', key)
             \/ rc = 0 /\ ~IsNull(global_cache) /\ SetDone(global_cache, global_cache', key, tail, val)
    BY <1>5, PutStep
  <2>2. Good(global_cache') /\ global_cache'.maxmem = global_cache.maxmem
    BY <1>0, <2>1 DEF SetFailed, SetDone
  <2>3. rc = 0 \/ (Places(global_cache) = {} => Places(global_cache') = {})
    BY <2>1 DEF SetFailed
  <2>4. rc = 0 => ~IsNull(global_cache)
    BY <2>1
  <2>5. Reply'
    BY <2>1 DEF Reply
  <2>6. cache_has_been_set' \in BOOLEAN /\ (cache_has_been_set' <=> cache_has_been_set \/ rc = 0)
    BY <1>0, <2>1
  <2>7. NothingToDiscard'
    BY <1>0, <2>3, <2>6 DEF NothingToDiscard
  <2>8. FlagNeedsCache'
    BY <1>0, <2>2, <2>4, <2>6 DEF FlagNeedsCache, IsNull
  <2> QED
    BY <2>1, <2>2, <2>5, <2>6, <2>7, <2>8 DEF Inv
<1>6. ASSUME NEW op \in {"head", "bad"}, NEW status \in {200, 400}, Other(op, status) PROVE Inv'
  <2>1. /\ global_cache' = global_cache /\ cache_has_been_set' = cache_has_been_set /\ proc' = proc
        /\ cache_reply(op, NoKey, status, Nil)
    BY <1>6 DEF Other
  <2>2. Reply'
    BY <2>1, ReplyIs DEF Reply
  <2> QED
    BY <1>0, <2>1, <2>2 DEF Inv, NothingToDiscard, FlagNeedsCache
<1>7. CASE UNCHANGED vars
  BY <1>0, <1>7 DEF vars, Inv, Reply, NothingToDiscard, FlagNeedsCache
<1> QED
  BY <1>1, <1>2, <1>3, <1>4, <1>5, <1>6, <1>7 DEF Next

\* It holds when the server starts: a cache without metas.
LEMMA InitInv == Init => Inv
<1> SUFFICES ASSUME Init PROVE Inv
  OBVIOUS
<1>1. PICK m \in MemSizes : global_cache = create_cache(IF m = 0 THEN Default ELSE U64(m))
  BY DEF Init
<1>2. (IF m = 0 THEN Default ELSE U64(m)) \in Nat
  BY U64Is, ServerAssumption
<1>3. Good(global_cache) /\ Places(global_cache) = {}
  BY <1>1, <1>2, CreateIs
<1>4. Reply
  BY DEF Init, Reply
<1> QED
  BY <1>3, <1>4 DEF Init, Inv, NothingToDiscard, FlagNeedsCache

\* Every reachable state satisfies the inductive invariant: the server's cache is
\* as well formed as one that the library's own callers use.
THEOREM Invariance == Spec => []Inv
  BY InitInv, Inductive, PTL DEF Spec

\* The flag tells the truth: POST /memsize, which replaces the cache without
\* looking at it, never loses a value, and is accepted whenever there is no cache.
THEOREM FlagTellsTruth == Spec => []FlagTrue
<1>1. Inv => FlagTrue
  <2> SUFFICES ASSUME Inv PROVE FlagTrue
    OBVIOUS
  <2>1. global_cache \in CacheObj
    BY DEF Inv, Good, Orderly
  <2> QED
    BY <2>1 DEF Inv, Reply, FlagTrue, TypeOK
<1> QED
  BY <1>1, Invariance, PTL


-----------------------------------------------------------------------------
\* The refinement mapping keeps every step: what a client is told by the status
\* of a reply is what the store would have told.
LEMMA StepsOfStore ==
  ASSUME KeysFit, Inv, [Next]_vars
  PROVE  [Abstract!StoreNext]_(Abstract!storeVars)
<1> DEFINE store == [k \in Keys |-> ValueOf(global_cache, k)]
<1>0. Good(global_cache)
  BY DEF Inv
<1>1. ASSUME NEW m \in MemSizes, PostMemsize(m) PROVE Abstract!Reset \/ Abstract!Idle
  <2>1. CASE ~cache_has_been_set
    <3>1. global_cache' = create_cache(U64(m)) /\ cache_reply("memsize", NoKey, 201, Nil)
      BY <1>1, <2>1 DEF PostMemsize
    <3>2. \A k \in Keys : ValueOf(global_cache', k) = Nil
      BY <3>1, CreateIs, U64Is, ServerAssumption
    <3>3. reply'.op = "memsize" /\ reply'.status = 201
      BY <3>1, ReplyIs
    <3> QED
      BY <3>2, <3>3 DEF Abstract!Reset, Abstract!Nothing, Abstract!Tell, Abstract!Empty, NoKey
  <2>2. CASE cache_has_been_set
    <3>1. global_cache' = global_cache /\ cache_reply("memsize", NoKey, 500, Nil)
      BY <1>1, <2>2 DEF PostMemsize
    <3>2. reply'.op = "memsize" /\ reply'.status = 500
      BY <3>1, ReplyIs
    <3> QED
      BY <3>1, <3>2 DEF Abstract!Idle, Abstract!Nothing, Abstract!Tell, NoKey
  <2> QED
    BY <2>1, <2>2
<1>2. ASSUME PostShutdown PROVE Abstract!Reset
  <2>1. \A k \in Keys : ValueOf(global_cache', k) = Nil
    BY <1>2, NullIs DEF PostShutdown
  <2>2. PICK status \in {204, 500} : cache_reply("shutdown", NoKey, status, Nil)
    BY <1>2 DEF PostShutdown
  <2>3. reply'.op = "shutdown"
    BY <2>2, ReplyIs
  <2> QED
    BY <2>1, <2>3 DEF Abstract!Reset, Abstract!Nothing, Abstract!Tell, Abstract!Empty, NoKey
<1>3. ASSUME NEW key \in Keys, Delete(key) PROVE Abstract!Delete(key)
  <2> DEFINE r == cache_delete(global_cache, Lookup(key))
  <2>1. /\ r.rc \in {0, 255} /\ (r.rc = 0 <=> ValueOf(global_cache, key) # Nil)
        /\ \A k \in Keys : ValueOf(r.c, k) = IF k = key THEN Nil ELSE ValueOf(global_cache, k)
    BY <1>0, DeleteKey
  <2>2. global_cache' = r.c /\ cache_reply("delete", key, IF r.rc = 0 THEN 204 ELSE 500, Nil)
    BY <1>3 DEF Delete
  <2> HIDE DEF r
  <2>3. reply'.op = "delete" /\ reply'.key = key /\ reply'.status = IF r.rc = 0 THEN 204 ELSE 500
    BY <2>2, ReplyIs
  <2>4. (reply'.status = 204) = (ValueOf(global_cache, key) # Nil)
    BY <2>1, <2>3
  <2>5. \A k \in Keys : ValueOf(global_cache', k) = IF k = key THEN Nil ELSE ValueOf(global_cache, k)
    BY <2>1, <2>2
  <2>6. store' = [store EXCEPT ![key] = Nil] /\ store[key] = ValueOf(global_cache, key)
    BY <2>5
  <2> QED
    BY <2>3, <2>4, <2>6 DEF Abstract!Delete, Abstract!Tell
<1>4. ASSUME NEW key \in Keys, Get(key) PROVE Abstract!Get(key) \/ UNCHANGED Abstract!storeVars
  <2> DEFINE r == cache_get(global_cache, key)
             v == IF r.hit THEN r.val ELSE Nil
  <2>1. v = ValueOf(global_cache, key) /\ \A k \in Keys : ValueOf(r.c, k) = ValueOf(global_cache, k)
    BY <1>0, GetIs
  <2>2. /\ global_cache' = r.c
        /\ reply' = reply \/ \E status \in {200, 204} : cache_reply("get", key, status, v)
    BY <1>4 DEF Get
  <2> HIDE DEF r, v
  <2>3. \A k \in Keys : ValueOf(global_cache', k) = ValueOf(global_cache, k)
    BY <2>1, <2>2
  <2>4. CASE reply' = reply
    BY <2>3, <2>4 DEF Abstract!storeVars
  <2>5. ASSUME NEW status \in {200, 204}, cache_reply("get", key, status, v) PROVE Abstract!Get(key)
    <3>1. reply'.op = "get" /\ reply'.key = key /\ reply'.val = ValueOf(global_cache, key)
      BY <2>1, <2>5, ReplyIs
    <3> QED
      BY <2>3, <3>1 DEF Abstract!Get, Abstract!Tell
  <2> QED
    BY <2>2, <2>4, <2>5
<1>5. ASSUME NEW key \in Keys, NEW val \in Values, Put(key, val)
      PROVE  Abstract!Put(key, val) \/ Abstract!RefusePut(key)
  <2>1. PICK tail \in Tails(key), rc \in {0, 1, 2, 3, 4, 5, 6} :
          /\ cache_has_been_set' = (cache_has_been_set \/ rc = 0)
          /\ reply'.op = "put" /\ reply'.key = key /\ reply'.val = Nil
          /\ reply'.status = IF rc = 0 THEN 204 ELSE 500
          /\ proc' \in {"running", "undefined"}
          /\ \/ rc \in {1, 2, 3, 5, 6} /\ global_cache' = global_cache
             \/ rc = 4 /\ SetFailed(global_cache, global_cache', key)
             \/ rc = 0 /\ ~IsNull(global_cache) /\ SetDone(global_cache, global_cache', key, tail, val)
    BY <1>5, PutStep
  <2>2. reply'.op = "put" /\ reply'.key = key /\ (reply'.status = 204) = (rc = 0)
    BY <2>1
  <2>3. CASE rc \in {1, 2, 3, 5, 6} /\ global_cache' = global_cache
    <3>1. rc # 0 /\ \A k \in Keys : ValueOf(global_cache', k) = ValueOf(global_cache, k)
      BY <2>3
    <3> QED
      BY <2>2, <3>1 DEF Abstract!RefusePut, Abstract!Tell
  <2>4. CASE rc = 4 /\ SetFailed(global_cache, global_cache', key)
    <3>1. /\ rc # 0
          /\ \A k \in Keys : ValueOf(global_cache', k) = IF k = key THEN Nil ELSE ValueOf(global_cache, k)
      BY <2>4 DEF SetFailed
    <3>2. store' = [store EXCEPT ![key] = Nil]
      BY <3>1
    <3> QED
      BY <2>2, <3>1, <3>2 DEF Abstract!RefusePut, Abstract!Tell
  <2>5. CASE rc = 0 /\ SetDone(global_cache, global_cache', key, tail, val)
    <3>1. tail = -1
      BY DEF KeysFit, Tails
    <3>2. ValueOf(global_cache', key) = val
      BY <2>5, <3>1 DEF SetDone
    <3>3. PICK lost \in Keys :
            /\ \A k \in Keys \ {key, lost} : ValueOf(global_cache', k) = ValueOf(global_cache, k)
            /\ lost # key => ValueOf(global_cache', lost) = Nil
      BY <2>5 DEF SetDone
    <3>4. \A k \in Keys : ValueOf(global_cache', k) = [[store EXCEPT ![lost] = Nil] EXCEPT ![key] = val][k]
      BY <3>2, <3>3
    <3>5. [k \in Keys |-> ValueOf(global_cache', k)] = [[store EXCEPT ![lost] = Nil] EXCEPT ![key] = val]
      BY <3>4
    <3> QED
      BY <2>2, <2>5, <3>2, <3>5 DEF Abstract!Put, Abstract!Tell
  <2> QED
    BY <2>1, <2>3, <2>4, <2>5
<1>6. ASSUME NEW op \in {"head", "bad"}, NEW status \in {200, 400}, Other(op, status) PROVE Abstract!Idle
  <2>1. global_cache' = global_cache /\ cache_reply(op, NoKey, status, Nil)
    BY <1>6 DEF Other
  <2>2. reply'.op = op
    BY <2>1, ReplyIs
  <2> QED
    BY <2>1, <2>2 DEF Abstract!Idle, Abstract!Nothing, Abstract!Tell, NoKey
<1>7. CASE UNCHANGED vars
  BY <1>7 DEF vars, Abstract!storeVars
<1> QED
  BY <1>1, <1>2, <1>3, <1>4, <1>5, <1>6, <1>7 DEF Next, Abstract!StoreNext

\* The server keeps the promise of the store towards its clients, who see only
\* statuses and values, over any sequence of requests, resizes and shutdowns.
THEOREM ServerIsStore ==
  ASSUME KeysFit
  PROVE  Spec => ImplementsStore
<1>1. Init => Abstract!StoreInit
  <2> SUFFICES ASSUME Init PROVE Abstract!StoreInit
    OBVIOUS
  <2>1. PICK m \in MemSizes : global_cache = create_cache(IF m = 0 THEN Default ELSE U64(m))
    BY DEF Init
  <2>2. (IF m = 0 THEN Default ELSE U64(m)) \in Nat
    BY U64Is, ServerAssumption
  <2>3. \A k \in Keys : ValueOf(global_cache, k) = Nil
    BY <2>1, <2>2, CreateIs
  <2>4. reply.op = "start"
    BY DEF Init
  <2> QED
    BY <2>3, <2>4 DEF Abstract!StoreInit, Abstract!Nothing, Abstract!Tell, Abstract!Empty, NoKey
<1>2. Inv /\ [Next]_vars => [Abstract!StoreNext]_(Abstract!storeVars)
  BY StepsOfStore
<1> QED
  BY <1>1, <1>2, Invariance, PTL DEF Spec, ImplementsStore, Abstract!StoreSpec

=============================================================================
