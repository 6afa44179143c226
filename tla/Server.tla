------------------------------- MODULE Server -------------------------------
(***************************************************************************)
(* The server of server.c: one global cache, the flag cache_has_been_set,  *)
(* and a loop that takes one well-formed request at a time, calls the      *)
(* cache and replies before it takes the next.  Requests arrive in any     *)
(* order.  A reply is its status, the value a GET found and the number in  *)
(* the cache-space-used header.                                            *)
(***************************************************************************)
EXTENDS CacheOps

CONSTANTS
  MemSizes,   \* what atoi makes of the -m argument and of POST /memsize
  Default     \* the maxmem without -m, 1 << 26

ASSUME ServerAssumption == MemSizes \subseteq Int /\ Default \in Nat

VARIABLES
  global_cache,
  cache_has_been_set,
  reply,   \* the last reply: [op, key, status, val, used]
  proc     \* "running", "exited", "aborted" or "undefined" (see Cache)

vars == <<global_cache, cache_has_been_set, reply, proc>>

\* An int passed as uint64_t; CAP is 2^32.
U64(n) == n % (CAP * CAP)

NoKey == "no key"

\* The header is computed from the cache as the request leaves it.
cache_reply(op, key, status, val) ==
  reply' = [op |-> op, key |-> key, status |-> status, val |-> val,
            used |-> cache_space_used(global_cache')]

Init ==
  /\ \E m \in MemSizes :
       global_cache = create_cache(IF m = 0 THEN Default ELSE U64(m))
  /\ cache_has_been_set = FALSE
  /\ reply = [op |-> "start", key |-> NoKey, status |-> 0, val |-> Nil, used |-> 0]
  /\ proc = "running"

PostMemsize(m) ==
  /\ proc = "running"
  /\ IF ~cache_has_been_set
     THEN /\ global_cache' = create_cache(U64(m))
          /\ cache_reply("memsize", NoKey, 201, Nil)
     ELSE /\ UNCHANGED global_cache
          /\ cache_reply("memsize", NoKey, 500, Nil)
  /\ UNCHANGED <<cache_has_been_set, proc>>

PostShutdown ==
  /\ proc = "running"
  /\ global_cache' = NullCache
  /\ cache_has_been_set' = FALSE
  /\ IF IsNull(global_cache)
     THEN cache_reply("shutdown", NoKey, 500, Nil) /\ proc' = "exited"
     ELSE cache_reply("shutdown", NoKey, 204, Nil) /\ UNCHANGED proc

\* Fault: the result of the delete is not looked at.
Delete_unchecked(key) ==
  /\ proc = "running"
  /\ global_cache' = cache_delete(global_cache, Lookup(key)).c
  /\ cache_reply("delete", key, 204, Nil)
  /\ UNCHANGED <<cache_has_been_set, proc>>

Delete(key) ==
  /\ proc = "running"
  /\ LET r == cache_delete(global_cache, Lookup(key))
     IN  /\ global_cache' = r.c
         /\ cache_reply("delete", key, IF r.rc = 0 THEN 204 ELSE 500, Nil)
  /\ UNCHANGED <<cache_has_been_set, proc>>

\* A get that fails the assertion aborts before it replies.
Get(key) ==
  /\ proc = "running"
  /\ LET r == cache_get(global_cache, key)
     IN  /\ global_cache' = r.c
         /\ IF r.good
            THEN /\ cache_reply("get", key, IF r.hit THEN 200 ELSE 204,
                                IF r.hit THEN r.val ELSE Nil)
                 /\ UNCHANGED proc
            ELSE proc' = "aborted" /\ UNCHANGED reply
  /\ UNCHANGED cache_has_been_set

Tails(key) == IF KeyLen[key] = KEYSIZE THEN -1..(NB - 1) ELSE {-1}

\* Fault: the flag is not set by a successful PUT.
Put_unflagged(key, val) ==
  /\ proc = "running"
  /\ \E dirt1, dirt2 \in Leftovers(global_cache) :
       LET r == cache_set(global_cache, key, -1, val, dirt1, dirt2)
       IN  /\ global_cache' = r.c
           /\ cache_reply("put", key, IF r.rc = 0 THEN 204 ELSE 500, Nil)
  /\ UNCHANGED <<cache_has_been_set, proc>>

Put(key, val) ==
  /\ proc = "running"
  /\ \E tail \in Tails(key), dirt1, dirt2 \in Leftovers(global_cache) :
       LET r == cache_set(global_cache, key, tail, val, dirt1, dirt2)
       IN  /\ global_cache' = r.c
           /\ cache_has_been_set' = (cache_has_been_set \/ r.rc = 0)
           /\ cache_reply("put", key, IF r.rc = 0 THEN 204 ELSE 500, Nil)
           /\ proc' = IF r.rc = 0 /\ val.size > MEM THEN "undefined" ELSE proc

\* Requests that leave the cache alone: HEAD, a POST or a method not known.
Other(op, status) ==
  /\ proc = "running"
  /\ UNCHANGED <<global_cache, cache_has_been_set, proc>>
  /\ cache_reply(op, NoKey, status, Nil)

Next ==
  \/ \E m \in MemSizes : PostMemsize(m)
  \/ PostShutdown
  \/ \E key \in Keys : \/ Delete(key)
                       \/ Get(key)
                       \/ \E val \in Values : Put(key, val)
  \/ Other("head", 200)
  \/ Other("bad", 400)

\* The server ends only in the exit that follows a second shutdown.
Spec == Init /\ [][Next]_vars

-----------------------------------------------------------------------------
\* Types: the cache, the flag, the last reply and the state of the process.
TypeOK ==
  /\ global_cache \in CacheObj
  /\ cache_has_been_set \in BOOLEAN
  /\ reply.op \in {"start", "memsize", "shutdown", "delete", "get", "put", "head", "bad"}
  /\ reply.key \in Keys \cup {NoKey} /\ reply.status \in {0, 200, 201, 204, 400, 500}
  /\ reply.val \in Values \cup {Nil}
  /\ proc \in {"running", "exited", "aborted", "undefined"}

\* As long as cache_has_been_set is false there is nothing stored: POST /memsize,
\* which replaces the cache without looking at its contents, loses no value.
NothingToDiscard ==
  ~cache_has_been_set => Places(global_cache) = {}

\* The flag never outlives the cache: after a shutdown the next POST /memsize is
\* accepted, so the server never gets stuck without a cache.
FlagNeedsCache == cache_has_been_set => ~IsNull(global_cache)

\* cache_has_been_set tells the truth about the cache, which is well formed.
FlagTrue == TypeOK /\ NothingToDiscard /\ FlagNeedsCache

\* The cache-space-used header counts exactly the values that GETs would still
\* find: nothing stored is out of reach.  The values lie within the memory of
\* the slabs (cache.h: "a given maximum memory capacity").
UsedIsReachable ==
  proc = "running" =>
    /\ reply.used =
         MapThenSumSet(LAMBDA k : ValueOf(global_cache, k).size,
                       {k \in Keys : ValueOf(global_cache, k) # Nil})
    /\ reply.used <= MEM * Len(global_cache.slabs)

\* The server as its clients see it keeps the README's promise: a GET is
\* answered with the value last PUT under the key or with "not found", and a
\* status of 204 or 500 says truly what a PUT or a DELETE did.
Abstract == INSTANCE Store WITH
  StoreKeys <- Keys, StoreValues <- Values, NoValue <- Nil,
  store <- [k \in Keys |-> ValueOf(global_cache, k)],
  told <- CASE reply.op = "put" ->
                 [op |-> "set", key |-> reply.key, ok |-> reply.status = 204, val |-> Nil]
            [] reply.op = "get" ->
                 [op |-> "get", key |-> reply.key, ok |-> TRUE, val |-> reply.val]
            [] reply.op = "delete" ->
                 [op |-> "delete", key |-> reply.key, ok |-> reply.status = 204, val |-> Nil]
            [] reply.op \in {"head", "bad"} \/ (reply.op = "memsize" /\ reply.status = 500) ->
                 [op |-> "idle", key |-> NoKey, ok |-> TRUE, val |-> Nil]
            [] OTHER -> [op |-> "reset", key |-> NoKey, ok |-> TRUE, val |-> Nil]

ImplementsStore == Abstract!StoreSpec
=============================================================================
