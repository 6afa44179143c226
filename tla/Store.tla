------------------------------- MODULE Store --------------------------------
(***************************************************************************)
(* The promise of the cache, as the "System Definition" of the README puts *)
(* it: "a deleted value is never returned, and a get returns the most      *)
(* recently set value with that key or nil".  What the caller is told is   *)
(* part of it: a set that succeeds has stored the value and cost at most   *)
(* one other key its own; a set that fails has touched no other key; a     *)
(* delete succeeds exactly if there was a value.                           *)
(***************************************************************************)
CONSTANTS StoreKeys, StoreValues, NoValue

VARIABLES
  store,   \* what a get of each key would return
  told     \* what the caller was told last: [op, key, ok, val]

storeVars == <<store, told>>

Tell(op, key, ok, val) == [op |-> op, key |-> key, ok |-> ok, val |-> val]

\* What is said of calls that concern no key.
Nothing(op) == Tell(op, "no key", TRUE, NoValue)

Empty == [k \in StoreKeys |-> NoValue]

StoreInit == store = Empty /\ told = Nothing("reset")

\* `lost` is the key that is evicted, k itself standing for none.
Put(k, v) ==
  /\ told' = Tell("set", k, TRUE, NoValue)
  /\ store'[k] = v
  /\ \E lost \in StoreKeys :
       store' = [[store EXCEPT ![lost] = NoValue] EXCEPT ![k] = v]

RefusePut(k) ==
  /\ told' = Tell("set", k, FALSE, NoValue)
  /\ store' \in {store, [store EXCEPT ![k] = NoValue]}

Get(k) == told' = Tell("get", k, TRUE, store[k]) /\ UNCHANGED store

Delete(k) ==
  /\ told' = Tell("delete", k, store[k] # NoValue, NoValue)
  /\ store' = [store EXCEPT ![k] = NoValue]

Reset == told' = Nothing("reset") /\ store' = Empty

Idle == told' = Nothing("idle") /\ UNCHANGED store

StoreNext ==
  \/ \E k \in StoreKeys, v \in StoreValues : Put(k, v)
  \/ \E k \in StoreKeys : RefusePut(k) \/ Get(k) \/ Delete(k)
  \/ Reset
  \/ Idle

StoreSpec == StoreInit /\ [][StoreNext]_storeVars
=============================================================================
