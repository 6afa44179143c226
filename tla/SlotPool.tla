------------------------------ MODULE SlotPool ------------------------------
(***************************************************************************)
(* What the slab allocator promises its caller, without slabs or bitmaps:  *)
(* a pool of slots, each of a class, that are handed out one at a time.    *)
(*   - a slot in use is not handed out again until it is given back;       *)
(*   - asking for a class fails only when the pool has no such slot left;  *)
(*   - the pool grows by whole batches of fresh slots of one class.        *)
(***************************************************************************)
CONSTANTS PoolClasses, NoSlot

VARIABLES
  free,   \* the slots that may be handed out, records [class, addr]
  used,   \* the slots handed out and not yet given back
  given   \* the address the last request was answered with

poolVars == <<free, used, given>>

PoolInit == free = {} /\ used = {} /\ given = NoSlot

Take(class) ==
  \E slot \in free :
    /\ slot.class = class
    /\ free'  = free \ {slot}
    /\ used'  = used \cup {slot}
    /\ given' = slot.addr

Refuse(class) ==
  /\ \A slot \in free : slot.class # class
  /\ given' = NoSlot
  /\ UNCHANGED <<free, used>>

GiveBack ==
  \E slot \in used :
    /\ used' = used \ {slot}
    /\ free' = free \cup {slot}
    /\ UNCHANGED given

Grow(class) ==
  /\ free \subseteq free'
  /\ \A slot \in free' \ free : slot.class = class /\ slot \notin used
  /\ UNCHANGED <<used, given>>

PoolNext ==
  \E class \in PoolClasses : Take(class) \/ Refuse(class) \/ Grow(class) \/ GiveBack

PoolSpec == PoolInit /\ [][PoolNext]_poolVars
=============================================================================
