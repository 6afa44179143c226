------------------------------- MODULE Slabs --------------------------------
(***************************************************************************)
(* The slab manager as a component: a caller that adds slabs, asks for     *)
(* addresses and deletes the ones it holds, in any order.  `held` is the   *)
(* caller's side of the contract, the addresses it was given and has not   *)
(* deleted; the allocator keeps no such record and works from its status   *)
(* bits alone.                                                             *)
(***************************************************************************)
EXTENDS SlabOps

CONSTANTS
  Sizes,     \* the sizes the caller asks for
  MaxSlabs   \* bound on the slabs of the manager

ASSUME SlabsAssumption == Sizes \subseteq Nat /\ MaxSlabs \in Nat

VARIABLES
  slabs,   \* man->slabs
  held,    \* addresses handed out and not deleted
  ret      \* the result of the last get_address

vars == <<slabs, held, ret>>

Init == slabs = LL_create /\ held = {} /\ ret = NULL

GetAddress(size) ==
  LET r == get_address(slabs, size)
  IN  /\ slabs' = r.slabs
      /\ ret'   = r.addr
      /\ held'  = IF r.addr = NULL THEN held ELSE held \cup {r.addr}

ManDelete(addr) ==
  /\ slabs' = man_delete(slabs, addr)
  /\ held'  = held \ {addr}
  /\ UNCHANGED ret

SlabAdd(class, dirt) ==
  /\ Len(slabs) < MaxSlabs
  /\ slabs' = slab_add(slabs, class, dirt)
  /\ UNCHANGED <<held, ret>>

Next ==
  \/ \E size \in Sizes : GetAddress(size)
  \/ \E addr \in held : ManDelete(addr)
  \/ \E class \in Classes, dirt \in SUBSET AllOnes : SlabAdd(class, dirt)

Spec == Init /\ [][Next]_vars

-----------------------------------------------------------------------------
\* Types: a list of slabs, the caller's addresses and the last answer.
TypeOK ==
  /\ slabs \in Seq(Slab)
  /\ held \in SUBSET Address
  /\ ret \in Address

\* The status bits say exactly who owns what, and every address handed out is
\* that of an entry inside a slab.  A wrong toggle in get_address or man_delete
\* breaks it one way (an entry handed out twice) or the other (an entry lost).
OwnedExactly ==
  /\ HeldAreEntries(slabs, held)
  /\ BitsMatch(slabs, held)
  /\ JunkApart(slabs, held)

\* get_slab never skips a slab with room: isFull is set late, by the
\* get_address that finds no clear bit, and must be cleared by slab_delete.
FullMeansFull == FullSound(slabs)

FreeSlots == FreeOf(slabs)
UsedSlots == UsedOf(slabs, held)

Pool == INSTANCE SlotPool WITH
          PoolClasses <- Classes, NoSlot <- NULL,
          free <- FreeSlots, used <- UsedSlots, given <- ret

\* The manager is a pool of slots: no slot twice, and NULL only when the class
\* has no free entry left (get_address, slabs.c:200 and get_slab, slabs.c:139).
ImplementsPool == Pool!PoolSpec

=============================================================================
