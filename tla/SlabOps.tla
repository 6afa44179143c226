------------------------------ MODULE SlabOps -------------------------------
(***************************************************************************)
(* The slab allocator of tools/slabs.c as operators on the list of slabs.  *)
(*                                                                         *)
(* A slab is MEM bytes cut into entries of its class, with one status bit  *)
(* per entry in NW words of W bits (1 = allocated).  A word is the set of  *)
(* the positions of its 1 bits, position 0 being the most significant bit: *)
(* that is the bit toggle_bit reaches with 0x80000000 >> 0 and the one     *)
(* __builtin_clz counts from.  The source has MEM = 2^20, W = 32, NW = 512 *)
(* and the classes 2^6 .. 2^20.                                            *)
(*                                                                         *)
(* A pointer into a slab is the slab's position in the list and the offset *)
(* into its memory.  Slabs are only appended, so a position stays valid    *)
(* until man_destroy frees them all.                                       *)
(***************************************************************************)
EXTENDS Integers, List

CONSTANTS
  MEM,       \* bytes of memory in a slab (1 << 20)
  SLABSIZE,  \* sizeof(slab_obj): the memory and the bookkeeping after it
  Classes,   \* the entry sizes of man->classes, without the 0 terminator
  W,         \* bits in a status word
  NW         \* status words in a slab

ASSUME SlabAssumption ==
  /\ MEM \in Nat \ {0}
  /\ SLABSIZE \in Nat /\ SLABSIZE > MEM
  /\ W \in Nat \ {0}
  /\ NW \in Nat \ {0}
  /\ Classes # {} /\ Classes \subseteq 1..MEM
  /\ \A class \in Classes : MEM \div class <= W * NW

-----------------------------------------------------------------------------
Words   == 0..(NW - 1)
AllOnes == 0..(W - 1)                      \* the word ~0

\* Entries of a slab of this class; the remaining status bits stay 1 for ever.
Entries(class) == 0..((MEM \div class) - 1)

\* `junk` is a history field: the entries whose bit allocate_slab left at 1.
Slab == [class : Classes, status : [Words -> SUBSET AllOnes],
         isFull : BOOLEAN, junk : SUBSET Nat]

Address == [slab : Nat, off : Nat]
NULL    == [slab |-> 0, off |-> 0]         \* list positions start at 1

BitSet(status, bit) == (bit % W) \in status[bit \div W]

toggle_bit(status, bit) ==
  [status EXCEPT ![bit \div W] = SymDiff(@, {bit % W})]

\* The first class that holds `size`, else the largest.  man->classes ascends.
get_slab_class(size) ==
  LET fits == {class \in Classes : class >= size}
  IN  IF fits # {} THEN Min(fits) ELSE Max(Classes)

\* Fault: a word that is partly in use is passed over.
get_free_index_skips(status) ==
  LET open == {i \in Words : status[i] = {}}
  IN  IF open = {} THEN 0 ELSE W * Min(open) + 1

\* 0 when every bit is set, else 1 + the index of the first clear bit.
get_free_index(status) ==
  LET open == {i \in Words : status[i] # AllOnes}
      i    == Min(open)
  IN  IF open = {} THEN 0
      ELSE IF status[i] = {} THEN W * i + 1
      ELSE W * i + Min(AllOnes \ status[i]) + 1

\* The bits left over for entries in the word after the fully cleared ones.
Remainder(class) ==
  LET cleared == (MEM \div class) \div W
  IN  (MEM - cleared * W * class) \div class

(***************************************************************************)
(* The block comes from malloc, so the words it has not yet written hold   *)
(* anything.  The word after the cleared ones is only or-ed into: its      *)
(* first Remainder(class) bits keep what malloc left there, `dirt`.  (When *)
(* all NW words are cleared the or-ing falls behind the array, on isFull   *)
(* and its padding; isFull is assigned afterwards.)                        *)
(***************************************************************************)
allocate_slab(class, dirt) ==
  LET cleared == (MEM \div class) \div W
      rest    == Remainder(class)
      kept    == {j \in dirt : j < rest}
  IN  [class  |-> class,
       status |-> [i \in Words |->
                     IF i < cleared THEN {}
                     ELSE IF i = cleared THEN kept \cup {j \in AllOnes : j >= rest}
                     ELSE AllOnes],
       isFull |-> FALSE,
       junk   |-> IF cleared \in Words THEN {cleared * W + j : j \in kept} ELSE {}]

slab_add(slabs, class, dirt) == LL_append(slabs, allocate_slab(class, dirt))

(***************************************************************************)
(* get_address tries the first slab of the class that is not marked full;  *)
(* if it has no clear bit after all it is marked and the search restarts.  *)
(* The recursion ends at the first open slab with room, having marked the  *)
(* open ones before it, or with NULL, having marked them all.              *)
(***************************************************************************)
get_address(slabs, size) ==
  LET class   == get_slab_class(size)
      open    == {n \in DOMAIN slabs : slabs[n].class = class /\ ~slabs[n].isFull}
      roomy   == {n \in open : get_free_index(slabs[n].status) # 0}
      found   == LL_find(roomy)
      entry   == get_free_index(slabs[found].status) - 1
      marked  == [n \in DOMAIN slabs |->
                    IF n \in open /\ (roomy = {} \/ n < found)
                    THEN [slabs[n] EXCEPT !.isFull = TRUE] ELSE slabs[n]]
  IN  IF roomy = {} THEN [addr |-> NULL, slabs |-> marked]
      ELSE [addr  |-> [slab |-> found, off |-> slabs[found].class * entry],
            slabs |-> [marked EXCEPT ![found].status = toggle_bit(@, entry)]]

\* Faults: the bit of the deleted entry stays set, or the full mark does.
slab_delete_keeps_bit(slab, item)  == [slab EXCEPT !.isFull = FALSE]
slab_delete_keeps_mark(slab, item) == [slab EXCEPT !.status = toggle_bit(@, item)]

slab_delete(slab, item) ==
  [slab EXCEPT !.status = toggle_bit(@, item), !.isFull = FALSE]

\* find_val: the slabs whose block contains the address.
find_val(slabs, addr) == {n \in DOMAIN slabs : n = addr.slab /\ addr.off < SLABSIZE}

man_delete(slabs, addr) ==
  LET n == LL_find(find_val(slabs, addr))
  IN  IF n = 0 THEN slabs
      ELSE [slabs EXCEPT ![n] = slab_delete(@, addr.off \div @.class)]

-----------------------------------------------------------------------------
\* What ties the slabs to the set `held` of the addresses handed out and not
\* yet deleted; the allocator itself keeps no such set.

\* The address of entry i of slab n, as get_address computes it.
EntryAddr(slabs, n, i) == [slab |-> n, off |-> slabs[n].class * i]

\* Every held address is that of an entry.
HeldAreEntries(slabs, held) ==
  \A addr \in held :
    \E n \in DOMAIN slabs : \E i \in Entries(slabs[n].class) :
      addr = EntryAddr(slabs, n, i)

\* A bit is 1 if its entry does not exist, was left dirty by allocate_slab or
\* is held, and only then.
BitsMatch(slabs, held) ==
  \A n \in DOMAIN slabs : \A i \in 0..(W * NW - 1) :
    BitSet(slabs[n].status, i) <=>
      \/ i \notin Entries(slabs[n].class)
      \/ i \in slabs[n].junk
      \/ EntryAddr(slabs, n, i) \in held

\* A dirty entry is never also held.
JunkApart(slabs, held) ==
  \A n \in DOMAIN slabs : \A i \in slabs[n].junk :
    i \in Entries(slabs[n].class) /\ EntryAddr(slabs, n, i) \notin held

\* A slab marked full has no clear bit.
FullSound(slabs) ==
  \A n \in DOMAIN slabs : slabs[n].isFull => get_free_index(slabs[n].status) = 0

\* The slots of the pool that the slabs form: the entries whose bit is clear may
\* still be handed out, the held ones are in use.
FreeOf(slabs) ==
  UNION { { [class |-> slabs[n].class, addr |-> EntryAddr(slabs, n, i)] :
              i \in {j \in Entries(slabs[n].class) : ~BitSet(slabs[n].status, j)} } :
          n \in DOMAIN slabs }

UsedOf(slabs, held) == { [class |-> slabs[addr.slab].class, addr |-> addr] : addr \in held }
=============================================================================
