---------------------------- MODULE SlabsProofs -----------------------------
(***************************************************************************)
(* Theorems about the slab manager, for every size of slab and word, every *)
(* set of classes, every sequence of calls and whatever malloc leaves in a *)
(* new slab.  The inductive invariant is Sound(slabs, held) of SlabLemmas.  *)
(***************************************************************************)
EXTENDS Slabs, SlabLemmas

Inv == Sound(slabs, held) /\ ret \in Address

\* Every reachable state satisfies the inductive invariant.
THEOREM Invariance == Spec => []Inv
<1>1. Init => Inv
  BY SoundEmpty DEF Init, Inv, NULL, Address
<1>2. Inv /\ [Next]_vars => Inv'
  <2> SUFFICES ASSUME Inv, [Next]_vars PROVE Inv'
    OBVIOUS
  <2>0. Sound(slabs, held) /\ ret \in Address
    BY DEF Inv
  <2>1. ASSUME NEW size \in Sizes, GetAddress(size) PROVE Inv'
    <3>1. size \in Nat
      BY SlabsAssumption
    <3>2. NULL \in Address
      BY DEF NULL, Address
    <3> DEFINE r == get_address(slabs, size)
    <3>3. slabs' = r.slabs /\ ret' = r.addr
          /\ held' = IF r.addr = NULL THEN held ELSE held \cup {r.addr}
      BY <2>1 DEF GetAddress
    <3>4. \/ r.addr = NULL /\ Sound(r.slabs, held)
          \/ /\ r.addr # NULL /\ r.addr \in Address
             /\ Sound(r.slabs, held \cup {r.addr})
      BY <2>0, <3>1, SoundTake
    <3> HIDE DEF r
    <3> QED
      BY <3>2, <3>3, <3>4 DEF Inv
  <2>2. ASSUME NEW addr \in held, ManDelete(addr) PROVE Inv'
    BY <2>0, <2>2, SoundGiveBack DEF ManDelete, Inv
  <2>3. ASSUME NEW class \in Classes, NEW dirt \in SUBSET AllOnes, SlabAdd(class, dirt)
        PROVE  Inv'
    BY <2>0, <2>3, SoundAdd DEF SlabAdd, Inv
  <2>4. CASE UNCHANGED vars
    BY <2>4 DEF vars, Inv
  <2> QED
    BY <2>1, <2>2, <2>3, <2>4 DEF Next
<1> QED
  BY <1>1, <1>2, PTL DEF Spec

\* The slab list, the caller's addresses and the answers keep their types: in
\* particular every entry get_address returns lies inside an existing slab.
THEOREM TypeCorrect == Spec => []TypeOK
<1>1. Inv => TypeOK
  BY DEF Inv, Sound, TypeOK
<1> QED
  BY <1>1, Invariance, PTL

\* The status bits of slabs.c own every entry exactly: no entry is handed out
\* twice and none is lost by get_address and man_delete, in any order of calls.
THEOREM EntriesOwnedExactly == Spec => []OwnedExactly
<1>1. Inv => OwnedExactly
  BY DEF Inv, Sound, OwnedExactly
<1> QED
  BY <1>1, Invariance, PTL

\* The full mark of a slab is never stale: get_slab passes over no slab that
\* has a clear bit.
THEOREM MarksNeverStale == Spec => []FullMeansFull
<1>1. Inv => FullMeansFull
  BY DEF Inv, Sound, FullMeansFull
<1> QED
  BY <1>1, Invariance, PTL

-----------------------------------------------------------------------------
\* A slot is free exactly if it is an entry with a clear bit.
LEMMA FreeSlot ==
  ASSUME NEW s, NEW x
  PROVE  x \in FreeOf(s) <=>
           \E n \in DOMAIN s : \E i \in Entries(s[n].class) :
             /\ ~BitSet(s[n].status, i)
             /\ x = [class |-> s[n].class, addr |-> EntryAddr(s, n, i)]
  BY DEF FreeOf

\* Lists of the same shape with the same bits have the same free slots, and
\* lists of the same shape the same used slots.
LEMMA SameSlots ==
  ASSUME NEW s \in Seq(Slab), NEW t, SameShape(s, t)
  PROVE  /\ (\A n \in DOMAIN s : t[n].status = s[n].status) => FreeOf(t) = FreeOf(s)
         /\ \A h : Sound(s, h) => UsedOf(t, h) = UsedOf(s, h)
<1>0. DOMAIN t = DOMAIN s /\ \A n \in DOMAIN s : t[n].class = s[n].class
  BY DEF SameShape
<1>1. \A n \in DOMAIN s : \A i : EntryAddr(t, n, i) = EntryAddr(s, n, i)
  BY <1>0 DEF EntryAddr
<1>2. ASSUME \A n \in DOMAIN s : t[n].status = s[n].status
      PROVE  FreeOf(t) = FreeOf(s)
  <2>1. \A x : x \in FreeOf(t) <=> x \in FreeOf(s)
    <3> TAKE x
    <3>1. x \in FreeOf(s) <=>
           \E n \in DOMAIN s : \E i \in Entries(s[n].class) :
             /\ ~BitSet(s[n].status, i)
             /\ x = [class |-> s[n].class, addr |-> EntryAddr(s, n, i)]
      BY FreeSlot
    <3>2. x \in FreeOf(t) <=>
           \E n \in DOMAIN t : \E i \in Entries(t[n].class) :
             /\ ~BitSet(t[n].status, i)
             /\ x = [class |-> t[n].class, addr |-> EntryAddr(t, n, i)]
      BY FreeSlot
    <3> QED
      BY <1>0, <1>1, <1>2, <3>1, <3>2
  <2> QED
    BY <2>1
<1>3. ASSUME NEW h, Sound(s, h)
      PROVE  UsedOf(t, h) = UsedOf(s, h)
  <2>1. \A addr \in h : addr.slab \in DOMAIN s
    BY <1>3 DEF Sound, HeldAreEntries, EntryAddr
  <2> QED
    BY <1>0, <2>1 DEF UsedOf
<1> QED
  BY <1>2, <1>3

\* Toggling one entry's bit moves exactly its slot into or out of the pool.
LEMMA FlipSlot ==
  ASSUME NEW s \in Seq(Slab), NEW t, SameShape(s, t),
         NEW f \in DOMAIN s, NEW e \in Entries(s[f].class),
         \A n \in DOMAIN s : t[n].status = IF n = f THEN toggle_bit(s[n].status, e)
                                           ELSE s[n].status
  PROVE  LET slot == [class |-> s[f].class, addr |-> EntryAddr(s, f, e)] IN
         IF BitSet(s[f].status, e) THEN FreeOf(t) = FreeOf(s) \cup {slot}
         ELSE slot \in FreeOf(s) /\ FreeOf(t) = FreeOf(s) \ {slot}
<1> DEFINE slot == [class |-> s[f].class, addr |-> EntryAddr(s, f, e)]
           Slot(n, i) == [class |-> s[n].class, addr |-> EntryAddr(s, n, i)]
<1>0. DOMAIN t = DOMAIN s /\ \A n \in DOMAIN s : t[n].class = s[n].class
  BY DEF SameShape
<1>1. \A n \in DOMAIN s : \A i : EntryAddr(t, n, i) = EntryAddr(s, n, i)
  BY <1>0 DEF EntryAddr
<1>2. \A n \in DOMAIN s : \A i \in Entries(s[n].class) : i \in Bits /\ i \in Nat
  BY SlabFields, EntryFacts
<1>3. ASSUME NEW n \in DOMAIN s, NEW i \in Entries(s[n].class)
      PROVE  BitSet(t[n].status, i) <=>
               IF n = f /\ i = e THEN ~BitSet(s[n].status, i) ELSE BitSet(s[n].status, i)
  <2>1. s[n].status \in Status /\ i \in Bits /\ e \in Bits
    BY <1>2, SlabFields
  <2>2. CASE n = f
    <3>1. t[n].status = toggle_bit(s[n].status, e)
      BY <2>2
    <3> QED
      BY <2>1, <2>2, <3>1, ToggleFlips
  <2>3. CASE n # f
    BY <2>3
  <2> QED
    BY <2>2, <2>3
<1>4. ASSUME NEW n \in DOMAIN s, NEW i \in Entries(s[n].class), Slot(n, i) = slot
      PROVE  n = f /\ i = e
  <2>1. EntryAddr(s, n, i) = EntryAddr(s, f, e)
    BY <1>4
  <2> QED
    BY <1>2, <2>1, EntryAddrInjective
<1>5. \A x : x \in FreeOf(s) <=> \E n \in DOMAIN s : \E i \in Entries(s[n].class) :
                                   ~BitSet(s[n].status, i) /\ x = Slot(n, i)
  BY FreeSlot
<1>6. \A x : x \in FreeOf(t) <=> \E n \in DOMAIN s : \E i \in Entries(s[n].class) :
                                   ~BitSet(t[n].status, i) /\ x = Slot(n, i)
  <2> TAKE x
  <2>1. x \in FreeOf(t) <=>
          \E n \in DOMAIN t : \E i \in Entries(t[n].class) :
            /\ ~BitSet(t[n].status, i)
            /\ x = [class |-> t[n].class, addr |-> EntryAddr(t, n, i)]
    BY FreeSlot
  <2> QED
    BY <1>0, <1>1, <2>1
<1>7. slot = Slot(f, e)
  OBVIOUS
<1> HIDE DEF Slot, slot
<1>8. CASE BitSet(s[f].status, e)
  <2>1. \A x : x \in FreeOf(t) <=> x \in FreeOf(s) \/ x = slot
    <3> TAKE x
    <3>1. slot \in FreeOf(t)
      BY <1>3, <1>6, <1>7, <1>8
    <3>2. ASSUME x \in FreeOf(t) PROVE x \in FreeOf(s) \/ x = slot
      BY <1>3, <1>5, <1>6, <1>7, <3>2
    <3>3. ASSUME x \in FreeOf(s) PROVE x \in FreeOf(t)
      BY <1>3, <1>5, <1>6, <1>8, <3>3
    <3> QED
      BY <3>1, <3>2, <3>3
  <2>2. FreeOf(t) = FreeOf(s) \cup {slot}
    BY <2>1
  <2> QED
    BY <1>8, <2>2 DEF slot
<1>9. CASE ~BitSet(s[f].status, e)
  <2>1. slot \in FreeOf(s)
    BY <1>5, <1>7, <1>9
  <2>2. \A x : x \in FreeOf(t) <=> x \in FreeOf(s) /\ x # slot
    BY <1>3, <1>4, <1>5, <1>6, <1>7, <1>9
  <2>3. FreeOf(t) = FreeOf(s) \ {slot}
    BY <2>2
  <2> QED
    BY <1>9, <2>1, <2>3 DEF slot
<1> QED
  BY <1>8, <1>9

\* A request takes a free slot of its class out of the pool, or finds none.
LEMMA RequestIsTakeOrRefuse ==
  ASSUME Inv, NEW size \in Sizes, GetAddress(size)
  PROVE  Pool!Take(get_slab_class(size)) \/ Pool!Refuse(get_slab_class(size))
<1> DEFINE r == get_address(slabs, size)
           class == get_slab_class(size)
<1>0. Sound(slabs, held) /\ size \in Nat /\ slabs \in Seq(Slab)
  BY SlabsAssumption DEF Inv, Sound
<1>1. slabs' = r.slabs /\ ret' = r.addr
      /\ held' = IF r.addr = NULL THEN held ELSE held \cup {r.addr}
  BY DEF GetAddress
<1>2. SameShape(slabs, r.slabs)
  BY <1>0, SoundTake
<1>3. \/ NoneLeft(slabs, class, r)
      \/ r.addr # NULL /\ \E f \in DOMAIN slabs : \E e \in Entries(class) : Took(slabs, class, r, f, e)
  BY <1>0, SoundTake
<1> HIDE DEF r, class
<1>4. UsedOf(r.slabs, held) = UsedOf(slabs, held)
  BY <1>0, <1>2, SameSlots
<1>5. CASE NoneLeft(slabs, class, r)
  <2>1. FreeOf(r.slabs) = FreeOf(slabs)
    BY <1>0, <1>2, <1>5, SameSlots DEF NoneLeft
  <2>2. ASSUME NEW slot \in FreeOf(slabs) PROVE slot.class # class
    <3>1. PICK n \in DOMAIN slabs : \E i \in Entries(slabs[n].class) :
             /\ ~BitSet(slabs[n].status, i)
             /\ slot = [class |-> slabs[n].class, addr |-> EntryAddr(slabs, n, i)]
      BY FreeSlot
    <3>2. PICK i \in Entries(slabs[n].class) :
             /\ ~BitSet(slabs[n].status, i)
             /\ slot = [class |-> slabs[n].class, addr |-> EntryAddr(slabs, n, i)]
      BY <3>1
    <3>3. slabs[n].status \in Status /\ i \in Bits
      BY <1>0, SlabFields, EntryFacts
    <3>4. get_free_index(slabs[n].status) # 0
      BY <3>2, <3>3, FreeIndex
    <3> QED
      BY <1>5, <3>2, <3>4 DEF NoneLeft
  <2>3. Pool!Refuse(class)
    BY <1>1, <1>4, <1>5, <2>1, <2>2 DEF Pool!Refuse, FreeSlots, UsedSlots, NoneLeft
  <2> QED
    BY <2>3 DEF class
<1>6. ASSUME NEW f \in DOMAIN slabs, NEW e \in Entries(class),
             Took(slabs, class, r, f, e), r.addr # NULL
      PROVE  Pool!Take(class)
  <2> DEFINE slot == [class |-> class, addr |-> r.addr]
  <2>1. slot \in FreeOf(slabs) /\ FreeOf(r.slabs) = FreeOf(slabs) \ {slot}
    BY <1>0, <1>2, <1>6, FlipSlot DEF Took
  <2>2. r.slabs[r.addr.slab].class = class
    BY <1>2, <1>6 DEF SameShape, EntryAddr, Took
  <2>3. UsedOf(r.slabs, held \cup {r.addr}) = UsedOf(r.slabs, held) \cup {slot}
    BY <2>2 DEF UsedOf
  <2>4. slot.class = class /\ slot.addr = r.addr
    OBVIOUS
  <2> HIDE DEF slot
  <2> QED
    BY <1>1, <1>4, <1>6, <2>1, <2>3, <2>4 DEF Pool!Take, FreeSlots, UsedSlots
<1> QED
  BY <1>3, <1>5, <1>6 DEF class

\* Deleting a held address gives its slot back.
LEMMA DeleteIsGiveBack ==
  ASSUME Inv, NEW addr \in held, ManDelete(addr)
  PROVE  Pool!GiveBack
<1>0. Sound(slabs, held) /\ slabs \in Seq(Slab)
  BY DEF Inv, Sound
<1>1. PICK f \in DOMAIN slabs :
        \E i \in Entries(slabs[f].class) : addr = EntryAddr(slabs, f, i)
  BY <1>0 DEF Sound, HeldAreEntries
<1>2. PICK e \in Entries(slabs[f].class) : addr = EntryAddr(slabs, f, e)
  BY <1>1
<1>3. slabs' = man_delete(slabs, addr) /\ held' = held \ {addr} /\ ret' = ret
  BY DEF ManDelete
<1>4. SameShape(slabs, slabs')
      /\ \A n \in DOMAIN slabs : slabs'[n].status = IF n = f THEN toggle_bit(slabs[n].status, e)
                                                    ELSE slabs[n].status
  BY <1>0, <1>2, <1>3, ManDeleteEffect
<1>5. BitSet(slabs[f].status, e)
  <2>1. slabs[f].class \in Classes
    BY <1>0, SlabFields
  <2>2. e \in Bits
    BY <2>1, EntryFacts
  <2> QED
    BY <1>0, <1>2, <2>2 DEF Sound, BitsMatch, Bits
<1> DEFINE slot == [class |-> slabs[f].class, addr |-> addr]
<1>6. FreeOf(slabs') = FreeOf(slabs) \cup {slot}
  BY <1>0, <1>2, <1>4, <1>5, FlipSlot
<1>7. addr.slab = f
  BY <1>2 DEF EntryAddr
<1>8. slot \in UsedOf(slabs, held) /\ UsedOf(slabs, held \ {addr}) = UsedOf(slabs, held) \ {slot}
  BY <1>7 DEF UsedOf
<1>9. UsedOf(slabs', held) = UsedOf(slabs, held)
  BY <1>0, <1>4, SameSlots
<1>10. UsedOf(slabs', held \ {addr}) = UsedOf(slabs, held \ {addr})
  <2>1. \A a \in held : a.slab \in DOMAIN slabs
    BY <1>0 DEF Sound, HeldAreEntries, EntryAddr
  <2> QED
    BY <1>4, <2>1 DEF UsedOf, SameShape
<1> HIDE DEF slot
<1> QED
  BY <1>3, <1>6, <1>8, <1>10 DEF Pool!GiveBack, FreeSlots, UsedSlots

\* A new slab adds only free slots of its class, none of them in use.
LEMMA AddIsGrow ==
  ASSUME Inv, NEW class \in Classes, NEW dirt \in SUBSET AllOnes, SlabAdd(class, dirt)
  PROVE  Pool!Grow(class)
<1> DEFINE s == allocate_slab(class, dirt)
           k == Len(slabs) + 1
<1>0. Sound(slabs, held) /\ slabs \in Seq(Slab)
  BY DEF Inv, Sound
<1>1. s \in Slab /\ s.class = class
  BY NewSlab
<1>2. slabs' = Append(slabs, s) /\ held' = held /\ ret' = ret
  BY DEF SlabAdd, slab_add, LL_append
<1> HIDE DEF s
<1>3. /\ DOMAIN slabs' = (DOMAIN slabs) \cup {k} /\ k \notin DOMAIN slabs
      /\ slabs'[k] = s
      /\ \A n \in DOMAIN slabs : slabs'[n] = slabs[n]
  BY <1>0, <1>1, <1>2, LenProperties
<1> HIDE DEF k
<1>4. \A n \in DOMAIN slabs : \A i : EntryAddr(slabs', n, i) = EntryAddr(slabs, n, i)
  BY <1>3 DEF EntryAddr
<1>5. \A a \in held : a.slab \in DOMAIN slabs
  BY <1>0 DEF Sound, HeldAreEntries, EntryAddr
<1>6. UsedOf(slabs', held) = UsedOf(slabs, held)
  BY <1>3, <1>5 DEF UsedOf
<1>7. ASSUME NEW x \in FreeOf(slabs) PROVE x \in FreeOf(slabs')
  <2>1. \E n \in DOMAIN slabs : \E i \in Entries(slabs[n].class) :
          /\ ~BitSet(slabs[n].status, i)
          /\ x = [class |-> slabs[n].class, addr |-> EntryAddr(slabs, n, i)]
    BY FreeSlot
  <2>2. \E n \in DOMAIN slabs' : \E i \in Entries(slabs'[n].class) :
          /\ ~BitSet(slabs'[n].status, i)
          /\ x = [class |-> slabs'[n].class, addr |-> EntryAddr(slabs', n, i)]
    BY <1>3, <1>4, <2>1
  <2> QED
    BY <2>2, FreeSlot
<1>8. ASSUME NEW x \in FreeOf(slabs') \ FreeOf(slabs)
      PROVE  x.class = class /\ x \notin UsedOf(slabs, held)
  <2>1. PICK n \in DOMAIN slabs' : \E i \in Entries(slabs'[n].class) :
          /\ ~BitSet(slabs'[n].status, i)
          /\ x = [class |-> slabs'[n].class, addr |-> EntryAddr(slabs', n, i)]
    BY FreeSlot
  <2>2. n \notin DOMAIN slabs
    <3> SUFFICES ASSUME n \in DOMAIN slabs PROVE FALSE
      OBVIOUS
    <3>1. \E i \in Entries(slabs[n].class) :
            /\ ~BitSet(slabs[n].status, i)
            /\ x = [class |-> slabs[n].class, addr |-> EntryAddr(slabs, n, i)]
      BY <1>3, <1>4, <2>1
    <3> QED
      BY <3>1, FreeSlot
  <2>3. n = k
    BY <1>3, <2>2
  <2>4. x.class = class /\ x.addr.slab = k
    BY <1>1, <1>3, <2>1, <2>3 DEF EntryAddr
  <2>5. x.addr \notin held
    BY <1>3, <1>5, <2>4
  <2>6. x \notin UsedOf(slabs, held)
    BY <2>5 DEF UsedOf
  <2> QED
    BY <2>4, <2>6
<1> QED
  BY <1>2, <1>6, <1>7, <1>8 DEF Pool!Grow, FreeSlots, UsedSlots

\* The manager implements the pool: no slot is handed out while it is in use,
\* and NULL is returned only when the class has no free entry, so that
\* get_address, late full marks and all, never fails with room to spare.
THEOREM ManagerIsPool == Spec => ImplementsPool
<1>1. Init => Pool!PoolInit
  <2>1. DOMAIN << >> = {}
    BY EmptySeq
  <2>2. ASSUME NEW x PROVE x \notin FreeOf(<< >>)
    BY <2>1, FreeSlot
  <2>3. FreeOf(<< >>) = {} /\ UsedOf(<< >>, {}) = {}
    BY <2>2 DEF UsedOf
  <2> QED
    BY <2>3 DEF Init, LL_create, Pool!PoolInit, FreeSlots, UsedSlots
<1>2. Inv /\ [Next]_vars => [Pool!PoolNext]_(Pool!poolVars)
  <2> SUFFICES ASSUME Inv, [Next]_vars
               PROVE  Pool!PoolNext \/ UNCHANGED Pool!poolVars
    OBVIOUS
  <2>1. ASSUME NEW size \in Sizes, GetAddress(size) PROVE Pool!PoolNext
    <3>1. get_slab_class(size) \in Classes
      BY SlabClass, SlabsAssumption
    <3> QED
      BY <2>1, <3>1, RequestIsTakeOrRefuse DEF Pool!PoolNext
  <2>2. ASSUME NEW addr \in held, ManDelete(addr) PROVE Pool!PoolNext
    <3>1. Classes # {}
      BY SlabAssumption
    <3> QED
      BY <2>2, <3>1, DeleteIsGiveBack DEF Pool!PoolNext
  <2>3. ASSUME NEW class \in Classes, NEW dirt \in SUBSET AllOnes, SlabAdd(class, dirt)
        PROVE  Pool!PoolNext
    BY <2>3, AddIsGrow DEF Pool!PoolNext
  <2>4. CASE UNCHANGED vars
    BY <2>4 DEF vars, Pool!poolVars, FreeSlots, UsedSlots
  <2> QED
    BY <2>1, <2>2, <2>3, <2>4 DEF Next
<1> QED
  BY <1>1, <1>2, Invariance, PTL DEF Spec, ImplementsPool, Pool!PoolSpec

=============================================================================
