---------------------------- MODULE CacheLemmas -----------------------------
(***************************************************************************)
(* Lemmas about the operators of CacheOps, for every set of keys, values   *)
(* and classes and every limit: what each operation does to the key table  *)
(* and the slabs, and that it keeps the two in step.                       *)
(***************************************************************************)
EXTENDS CacheOps, SlabLemmas, FiniteSetTheorems

-----------------------------------------------------------------------------
\* Places and metas.

\* The fields of a cache object.
LEMMA Fields ==
  ASSUME NEW c \in CacheObj
  PROVE  /\ c.maxmem \in Nat /\ c.size \in Nat /\ c.num_values \in Int
         /\ c.buckets \in [Buckets -> Seq(Meta)] /\ c.slabs \in Seq(Slab)
  BY DEF CacheObj

\* Lists of slabs of the same shape have the same length.
LEMMA SameLength ==
  ASSUME NEW slabs \in Seq(Slab), NEW new, SameShape(slabs, new)
  PROVE  new \in Seq(Slab) /\ Len(new) = Len(slabs) /\ DOMAIN new = DOMAIN slabs
  BY DEF SameShape

\* A place is a bucket and a position in its list.
LEMMA PlaceIs ==
  ASSUME NEW c, NEW x
  PROVE  x \in Places(c) <=> \E b \in Buckets : \E p \in DOMAIN c.buckets[b] : x = <<b, p>>
  BY DEF Places

\* What is at a place is a meta.
LEMMA MetaIs ==
  ASSUME NEW c \in CacheObj, NEW x \in Places(c)
  PROVE  /\ x[1] \in Buckets /\ x[2] \in 1 .. Len(c.buckets[x[1]]) /\ x = <<x[1], x[2]>>
         /\ c.buckets[x[1]] \in Seq(Meta)
         /\ MetaAt(c, x) = c.buckets[x[1]][x[2]] /\ MetaAt(c, x) \in Meta
<1>1. PICK b \in Buckets : \E p \in DOMAIN c.buckets[b] : x = <<b, p>>
  BY PlaceIs
<1>2. PICK p \in DOMAIN c.buckets[b] : x = <<b, p>>
  BY <1>1
<1>3. c.buckets[b] \in Seq(Meta)
  BY Fields
<1>4. DOMAIN c.buckets[b] = 1 .. Len(c.buckets[b]) /\ c.buckets[b][p] \in Meta
  BY <1>3
<1> QED
  BY <1>2, <1>3, <1>4 DEF MetaAt

\* The positions of a bucket are places.
LEMMA PositionIs ==
  ASSUME NEW c \in CacheObj, NEW b \in Buckets, NEW p \in 1 .. Len(c.buckets[b])
  PROVE  <<b, p>> \in Places(c) /\ MetaAt(c, <<b, p>>) = c.buckets[b][p] /\ c.buckets[b][p] \in Meta
<1>1. c.buckets[b] \in Seq(Meta)
  BY Fields
<1>2. p \in DOMAIN c.buckets[b] /\ c.buckets[b][p] \in Meta
  BY <1>1
<1> QED
  BY <1>2, PlaceIs DEF MetaAt

\* The fields of a meta.
LEMMA MetaFields ==
  ASSUME NEW m \in Meta
  PROVE  /\ m.name \in Name /\ m.name.key \in Keys /\ m.name.tail \in -1 .. (NB - 1)
         /\ m.address \in Address /\ m.size \in Nat /\ m.timer \in 0 .. (TimerMod - 1)
         /\ m.slab_class \in Classes /\ m.val \in Values
  BY DEF Meta, Name

\* A meta with another timer.
LEMMA MetaTimer ==
  ASSUME NEW m \in Meta, NEW t \in 0 .. (TimerMod - 1)
  PROVE  LET n == [m EXCEPT !.timer = t] IN
         /\ n \in Meta /\ n.name = m.name /\ n.address = m.address /\ n.size = m.size
         /\ n.slab_class = m.slab_class /\ n.val = m.val /\ n.timer = t
  BY DEF Meta

\* m and n differ at most in their timers.
Same(m, n) ==
  /\ m.name = n.name /\ m.address = n.address /\ m.size = n.size
  /\ m.slab_class = n.slab_class /\ m.val = n.val

-----------------------------------------------------------------------------
\* The key of a bucket is one of the buckets.
LEMMA BucketIs == \A name \in Name : Bucket(name) \in Buckets
<1>1. NB \in Nat \ {0} /\ hasher \in [Keys -> Nat]
  BY CacheAssumption
<1> TAKE name \in Name
<1>2. name.key \in Keys /\ name.tail \in -1 .. (NB - 1)
  BY DEF Name
<1>3. hasher[name.key] % NB \in 0 .. (NB - 1)
  <2>1. hasher[name.key] \in Nat
    BY <1>1, <1>2
  <2> QED
    BY <1>1, <2>1, DivMod
<1> QED
  BY <1>1, <1>2, <1>3 DEF Bucket, Buckets

\* The name a caller looks for.
LEMMA LookupIs ==
  ASSUME NEW k \in Keys
  PROVE  Lookup(k) \in Name /\ Lookup(k).key = k /\ Lookup(k).tail = -1 /\ Lookup(k).at = NULL
<1>1. NB \in Nat \ {0}
  BY CacheAssumption
<1>2. NULL \in Address
  BY DEF NULL, Address
<1> QED
  BY <1>1, <1>2 DEF Lookup, Name

-----------------------------------------------------------------------------
(***************************************************************************)
(* The invariant of a cache object.  A meta is in the bucket of its key,   *)
(* in the class of its size, and points to a slab of that class; no two    *)
(* share an address or a name; the slabs are sound for the addresses of    *)
(* the metas; the counters say how many metas and how many bytes there     *)
(* are; no cache, no metas.                                                *)
(***************************************************************************)
Rightful(b, m) ==
  /\ b = Bucket(Lookup(m.name.key))
  /\ m.size = m.val.size /\ m.val.nul
  /\ m.slab_class = get_slab_class(m.size)
  /\ m.name.at = IF m.name.tail = -1 THEN NULL ELSE m.address

Tidy(c) ==
  /\ \A x, y \in Places(c) : x # y =>
       /\ MetaAt(c, x).address # MetaAt(c, y).address
       /\ MetaAt(c, x).name # MetaAt(c, y).name
  /\ \A x \in Places(c) : Rightful(x[1], MetaAt(c, x))

Classed(c) == \A x \in Places(c) : MetaAt(c, x).slab_class = c.slabs[MetaAt(c, x).address.slab].class

Counted(c) == IsFiniteSet(Places(c)) /\ c.num_values = Cardinality(Places(c))

Sized(c) ==
  /\ c.size = SLABSIZE * Len(c.slabs)
  /\ ~IsNull(c) => c.size < c.maxmem /\ c.maxmem <= CAP

Void(c) == IsNull(c) => Places(c) = {}

Orderly(c) == c \in CacheObj /\ Tidy(c) /\ Classed(c) /\ Counted(c) /\ Sized(c) /\ Void(c)

Good(c) == Orderly(c) /\ Sound(c.slabs, AddressesOf(c))

\* The metas of d are those of c, in their buckets, without the ones at the
\* places `gone`; timers may differ.
Carried(c, d, gone) ==
  \E f \in [Places(d) -> Places(c)] :
    /\ \A x, y \in Places(d) : f[x] = f[y] => x = y
    /\ \A x \in Places(d) : f[x][1] = x[1] /\ Same(MetaAt(d, x), MetaAt(c, f[x]))
    /\ \A z \in Places(c) : z \notin gone <=> \E x \in Places(d) : f[x] = z

\* d has the metas of c where c has them, up to their timers.
Still(c, d) ==
  /\ Places(d) = Places(c)
  /\ \A x \in Places(c) : Same(MetaAt(d, x), MetaAt(c, x))

\* What is carried over stays tidy.
LEMMA CarriedTidy ==
  ASSUME NEW c, NEW d, NEW gone, Tidy(c), Carried(c, d, gone)
  PROVE  Tidy(d)
<1>1. PICK f \in [Places(d) -> Places(c)] :
        /\ \A x, y \in Places(d) : f[x] = f[y] => x = y
        /\ \A x \in Places(d) : f[x][1] = x[1] /\ Same(MetaAt(d, x), MetaAt(c, f[x]))
  BY DEF Carried
<1>2. ASSUME NEW x \in Places(d), NEW y \in Places(d), x # y
      PROVE  MetaAt(d, x).address # MetaAt(d, y).address /\ MetaAt(d, x).name # MetaAt(d, y).name
  BY <1>1, <1>2 DEF Tidy, Same
<1>3. ASSUME NEW x \in Places(d)
      PROVE  Rightful(x[1], MetaAt(d, x))
  <2>1. Rightful(f[x][1], MetaAt(c, f[x])) /\ f[x][1] = x[1] /\ Same(MetaAt(d, x), MetaAt(c, f[x]))
    BY <1>1 DEF Tidy
  <2> QED
    BY <2>1 DEF Rightful, Same
<1> QED
  BY <1>2, <1>3 DEF Tidy

\* And keeps its addresses, but those that are gone.
LEMMA CarriedAddresses ==
  ASSUME NEW c, NEW d, NEW gone \in SUBSET Places(c), Tidy(c), Carried(c, d, gone)
  PROVE  AddressesOf(d) = AddressesOf(c) \ {MetaAt(c, x).address : x \in gone}
<1>1. PICK f \in [Places(d) -> Places(c)] :
        /\ \A x, y \in Places(d) : f[x] = f[y] => x = y
        /\ \A x \in Places(d) : f[x][1] = x[1] /\ Same(MetaAt(d, x), MetaAt(c, f[x]))
        /\ \A z \in Places(c) : z \notin gone <=> \E x \in Places(d) : f[x] = z
  BY DEF Carried
<1>2. ASSUME NEW x \in Places(d)
      PROVE  MetaAt(d, x).address \in AddressesOf(c) \ {MetaAt(c, z).address : z \in gone}
  <2>1. f[x] \in Places(c) /\ f[x] \notin gone /\ MetaAt(d, x).address = MetaAt(c, f[x]).address
    BY <1>1 DEF Same
  <2>2. \A z \in gone : MetaAt(c, z).address # MetaAt(c, f[x]).address
    BY <2>1 DEF Tidy
  <2> QED
    BY <2>1, <2>2 DEF AddressesOf
<1>3. ASSUME NEW z \in Places(c), z \notin gone
      PROVE  MetaAt(c, z).address \in AddressesOf(d)
  BY <1>1, <1>3 DEF Same, AddressesOf
<1>4. AddressesOf(d) \subseteq AddressesOf(c) \ {MetaAt(c, z).address : z \in gone}
  BY <1>2 DEF AddressesOf
<1>5. AddressesOf(c) \ {MetaAt(c, z).address : z \in gone} \subseteq AddressesOf(d)
  BY <1>3 DEF AddressesOf
<1> QED
  BY <1>4, <1>5

\* And its classes, if the slabs keep theirs.
LEMMA CarriedClassed ==
  ASSUME NEW c, NEW d, NEW gone, Classed(c), Carried(c, d, gone),
         \A x \in Places(c) : d.slabs[MetaAt(c, x).address.slab].class = c.slabs[MetaAt(c, x).address.slab].class
  PROVE  Classed(d)
  BY DEF Carried, Classed, Same

-----------------------------------------------------------------------------
\* Looking for names.

\* get_meta answers with the first hit in the bucket of the name, 0 if there is none.
LEMMA GetMeta ==
  ASSUME NEW c \in CacheObj, NEW name \in Name
  PROVE  /\ Hits(c, name) = {} => get_meta(c, name) = 0
         /\ Hits(c, name) # {} =>
              LET p == get_meta(c, name) IN
              /\ p \in Hits(c, name) /\ p = Min(Hits(c, name))
              /\ p \in 1 .. Len(c.buckets[Bucket(name)]) /\ p # 0
              /\ <<Bucket(name), p>> \in Places(c)
              /\ MetaAt(c, <<Bucket(name), p>>) = c.buckets[Bucket(name)][p]
              /\ MetaAt(c, <<Bucket(name), p>>).name = name
<1> DEFINE b == Bucket(name)
           h == Hits(c, name)
<1>1. b \in Buckets
  BY BucketIs
<1>2. c.buckets[b] \in Seq(Meta)
  BY <1>1, Fields
<1>3. h \subseteq 1 .. Len(c.buckets[b]) /\ \A p \in h : c.buckets[b][p].name = name
  BY <1>2 DEF Hits
<1>4. h \in SUBSET Nat
  BY <1>2, <1>3
<1>5. CASE h = {}
  BY <1>5 DEF get_meta, LL_find
<1>6. CASE h # {}
  <2> DEFINE p == get_meta(c, name)
  <2>1. p = Min(h) /\ Min(h) \in h
    BY <1>4, <1>6, MinIsLeast DEF get_meta, LL_find
  <2>2. p \in 1 .. Len(c.buckets[b]) /\ c.buckets[b][p].name = name
    BY <1>3, <2>1
  <2> HIDE DEF p, h, b
  <2>3. p # 0
    BY <1>2, <2>2
  <2>4. <<b, p>> \in Places(c) /\ MetaAt(c, <<b, p>>) = c.buckets[b][p]
    BY <1>1, <2>2, PositionIs
  <2> QED
    BY <1>6, <2>1, <2>2, <2>3, <2>4 DEF p, h, b
<1> QED
  BY <1>5, <1>6

\* A hit is a place of that name, in the name's bucket.
LEMMA HitIs ==
  ASSUME NEW c \in CacheObj, NEW name \in Name, NEW p \in Hits(c, name)
  PROVE  <<Bucket(name), p>> \in Places(c) /\ MetaAt(c, <<Bucket(name), p>>).name = name
<1>1. c.buckets[Bucket(name)] \in Seq(Meta)
  BY BucketIs, Fields
<1> QED
  BY <1>1, BucketIs, PositionIs DEF Hits

\* The place of a key a caller looks for is the one get_meta finds.
LEMMA PlaceOfKey ==
  ASSUME NEW c \in CacheObj, Tidy(c), NEW k \in Keys,
         NEW x \in Places(c), MetaAt(c, x).name = Lookup(k)
  PROVE  /\ Hits(c, Lookup(k)) # {} /\ get_meta(c, Lookup(k)) # 0
         /\ x = <<Bucket(Lookup(k)), get_meta(c, Lookup(k))>>
<1>1. Lookup(k) \in Name /\ Lookup(k).key = k
  BY LookupIs
<1>2. x[1] = Bucket(Lookup(k))
  BY <1>1 DEF Tidy, Rightful
<1>3. x[2] \in Hits(c, Lookup(k))
  BY <1>2, MetaIs DEF Hits
<1>4. /\ <<Bucket(Lookup(k)), get_meta(c, Lookup(k))>> \in Places(c) /\ get_meta(c, Lookup(k)) # 0
      /\ MetaAt(c, <<Bucket(Lookup(k)), get_meta(c, Lookup(k))>>).name = Lookup(k)
  BY <1>1, <1>3, GetMeta
<1> QED
  BY <1>3, <1>4 DEF Tidy

\* What a get of the key would return.
LEMMA ValueHere ==
  ASSUME NEW c \in CacheObj, Tidy(c), NEW k \in Keys,
         NEW x \in Places(c), MetaAt(c, x).name = Lookup(k)
  PROVE  ValueOf(c, k) = MetaAt(c, x).val /\ ValueOf(c, k) \in Values /\ ValueOf(c, k) # Nil
<1>1. x = <<Bucket(Lookup(k)), get_meta(c, Lookup(k))>> /\ get_meta(c, Lookup(k)) # 0
  BY PlaceOfKey
<1>2. MetaAt(c, x).val \in Values
  BY MetaIs, MetaFields
<1>3. MetaAt(c, x) = c.buckets[Bucket(Lookup(k))][get_meta(c, Lookup(k))]
  BY <1>1 DEF MetaAt
<1> QED
  BY <1>1, <1>2, <1>3, CacheAssumption DEF ValueOf

\* The timer of the key is that of its meta.
LEMMA TimerHere ==
  ASSUME NEW c \in CacheObj, Tidy(c), NEW k \in Keys,
         NEW x \in Places(c), MetaAt(c, x).name = Lookup(k)
  PROVE  TimerOf(c, k) = MetaAt(c, x).timer
<1>1. x = <<Bucket(Lookup(k)), get_meta(c, Lookup(k))>>
  BY PlaceOfKey
<1> QED
  BY <1>1 DEF MetaAt, TimerOf

\* Without a meta of the key it would return NULL.
LEMMA ValueNone ==
  ASSUME NEW c \in CacheObj, NEW k \in Keys, \A x \in Places(c) : MetaAt(c, x).name # Lookup(k)
  PROVE  ValueOf(c, k) = Nil /\ Hits(c, Lookup(k)) = {} /\ get_meta(c, Lookup(k)) = 0
<1>1. Lookup(k) \in Name
  BY LookupIs
<1>2. Hits(c, Lookup(k)) = {}
  BY <1>1, HitIs
<1> QED
  BY <1>1, <1>2, GetMeta DEF ValueOf

\* Values that are carried over can still be got, the others cannot.
LEMMA CarriedValues ==
  ASSUME NEW c \in CacheObj, NEW d \in CacheObj, NEW gone \in SUBSET Places(c),
         Tidy(c), Carried(c, d, gone), NEW k \in Keys
  PROVE  ValueOf(d, k) = IF \E z \in gone : MetaAt(c, z).name = Lookup(k) THEN Nil ELSE ValueOf(c, k)
<1>1. PICK f \in [Places(d) -> Places(c)] :
        /\ \A x \in Places(d) : Same(MetaAt(d, x), MetaAt(c, f[x]))
        /\ \A z \in Places(c) : z \notin gone <=> \E x \in Places(d) : f[x] = z
  BY DEF Carried
<1>2. Tidy(d)
  BY CarriedTidy
<1>3. CASE \E x \in Places(d) : MetaAt(d, x).name = Lookup(k)
  <2>1. PICK x \in Places(d) : MetaAt(d, x).name = Lookup(k)
    BY <1>3
  <2>2. f[x] \in Places(c) /\ f[x] \notin gone /\ MetaAt(c, f[x]).name = Lookup(k)
        /\ MetaAt(d, x).val = MetaAt(c, f[x]).val
    BY <1>1, <2>1 DEF Same
  <2>3. \A z \in gone : MetaAt(c, z).name # Lookup(k)
    BY <2>2 DEF Tidy
  <2>4. ValueOf(d, k) = MetaAt(d, x).val
    BY <1>2, <2>1, ValueHere
  <2>5. ValueOf(c, k) = MetaAt(c, f[x]).val
    BY <2>2, ValueHere
  <2> QED
    BY <2>2, <2>3, <2>4, <2>5
<1>4. CASE \A x \in Places(d) : MetaAt(d, x).name # Lookup(k)
  <2>1. ValueOf(d, k) = Nil
    BY <1>4, ValueNone
  <2>2. ASSUME \A z \in gone : MetaAt(c, z).name # Lookup(k)
        PROVE  ValueOf(c, k) = Nil
    <3>1. \A z \in Places(c) : MetaAt(c, z).name # Lookup(k)
      BY <1>1, <1>4, <2>2 DEF Same
    <3> QED
      BY <3>1, ValueNone
  <2> QED
    BY <2>1, <2>2
<1> QED
  BY <1>3, <1>4

-----------------------------------------------------------------------------
\* Operations on the key table.

\* Nothing moves if every position keeps its meta up to the timer.
LEMMA Unmoved ==
  ASSUME NEW c \in CacheObj, NEW d \in CacheObj,
         \A b \in Buckets : /\ Len(d.buckets[b]) = Len(c.buckets[b])
                            /\ \A p \in 1 .. Len(c.buckets[b]) : Same(d.buckets[b][p], c.buckets[b][p])
  PROVE  Still(c, d)
<1>1. ASSUME NEW x \in Places(c)
      PROVE  x \in Places(d) /\ Same(MetaAt(d, x), MetaAt(c, x))
  <2>1. x[1] \in Buckets /\ x[2] \in 1 .. Len(d.buckets[x[1]]) /\ x = <<x[1], x[2]>>
        /\ MetaAt(c, x) = c.buckets[x[1]][x[2]]
    BY MetaIs
  <2>2. x \in Places(d) /\ MetaAt(d, x) = d.buckets[x[1]][x[2]]
    BY <2>1, PositionIs
  <2> QED
    BY <2>1, <2>2
<1>2. ASSUME NEW x \in Places(d)
      PROVE  x \in Places(c)
  <2>1. x[1] \in Buckets /\ x[2] \in 1 .. Len(c.buckets[x[1]]) /\ x = <<x[1], x[2]>>
    BY MetaIs
  <2> QED
    BY <2>1, PositionIs
<1>3. Places(d) = Places(c)
  BY <1>1, <1>2
<1> QED
  BY <1>1, <1>3 DEF Still

\* Standing still is carrying everything.
LEMMA StillCarried ==
  ASSUME NEW c, NEW d, Still(c, d)
  PROVE  Carried(c, d, {})
<1> DEFINE f == [x \in Places(d) |-> x]
<1>1. f \in [Places(d) -> Places(c)] /\ \A x \in Places(d) : f[x] = x
  BY DEF Still
<1> HIDE DEF f
<1> QED
  BY <1>1 DEF Carried, Still

\* What stands still after a carry is carried just as far.
LEMMA CarriedStill ==
  ASSUME NEW c, NEW d, NEW e, NEW gone, Carried(c, d, gone), Still(d, e)
  PROVE  Carried(c, e, gone)
<1>1. PICK f \in [Places(d) -> Places(c)] :
        /\ \A x, y \in Places(d) : f[x] = f[y] => x = y
        /\ \A x \in Places(d) : f[x][1] = x[1] /\ Same(MetaAt(d, x), MetaAt(c, f[x]))
        /\ \A z \in Places(c) : z \notin gone <=> \E x \in Places(d) : f[x] = z
  BY DEF Carried
<1>2. Places(e) = Places(d) /\ \A x \in Places(d) : Same(MetaAt(e, x), MetaAt(d, x))
  BY DEF Still
<1>3. \A x \in Places(d) : Same(MetaAt(e, x), MetaAt(c, f[x]))
  BY <1>1, <1>2 DEF Same
<1> QED
  BY <1>1, <1>2, <1>3 DEF Carried

\* update_timers changes timers only.
LEMMA UpdateTimers ==
  ASSUME NEW c \in CacheObj
  PROVE  LET d == update_timers(c) IN
         /\ d \in CacheObj
         /\ d.maxmem = c.maxmem /\ d.size = c.size /\ d.num_values = c.num_values /\ d.slabs = c.slabs
         /\ \A b \in Buckets : /\ Len(d.buckets[b]) = Len(c.buckets[b])
                               /\ \A p \in 1 .. Len(c.buckets[b]) : Same(d.buckets[b][p], c.buckets[b][p])
<1> DEFINE Up(m) == [m EXCEPT !.timer = (@ + 1) % TimerMod]
           bk == [b \in Buckets |-> [p \in DOMAIN c.buckets[b] |-> Up(c.buckets[b][p])]]
           d == update_timers(c)
<1>1. ASSUME NEW m \in Meta
      PROVE  Up(m) \in Meta /\ Same(Up(m), m)
  <2>1. m.timer \in Nat /\ TimerMod \in Nat \ {0}
    BY CacheAssumption, MetaFields
  <2>2. (m.timer + 1) % TimerMod \in 0 .. (TimerMod - 1)
    BY <2>1, DivMod
  <2> QED
    BY <2>2, MetaTimer DEF Same
<1> HIDE DEF Up
<1>2. ASSUME NEW b \in Buckets
      PROVE  /\ bk[b] \in Seq(Meta) /\ Len(bk[b]) = Len(c.buckets[b])
             /\ \A p \in 1 .. Len(c.buckets[b]) : Same(bk[b][p], c.buckets[b][p])
  <2>1. c.buckets[b] \in Seq(Meta)
    BY Fields
  <2>2. DOMAIN c.buckets[b] = 1 .. Len(c.buckets[b]) /\ Len(c.buckets[b]) \in Nat
        /\ \A p \in 1 .. Len(c.buckets[b]) : c.buckets[b][p] \in Meta
    BY <2>1
  <2>3. bk[b] = [p \in 1 .. Len(c.buckets[b]) |-> Up(c.buckets[b][p])]
    BY <2>2
  <2>4. bk[b] \in Seq(Meta)
    BY <1>1, <2>2, <2>3, IsASeq
  <2>5. Len(bk[b]) = Len(c.buckets[b])
    BY <2>2, <2>3, <2>4
  <2> QED
    BY <1>1, <2>2, <2>3, <2>4, <2>5
<1>3. bk \in [Buckets -> Seq(Meta)]
  BY <1>2
<1>4. d = [c EXCEPT !.buckets = bk]
  BY DEF update_timers, Up
<1> HIDE DEF bk, d
<1>5. /\ d \in CacheObj /\ d.maxmem = c.maxmem /\ d.size = c.size /\ d.num_values = c.num_values
      /\ d.slabs = c.slabs /\ d.buckets = bk
  BY <1>3, <1>4 DEF CacheObj
<1> QED
  BY <1>2, <1>5 DEF d

\* The parts of a concatenation of lists.
LEMMA Joined ==
  ASSUME NEW s \in Seq(Meta), NEW t \in Seq(Meta)
  PROVE  /\ s \o t \in Seq(Meta) /\ Len(s \o t) = Len(s) + Len(t) /\ Len(s) \in Nat /\ Len(t) \in Nat
         /\ \A q \in 1 .. Len(s) + Len(t) : (s \o t)[q] = IF q <= Len(s) THEN s[q] ELSE t[q - Len(s)]
OBVIOUS

\* A list without its n-th object.
LEMMA Unlinked ==
  ASSUME NEW s \in Seq(Meta), NEW n \in 1 .. Len(s)
  PROVE  /\ UnlinkAt(s, n) \in Seq(Meta) /\ Len(UnlinkAt(s, n)) = Len(s) - 1 /\ Len(s) \in Nat
         /\ \A q \in 1 .. Len(s) - 1 : UnlinkAt(s, n)[q] = s[IF q < n THEN q ELSE q + 1]
<1> DEFINE a == SubSeq(s, 1, n - 1)
           b == SubSeq(s, n + 1, Len(s))
<1>1. Len(s) \in Nat /\ n \in Nat
  OBVIOUS
<1>2. a \in Seq(Meta) /\ Len(a) = n - 1 /\ \A q \in 1 .. n - 1 : a[q] = s[q]
  BY <1>1, SubSeqProperties
<1>3. b \in Seq(Meta) /\ Len(b) = Len(s) - n /\ \A q \in 1 .. Len(s) - n : b[q] = s[n + q]
  BY <1>1, SubSeqProperties
<1>4. UnlinkAt(s, n) = a \o b
  BY DEF UnlinkAt
<1> HIDE DEF a, b
<1>5. a \o b \in Seq(Meta) /\ Len(a \o b) = Len(s) - 1
      /\ \A q \in 1 .. Len(s) - 1 : (a \o b)[q] = IF q <= n - 1 THEN a[q] ELSE b[q - (n - 1)]
  <2>1. Len(a) + Len(b) = Len(s) - 1
    BY <1>1, <1>2, <1>3
  <2>2. /\ a \o b \in Seq(Meta) /\ Len(a \o b) = Len(a) + Len(b)
        /\ \A q \in 1 .. Len(a) + Len(b) : (a \o b)[q] = IF q <= Len(a) THEN a[q] ELSE b[q - Len(a)]
    BY <1>2, <1>3, Joined
  <2> QED
    BY <1>2, <2>1, <2>2
<1>6. ASSUME NEW q \in 1 .. Len(s) - 1
      PROVE  (a \o b)[q] = s[IF q < n THEN q ELSE q + 1]
  <2>1. (a \o b)[q] = IF q <= n - 1 THEN a[q] ELSE b[q - (n - 1)]
    BY <1>5
  <2>0. q \in Nat
    BY <1>1
  <2>2. CASE q < n
    BY <1>1, <1>2, <2>1, <2>2
  <2>3. CASE ~(q < n)
    <3>1. q - (n - 1) \in 1 .. Len(s) - n /\ ~(q <= n - 1) /\ n + (q - (n - 1)) = q + 1
      BY <1>1, <2>0, <2>3
    <3> QED
      BY <1>2, <1>3, <2>1, <2>3, <3>1
  <2> QED
    BY <2>2, <2>3
<1> QED
  BY <1>1, <1>4, <1>5, <1>6

\* Unlinking position n of a bucket moves the metas behind it up by one.
LEMMA UnlinkMoves ==
  ASSUME NEW c \in CacheObj, NEW d \in CacheObj, NEW b \in Buckets, NEW n \in 1 .. Len(c.buckets[b]),
         d.buckets = [c.buckets EXCEPT ![b] = UnlinkAt(@, n)]
  PROVE  /\ Carried(c, d, {<<b, n>>})
         /\ <<b, Len(c.buckets[b])>> \in Places(c)
         /\ Places(d) = Places(c) \ {<<b, Len(c.buckets[b])>>}
<1> DEFINE s == c.buckets[b]
           u == d.buckets[b]
           z == <<b, Len(s)>>
           From(x) == IF x[1] = b /\ x[2] >= n THEN <<b, x[2] + 1>> ELSE x
<1>1. /\ s \in Seq(Meta) /\ Len(s) \in Nat /\ n \in Nat /\ n >= 1 /\ n <= Len(s)
      /\ n \in 1 .. Len(s)
  BY Fields
<1>2. u = UnlinkAt(s, n) /\ \A o \in Buckets : o # b => d.buckets[o] = c.buckets[o]
  BY Fields
<1> HIDE DEF s, u
<1>3. /\ u \in Seq(Meta) /\ Len(u) = Len(s) - 1
      /\ \A q \in 1 .. Len(s) - 1 : u[q] = s[IF q < n THEN q ELSE q + 1]
  <2>1. /\ UnlinkAt(s, n) \in Seq(Meta) /\ Len(UnlinkAt(s, n)) = Len(s) - 1
        /\ \A q \in 1 .. Len(s) - 1 : UnlinkAt(s, n)[q] = s[IF q < n THEN q ELSE q + 1]
    BY <1>1, Unlinked
  <2> QED
    BY <1>2, <2>1
<1>3a. ASSUME NEW q \in Nat, q >= 1, q <= Len(s) - 1
       PROVE  /\ q \in 1 .. Len(s) /\ q # Len(s) /\ q + 1 \in 1 .. Len(s)
              /\ q >= n => u[q] = s[q + 1] /\ q + 1 # n
              /\ ~(q >= n) => u[q] = s[q] /\ q # n
  <2>1. q \in 1 .. Len(s) - 1 /\ u[q] = s[IF q < n THEN q ELSE q + 1]
    BY <1>1, <1>3, <1>3a
  <2>2. ASSUME q >= n PROVE u[q] = s[q + 1] /\ q + 1 # n
    <3>1. ~(q < n) /\ q + 1 # n
      BY <1>1, <2>2
    <3> QED
      BY <2>1, <3>1
  <2>3. ASSUME ~(q >= n) PROVE u[q] = s[q] /\ q # n
    <3>1. q < n /\ q # n
      BY <1>1, <2>3
    <3> QED
      BY <2>1, <3>1
  <2> QED
    BY <1>1, <1>3a, <2>2, <2>3
<1>4. z \in Places(c)
  BY <1>1, PositionIs DEF s
<1>5. ASSUME NEW x \in Places(d)
      PROVE  /\ x \in Places(c) \ {z} /\ From(x) \in Places(c) \ {<<b, n>>} /\ From(x)[1] = x[1]
             /\ MetaAt(d, x) = MetaAt(c, From(x))
             /\ From(x) = <<From(x)[1], From(x)[2]>> /\ x = <<x[1], x[2]>>
             /\ x[2] \in Nat /\ From(x)[2] = IF x[1] = b /\ x[2] >= n THEN x[2] + 1 ELSE x[2]
  <2>1. /\ x[1] \in Buckets /\ x[2] \in 1 .. Len(d.buckets[x[1]]) /\ x = <<x[1], x[2]>>
        /\ d.buckets[x[1]] \in Seq(Meta) /\ MetaAt(d, x) = d.buckets[x[1]][x[2]]
    BY MetaIs
  <2>2. CASE x[1] = b
    <3>1. x[2] \in Nat /\ x[2] >= 1 /\ x[2] <= Len(s) - 1 /\ MetaAt(d, x) = u[x[2]]
      BY <1>1, <1>3, <2>1, <2>2 DEF u
    <3>2. x \in Places(c) /\ x # z
      <4>1. x[2] \in 1 .. Len(s) /\ x[2] # Len(s)
        BY <1>3a, <3>1
      <4> QED
        BY <2>1, <2>2, <4>1, PositionIs DEF s
    <3>3. CASE x[2] >= n
      <4>1. x[2] + 1 \in 1 .. Len(s) /\ x[2] + 1 # n /\ u[x[2]] = s[x[2] + 1]
        BY <1>3a, <3>1, <3>3
      <4>2. <<b, x[2] + 1>> \in Places(c) /\ MetaAt(c, <<b, x[2] + 1>>) = s[x[2] + 1]
        BY <4>1, PositionIs DEF s
      <4> QED
        BY <2>1, <2>2, <3>1, <3>2, <3>3, <4>1, <4>2
    <3>4. CASE ~(x[2] >= n)
      <4>1. x[2] \in 1 .. Len(s) /\ x[2] # n /\ u[x[2]] = s[x[2]]
        BY <1>3a, <3>1, <3>4
      <4>2. <<b, x[2]>> \in Places(c) /\ MetaAt(c, <<b, x[2]>>) = s[x[2]]
        BY <4>1, PositionIs DEF s
      <4> QED
        BY <2>1, <2>2, <3>1, <3>2, <3>4, <4>1, <4>2
    <3> QED
      BY <3>3, <3>4
  <2>3. CASE x[1] # b
    <3>1. x \in Places(c) /\ MetaAt(c, x) = MetaAt(d, x)
      BY <1>2, <2>1, <2>3, PositionIs
    <3>2. x[2] \in Nat
      BY <2>1
    <3> QED
      BY <2>1, <2>3, <3>1, <3>2
  <2> QED
    BY <2>2, <2>3
<1>6. ASSUME NEW y \in Places(c), y # z
      PROVE  y \in Places(d)
  <2>1. /\ y[1] \in Buckets /\ y[2] \in 1 .. Len(c.buckets[y[1]]) /\ y = <<y[1], y[2]>>
    BY MetaIs
  <2>2. CASE y[1] = b
    <3>1. y[2] \in 1 .. Len(u)
      BY <1>1, <1>3, <1>6, <2>1, <2>2 DEF s
    <3>2. <<b, y[2]>> \in Places(d)
      BY <3>1, PositionIs DEF u
    <3> QED
      BY <2>1, <2>2, <3>2
  <2>3. CASE y[1] # b
    <3>1. y[2] \in 1 .. Len(d.buckets[y[1]])
      BY <1>2, <2>1, <2>3
    <3>2. <<y[1], y[2]>> \in Places(d)
      BY <2>1, <3>1, PositionIs
    <3> QED
      BY <2>1, <3>2
  <2> QED
    BY <2>2, <2>3
<1>7. ASSUME NEW y \in Places(c), y # <<b, n>>
      PROVE  \E x \in Places(d) : From(x) = y
  <2>1. /\ y[1] \in Buckets /\ y[2] \in 1 .. Len(c.buckets[y[1]]) /\ y = <<y[1], y[2]>>
    BY MetaIs
  <2>2. CASE y[1] = b /\ y[2] > n
    <3>1. y[2] - 1 \in 1 .. Len(u) /\ y[2] - 1 >= n /\ (y[2] - 1) + 1 = y[2]
      BY <1>1, <1>3, <2>1, <2>2 DEF s
    <3>2. <<b, y[2] - 1>> \in Places(d)
      BY <3>1, PositionIs DEF u
    <3> QED
      BY <2>1, <2>2, <3>1, <3>2
  <2>3. CASE y[1] = b /\ ~(y[2] > n)
    <3>1. y[2] \in 1 .. Len(u) /\ ~(y[2] >= n)
      BY <1>1, <1>3, <1>7, <2>1, <2>3 DEF s
    <3>2. <<b, y[2]>> \in Places(d)
      BY <3>1, PositionIs DEF u
    <3> QED
      BY <2>1, <2>3, <3>1, <3>2
  <2>4. CASE y[1] # b
    <3>1. y # z
      BY <2>4
    <3>2. y \in Places(d)
      BY <1>6, <3>1
    <3> QED
      BY <2>4, <3>2
  <2> QED
    BY <2>2, <2>3, <2>4
<1> DEFINE f == [x \in Places(d) |-> From(x)]
<1>8. f \in [Places(d) -> Places(c)] /\ \A x \in Places(d) : f[x] = From(x)
  BY <1>5
<1>9. ASSUME NEW x \in Places(d), NEW y \in Places(d), From(x) = From(y)
      PROVE  x = y
  <2>1. x[1] = y[1] /\ From(x)[2] = From(y)[2]
    BY <1>5, <1>9
  <2>2. /\ x[2] \in Nat /\ From(x)[2] = IF x[1] = b /\ x[2] >= n THEN x[2] + 1 ELSE x[2]
        /\ y[2] \in Nat /\ From(y)[2] = IF y[1] = b /\ y[2] >= n THEN y[2] + 1 ELSE y[2]
    BY <1>5
  <2> HIDE DEF From
  <2>3. \A p, q \in Nat : (IF p >= n THEN p + 1 ELSE p) = (IF q >= n THEN q + 1 ELSE q) => p = q
    BY <1>1
  <2>4. x[2] = y[2]
    BY <2>1, <2>2, <2>3
  <2> QED
    BY <1>5, <2>1, <2>4
<1> HIDE DEF f, From, z
<1>10. \A m : Same(m, m)
  BY DEF Same
<1>11. Carried(c, d, {<<b, n>>})
  BY <1>5, <1>7, <1>8, <1>9, <1>10 DEF Carried
<1> QED
  BY <1>4, <1>5, <1>6, <1>11 DEF z, s

\* Timers do not matter to the invariant, the addresses or the values.
LEMMA StillOrderly ==
  ASSUME NEW c, Orderly(c), NEW d \in CacheObj, Still(c, d),
         d.maxmem = c.maxmem, d.size = c.size, d.num_values = c.num_values, d.slabs = c.slabs
  PROVE  /\ Orderly(d) /\ AddressesOf(d) = AddressesOf(c)
         /\ \A k \in Keys : ValueOf(d, k) = ValueOf(c, k)
<1>1. c \in CacheObj /\ Tidy(c) /\ Classed(c) /\ Counted(c) /\ Sized(c) /\ Void(c)
  BY DEF Orderly
<1>2. Carried(c, d, {})
  BY StillCarried
<1>3. Tidy(d)
  BY <1>1, <1>2, CarriedTidy
<1>4. AddressesOf(d) = AddressesOf(c)
  <2>1. AddressesOf(d) = AddressesOf(c) \ {MetaAt(c, x).address : x \in {}}
    BY <1>1, <1>2, CarriedAddresses
  <2> QED
    BY <2>1
<1>5. Classed(d)
  BY <1>1, <1>2, CarriedClassed
<1>6. Counted(d) /\ Void(d)
  BY <1>1 DEF Counted, Void, Still, IsNull
<1>7. Sized(d)
  BY <1>1 DEF Sized, IsNull
<1>8. \A k \in Keys : ValueOf(d, k) = ValueOf(c, k)
  BY <1>1, <1>2, CarriedValues
<1> QED
  BY <1>1, <1>3, <1>4, <1>5, <1>6, <1>7, <1>8 DEF Orderly

\* update_timers, all told.
LEMMA TimersOrderly ==
  ASSUME NEW c, Orderly(c)
  PROVE  LET d == update_timers(c) IN
         /\ Orderly(d) /\ Still(c, d) /\ AddressesOf(d) = AddressesOf(c)
         /\ d.maxmem = c.maxmem /\ d.size = c.size /\ d.num_values = c.num_values /\ d.slabs = c.slabs
         /\ \A k \in Keys : ValueOf(d, k) = ValueOf(c, k)
<1> DEFINE d == update_timers(c)
<1>1. c \in CacheObj
  BY DEF Orderly
<1>2. /\ d \in CacheObj
      /\ d.maxmem = c.maxmem /\ d.size = c.size /\ d.num_values = c.num_values /\ d.slabs = c.slabs
      /\ \A b \in Buckets : /\ Len(d.buckets[b]) = Len(c.buckets[b])
                            /\ \A p \in 1 .. Len(c.buckets[b]) : Same(d.buckets[b][p], c.buckets[b][p])
  BY <1>1, UpdateTimers
<1> HIDE DEF d
<1>3. Still(c, d)
  BY <1>1, <1>2, Unmoved
<1>4. Orderly(d) /\ AddressesOf(d) = AddressesOf(c) /\ \A k \in Keys : ValueOf(d, k) = ValueOf(c, k)
  BY <1>2, <1>3, StillOrderly
<1> QED
  BY <1>2, <1>3, <1>4 DEF d

\* d is c without the value at place x.
Deleted(c, d, x) ==
  /\ Good(d) /\ d.maxmem = c.maxmem /\ d.size = c.size
  /\ SameShape(c.slabs, d.slabs)
  /\ AddressesOf(d) = AddressesOf(c) \ {MetaAt(c, x).address}
  /\ \A k \in Keys : ValueOf(d, k) = IF MetaAt(c, x).name = Lookup(k) THEN Nil ELSE ValueOf(c, k)

\* A held address is in a slab, and giving it back keeps the shape of the list.
LEMMA GiveBackShape ==
  ASSUME NEW slabs, NEW held, Sound(slabs, held), NEW addr \in held
  PROVE  addr.slab \in DOMAIN slabs /\ SameShape(slabs, man_delete(slabs, addr))
<1>0. slabs \in Seq(Slab)
  BY DEF Sound
<1>1. PICK f \in DOMAIN slabs : \E i \in Entries(slabs[f].class) : addr = EntryAddr(slabs, f, i)
  BY DEF Sound, HeldAreEntries
<1>2. PICK e \in Entries(slabs[f].class) : addr = EntryAddr(slabs, f, e)
  BY <1>1
<1>3. SameShape(slabs, man_delete(slabs, addr))
  BY <1>0, <1>2, ManDeleteEffect
<1> QED
  BY <1>2, <1>3 DEF EntryAddr

\* Unlink takes the meta that get_meta finds out of its list and gives its entry
\* back.
LEMMA UnlinkDeletes ==
  ASSUME NEW c, Good(c), ~IsNull(c), NEW name \in Name, Hits(c, name) # {}
  PROVE  LET x == <<Bucket(name), get_meta(c, name)>> IN
         x \in Places(c) /\ MetaAt(c, x).name = name /\ Deleted(c, Unlink(c, name), x)
<1> DEFINE b == Bucket(name)
           n == get_meta(c, name)
           x == <<b, n>>
           a == MetaAt(c, x).address
           d == Unlink(c, name)
<1>1. c \in CacheObj /\ Tidy(c) /\ Classed(c) /\ Counted(c) /\ Sized(c) /\ Void(c)
      /\ Sound(c.slabs, AddressesOf(c))
  BY DEF Good, Orderly
<1>2. /\ n = Min(Hits(c, name)) /\ n \in 1 .. Len(c.buckets[b]) /\ x \in Places(c)
      /\ MetaAt(c, x) = c.buckets[b][n] /\ MetaAt(c, x).name = name
  BY <1>1, GetMeta
<1>3. b \in Buckets /\ c.buckets \in [Buckets -> Seq(Meta)] /\ c.buckets[b] \in Seq(Meta) /\ c.num_values \in Int
  BY <1>1, BucketIs, Fields
<1>4. a \in AddressesOf(c)
  BY <1>2 DEF AddressesOf
<1>5. SameShape(c.slabs, man_delete(c.slabs, a)) /\ Sound(man_delete(c.slabs, a), AddressesOf(c) \ {a})
  BY <1>1, <1>4, GiveBackShape, SoundGiveBack
<1>6. d = [c EXCEPT !.slabs = man_delete(c.slabs, a),
                    !.buckets = [c.buckets EXCEPT ![b] = UnlinkAt(c.buckets[b], n)],
                    !.num_values = c.num_values - 1]
  BY <1>1, <1>2, <1>3 DEF Unlink, LL_delete, CacheObj
<1> HIDE DEF a, b, n, d
<1>7. UnlinkAt(c.buckets[b], n) \in Seq(Meta) /\ man_delete(c.slabs, a) \in Seq(Slab)
  BY <1>2, <1>3, <1>5, Unlinked DEF SameShape
<1>8. /\ d \in CacheObj /\ d.maxmem = c.maxmem /\ d.size = c.size /\ d.num_values = c.num_values - 1
      /\ d.slabs = man_delete(c.slabs, a)
      /\ d.buckets = [c.buckets EXCEPT ![b] = UnlinkAt(c.buckets[b], n)]
  <2> DEFINE bk == [c.buckets EXCEPT ![b] = UnlinkAt(c.buckets[b], n)]
             sl == man_delete(c.slabs, a)
  <2>1. bk \in [Buckets -> Seq(Meta)] /\ sl \in Seq(Slab) /\ c.num_values - 1 \in Int
    BY <1>3, <1>7
  <2>2. d = [c EXCEPT !.slabs = sl, !.buckets = bk, !.num_values = c.num_values - 1]
    BY <1>6
  <2> HIDE DEF bk, sl
  <2>3. /\ d \in CacheObj /\ d.maxmem = c.maxmem /\ d.size = c.size /\ d.num_values = c.num_values - 1
        /\ d.slabs = sl /\ d.buckets = bk
    BY <1>1, <2>1, <2>2 DEF CacheObj
  <2> QED
    BY <2>3 DEF bk, sl
<1>9. /\ Carried(c, d, {x}) /\ <<b, Len(c.buckets[b])>> \in Places(c)
      /\ Places(d) = Places(c) \ {<<b, Len(c.buckets[b])>>}
  BY <1>1, <1>2, <1>3, <1>8, UnlinkMoves
<1>10. Tidy(d)
  BY <1>1, <1>9, CarriedTidy
<1>11. AddressesOf(d) = AddressesOf(c) \ {a}
  <2>1. AddressesOf(d) = AddressesOf(c) \ {MetaAt(c, z).address : z \in {x}}
    BY <1>1, <1>2, <1>9, CarriedAddresses
  <2> QED
    BY <2>1 DEF a
<1>12. Classed(d)
  <2>1. \A z \in Places(c) : MetaAt(c, z).address.slab \in DOMAIN c.slabs
    BY <1>1, GiveBackShape DEF AddressesOf
  <2>2. \A m \in DOMAIN c.slabs : d.slabs[m].class = c.slabs[m].class
    BY <1>5, <1>8 DEF SameShape
  <2> QED
    BY <1>1, <1>9, <2>1, <2>2, CarriedClassed
<1>13. Counted(d)
  BY <1>1, <1>8, <1>9, FS_RemoveElement DEF Counted
<1>14. Sized(d) /\ Void(d)
  <2>1. Len(d.slabs) = Len(c.slabs)
    <3>1. c.slabs \in Seq(Slab) /\ SameShape(c.slabs, d.slabs)
      BY <1>1, <1>5, <1>8, Fields
    <3> QED
      BY <3>1, SameLength
  <2> QED
    BY <1>1, <1>8, <1>9, <2>1 DEF Sized, Void, IsNull
<1>15. \A k \in Keys : ValueOf(d, k) = IF MetaAt(c, x).name = Lookup(k) THEN Nil ELSE ValueOf(c, k)
  <2> TAKE k \in Keys
  <2>1. {x} \in SUBSET Places(c)
    BY <1>2
  <2>2. ValueOf(d, k) = IF \E z \in {x} : MetaAt(c, z).name = Lookup(k) THEN Nil ELSE ValueOf(c, k)
    BY <1>1, <1>8, <1>9, <2>1, CarriedValues
  <2> QED
    BY <2>2
<1>16. Good(d)
  BY <1>5, <1>8, <1>10, <1>11, <1>12, <1>13, <1>14 DEF Good, Orderly
<1>17. Deleted(c, d, x)
  BY <1>5, <1>8, <1>11, <1>15, <1>16 DEF Deleted, a
<1> QED
  BY <1>2, <1>17 DEF b, n, d

\* cache_delete answers 255 and does nothing, or 0 and the value is gone.
LEMMA DeleteIs ==
  ASSUME NEW c, Good(c), NEW name \in Name
  PROVE  LET r == cache_delete(c, name)
             x == <<Bucket(name), get_meta(c, name)>> IN
         \/ r.rc = 255 /\ r.c = c /\ (IsNull(c) \/ Hits(c, name) = {})
         \/ /\ r.rc = 0 /\ ~IsNull(c)
            /\ x \in Places(c) /\ MetaAt(c, x).name = name /\ Deleted(c, r.c, x)
<1> DEFINE x == <<Bucket(name), get_meta(c, name)>>
           u == Unlink(c, name)
           d == update_timers(u)
<1>1. c \in CacheObj
  BY DEF Good, Orderly
<1>2. CASE IsNull(c) \/ Hits(c, name) = {}
  BY <1>1, <1>2, GetMeta DEF cache_delete
<1>3. CASE ~IsNull(c) /\ Hits(c, name) # {}
  <2>1. cache_delete(c, name) = [rc |-> 0, c |-> d]
    BY <1>1, <1>3, GetMeta DEF cache_delete
  <2>2. x \in Places(c) /\ MetaAt(c, x).name = name /\ Deleted(c, u, x)
    BY <1>3, UnlinkDeletes
  <2> HIDE DEF x, u
  <2>3. /\ Orderly(d) /\ AddressesOf(d) = AddressesOf(u)
        /\ d.maxmem = u.maxmem /\ d.size = u.size /\ d.slabs = u.slabs
        /\ \A k \in Keys : ValueOf(d, k) = ValueOf(u, k)
    BY <2>2, TimersOrderly DEF Deleted, Good
  <2>4. Deleted(c, d, x)
    BY <2>2, <2>3 DEF Deleted, Good
  <2> QED
    BY <1>3, <2>1, <2>2, <2>4 DEF x
<1> QED
  BY <1>2, <1>3

-----------------------------------------------------------------------------
\* Evicting.

\* The value at place x is the one of its class that was idle longest.
Oldest(c, class, x) ==
  /\ MetaAt(c, x).timer > 0 /\ MetaAt(c, x).slab_class = class
  /\ \A y \in Places(c) : MetaAt(c, y).slab_class = class => MetaAt(c, y).timer <= MetaAt(c, x).timer

\* The place EvictPlace picks is of the class and has the greatest timer, above 0.
LEMMA EvictPlaceIs ==
  ASSUME NEW c \in CacheObj, NEW class, EvictPlace(c, class) # << >>
  PROVE  LET x == EvictPlace(c, class) IN x \in Places(c) /\ Oldest(c, class, x)
<1> DEFINE cand   == {x \in Places(c) : MetaAt(c, x).timer > 0 /\ MetaAt(c, x).slab_class = class}
           oldest == {x \in cand : \A y \in cand : MetaAt(c, y).timer <= MetaAt(c, x).timer}
           T      == {MetaAt(c, x).timer : x \in cand}
           B      == {x[1] : x \in oldest}
           b      == Min(B)
           Q      == {x[2] : x \in {y \in oldest : y[1] = b}}
<1>1. cand # {} /\ EvictPlace(c, class) = <<b, Min(Q)>>
  BY DEF EvictPlace
<1>2. ASSUME NEW x \in Places(c)
      PROVE  /\ x[1] \in Nat /\ x[2] \in Nat /\ x = <<x[1], x[2]>>
             /\ MetaAt(c, x).timer \in 0 .. (TimerMod - 1)
  <2>1. x[1] \in Buckets /\ x[2] \in 1 .. Len(c.buckets[x[1]]) /\ x = <<x[1], x[2]>>
        /\ c.buckets[x[1]] \in Seq(Meta) /\ MetaAt(c, x) \in Meta
    BY MetaIs
  <2>2. Buckets \subseteq Nat
    BY CacheAssumption DEF Buckets
  <2> QED
    BY <2>1, <2>2, MetaFields
<1>3. oldest # {}
  <2>1. TimerMod - 1 \in Nat /\ T \in SUBSET (0 .. (TimerMod - 1)) /\ T # {}
    BY <1>1, <1>2, CacheAssumption
  <2>2. Max(T) \in T /\ \A t \in T : t <= Max(T)
    BY <2>1, MaxIsGreatest
  <2>3. PICK x \in cand : MetaAt(c, x).timer = Max(T)
    BY <2>2
  <2>4. \A y \in cand : MetaAt(c, y).timer <= MetaAt(c, x).timer
    BY <2>2, <2>3
  <2> QED
    BY <2>3, <2>4
<1>4. b \in B
  <2>1. B \in SUBSET Nat /\ B # {}
    BY <1>2, <1>3
  <2> QED
    BY <2>1, MinIsLeast
<1>5. Min(Q) \in Q
  <2>1. Q \in SUBSET Nat /\ Q # {}
    BY <1>2, <1>4
  <2> QED
    BY <2>1, MinIsLeast
<1>6. PICK y \in oldest : y[1] = b /\ y[2] = Min(Q)
  BY <1>5
<1>7. y = <<b, Min(Q)>>
  BY <1>2, <1>6
<1>8. y \in Places(c) /\ MetaAt(c, y).timer > 0 /\ MetaAt(c, y).slab_class = class
  BY <1>6
<1>9. ASSUME NEW z \in Places(c), MetaAt(c, z).slab_class = class
      PROVE  MetaAt(c, z).timer <= MetaAt(c, y).timer
  <2>1. CASE MetaAt(c, z).timer > 0
    BY <1>6, <1>9, <2>1
  <2>2. CASE ~(MetaAt(c, z).timer > 0)
    <3>1. MetaAt(c, z).timer \in 0 .. (TimerMod - 1) /\ MetaAt(c, y).timer \in 0 .. (TimerMod - 1)
      BY <1>2, <1>8
    <3> QED
      BY <1>8, <2>2, <3>1, CacheAssumption
  <2> QED
    BY <2>1, <2>2
<1> QED
  BY <1>1, <1>7, <1>8, <1>9 DEF Oldest

\* cache_evict does nothing, or deletes the oldest value of the class.
LEMMA EvictIs ==
  ASSUME NEW c, Good(c), NEW class
  PROVE  \/ cache_evict(c, class) = c
         \/ /\ ~IsNull(c)
            /\ \E x \in Places(c) : Oldest(c, class, x) /\ Deleted(c, cache_evict(c, class), x)
<1> DEFINE x == EvictPlace(c, class)
           name == MetaAt(c, x).name
           y == <<Bucket(name), get_meta(c, name)>>
           r == cache_delete(c, name)
<1>1. c \in CacheObj /\ Tidy(c)
  BY DEF Good, Orderly
<1>2. CASE x = << >>
  BY <1>2 DEF cache_evict
<1>3. CASE x # << >>
  <2>1. x \in Places(c) /\ Oldest(c, class, x)
    BY <1>1, <1>3, EvictPlaceIs
  <2>2. cache_evict(c, class) = r.c
    BY <1>3 DEF cache_evict
  <2>3. name \in Name
    BY <1>1, <2>1, MetaIs, MetaFields
  <2>4. \/ r.c = c
        \/ ~IsNull(c) /\ y \in Places(c) /\ MetaAt(c, y).name = name /\ Deleted(c, r.c, y)
    BY <2>3, DeleteIs
  <2> HIDE DEF y, r, x
  <2>5. y \in Places(c) /\ MetaAt(c, y).name = name => y = x
    BY <1>1, <2>1 DEF Tidy
  <2> QED
    BY <2>1, <2>2, <2>4, <2>5
<1> QED
  BY <1>2, <1>3

-----------------------------------------------------------------------------
\* Finding room.

\* No slab of the class has a clear bit.
Exhausted(slabs, class) ==
  \A n \in DOMAIN slabs : slabs[n].class = class => get_free_index(slabs[n].status) = 0

\* d is c with more slabs, or with other bits and marks.
Grown(c, d) ==
  /\ d \in CacheObj
  /\ d.buckets = c.buckets /\ d.maxmem = c.maxmem /\ d.num_values = c.num_values
  /\ Len(c.slabs) <= Len(d.slabs)
  /\ \A n \in DOMAIN c.slabs : /\ n \in DOMAIN d.slabs
                               /\ d.slabs[n].class = c.slabs[n].class /\ d.slabs[n].junk = c.slabs[n].junk

\* r is an entry of the class that nobody held, marked in r.c.
Opened(r, held, class) ==
  /\ r.addr # NULL /\ r.addr \in Address /\ r.addr \notin held
  /\ r.addr.slab \in DOMAIN r.c.slabs /\ r.c.slabs[r.addr.slab].class = class
  /\ Sound(r.c.slabs, held \cup {r.addr})

\* Find gets an entry or finds the class exhausted.
LEMMA FindIs ==
  ASSUME NEW c \in CacheObj, NEW held, Sound(c.slabs, held), NEW class \in Classes
  PROVE  LET r == Find(c, class) IN
         /\ Grown(c, r.c) /\ SameShape(c.slabs, r.c.slabs) /\ r.c.size = c.size
         /\ \/ r.addr = NULL /\ Sound(r.c.slabs, held) /\ Exhausted(r.c.slabs, class) /\ Exhausted(c.slabs, class)
            \/ /\ Opened(r, held, class)
               /\ \E e \in Entries(class) : /\ r.addr = EntryAddr(c.slabs, r.addr.slab, e)
                                            /\ ~BitSet(c.slabs[r.addr.slab].status, e)
<1> DEFINE g == get_address(c.slabs, class)
           r == Find(c, class)
<1>1. class \in Nat /\ get_slab_class(class) = class
  BY SlabAssumption, SlabClass
<1>2. /\ SameShape(c.slabs, g.slabs)
      /\ \/ NoneLeft(c.slabs, class, g) /\ g.addr = NULL /\ Sound(g.slabs, held)
         \/ /\ \E f \in DOMAIN c.slabs : \E e \in Entries(class) : Took(c.slabs, class, g, f, e)
            /\ g.addr # NULL /\ g.addr \notin held /\ g.addr \in Address
            /\ Sound(g.slabs, held \cup {g.addr})
  <2>1. LET k == get_slab_class(class) IN
        /\ SameShape(c.slabs, g.slabs)
        /\ \/ NoneLeft(c.slabs, k, g) /\ g.addr = NULL /\ Sound(g.slabs, held)
           \/ /\ \E f \in DOMAIN c.slabs : \E e \in Entries(k) : Took(c.slabs, k, g, f, e)
              /\ g.addr # NULL /\ g.addr \notin held /\ g.addr \in Address
              /\ Sound(g.slabs, held \cup {g.addr})
    BY <1>1, SoundTake
  <2> QED
    BY <1>1, <2>1
<1> HIDE DEF g
<1>3. r = [addr |-> g.addr, c |-> [c EXCEPT !.slabs = g.slabs]]
  BY DEF Find, Located, g
<1>4. g.slabs \in Seq(Slab) /\ DOMAIN g.slabs = DOMAIN c.slabs
      /\ \A n \in DOMAIN c.slabs : g.slabs[n].class = c.slabs[n].class /\ g.slabs[n].junk = c.slabs[n].junk
  BY <1>2 DEF SameShape
<1>5. /\ r.addr = g.addr /\ r.c.slabs = g.slabs /\ r.c \in CacheObj /\ r.c.size = c.size
      /\ r.c.buckets = c.buckets /\ r.c.maxmem = c.maxmem /\ r.c.num_values = c.num_values
  <2> DEFINE d == [c EXCEPT !.slabs = g.slabs]
  <2>1. /\ d \in CacheObj /\ d.slabs = g.slabs /\ d.size = c.size
        /\ d.buckets = c.buckets /\ d.maxmem = c.maxmem /\ d.num_values = c.num_values
    BY <1>4 DEF CacheObj
  <2>2. r.addr = g.addr /\ r.c = d
    BY <1>3
  <2> QED
    BY <2>1, <2>2
<1> HIDE DEF r
<1>6. Len(c.slabs) = Len(g.slabs) /\ Len(c.slabs) \in Nat
  BY <1>4, Fields
<1>7. Grown(c, r.c)
  BY <1>4, <1>5, <1>6 DEF Grown
<1>8. ASSUME NoneLeft(c.slabs, class, g), g.addr = NULL, Sound(g.slabs, held)
      PROVE  r.addr = NULL /\ Sound(r.c.slabs, held) /\ Exhausted(r.c.slabs, class) /\ Exhausted(c.slabs, class)
  BY <1>4, <1>5, <1>8 DEF NoneLeft, Exhausted
<1>9. ASSUME \E f \in DOMAIN c.slabs : \E e \in Entries(class) : Took(c.slabs, class, g, f, e),
             g.addr # NULL, g.addr \notin held, g.addr \in Address, Sound(g.slabs, held \cup {g.addr})
      PROVE  /\ Opened(r, held, class)
             /\ \E e \in Entries(class) : /\ r.addr = EntryAddr(c.slabs, r.addr.slab, e)
                                          /\ ~BitSet(c.slabs[r.addr.slab].status, e)
  <2>1. PICK f \in DOMAIN c.slabs : \E e \in Entries(class) : Took(c.slabs, class, g, f, e)
    BY <1>9
  <2>2. PICK e \in Entries(class) : Took(c.slabs, class, g, f, e)
    BY <2>1
  <2>3. c.slabs[f].class = class /\ ~BitSet(c.slabs[f].status, e) /\ g.addr = EntryAddr(c.slabs, f, e)
    BY <2>2 DEF Took
  <2>4. g.addr.slab = f
    BY <2>3 DEF EntryAddr
  <2> QED
    BY <1>4, <1>5, <1>9, <2>3, <2>4 DEF Opened
<1> QED
  BY <1>2, <1>5, <1>7, <1>8, <1>9 DEF r

\* The parts of a list with another slab.
LEMMA SlabAppended ==
  ASSUME NEW slabs \in Seq(Slab), NEW s \in Slab
  PROVE  LET new == LL_append(slabs, s) IN
         /\ new \in Seq(Slab) /\ Len(new) = Len(slabs) + 1 /\ Len(slabs) \in Nat
         /\ DOMAIN slabs = 1 .. Len(slabs) /\ DOMAIN new = 1 .. Len(slabs) + 1
         /\ new[Len(slabs) + 1] = s
         /\ \A n \in DOMAIN slabs : n \in DOMAIN new /\ new[n] = slabs[n]
  BY DEF LL_append

\* expand_cache adds a slab of the class, or there is no room for one.
LEMMA ExpandIs ==
  ASSUME NEW c \in CacheObj, ~IsNull(c), Sized(c), NEW held, Sound(c.slabs, held),
         NEW class \in Classes, NEW dirt \in SUBSET AllOnes
  PROVE  LET d == expand_cache(c, class, dirt) IN
         /\ Grown(c, d) /\ Sized(d) /\ Sound(d.slabs, held)
         /\ \/ d = c /\ c.maxmem - c.size <= SLABSIZE
            \/ /\ Len(c.slabs) \in Nat /\ DOMAIN c.slabs = 1 .. Len(c.slabs)
               /\ Len(c.slabs) + 1 \in DOMAIN d.slabs /\ d.slabs[Len(c.slabs) + 1].class = class
<1> DEFINE d == expand_cache(c, class, dirt)
           s == allocate_slab(class, dirt)
           new == LL_append(c.slabs, s)
           size == c.size + SLABSIZE
<1>1. c.maxmem \in Nat /\ c.size \in Nat /\ c.slabs \in Seq(Slab) /\ SLABSIZE \in Nat /\ CAP \in Nat
  BY Fields, SlabAssumption, CacheAssumption
<1>2. CASE ~(c.maxmem - c.size > SLABSIZE)
  <2>1. d = c /\ c.maxmem - c.size <= SLABSIZE
    BY <1>1, <1>2 DEF expand_cache
  <2>2. Grown(c, c)
    BY <1>1 DEF Grown
  <2> QED
    BY <2>1, <2>2
<1>3. CASE c.maxmem - c.size > SLABSIZE
  <2>1. s \in Slab /\ s.class = class
    BY NewSlab
  <2>2. Sound(new, held)
    BY SoundAdd DEF slab_add
  <2> HIDE DEF s
  <2>3. /\ new \in Seq(Slab) /\ Len(new) = Len(c.slabs) + 1 /\ Len(c.slabs) \in Nat
        /\ DOMAIN c.slabs = 1 .. Len(c.slabs) /\ DOMAIN new = 1 .. Len(c.slabs) + 1
        /\ new[Len(c.slabs) + 1] = s
        /\ \A n \in DOMAIN c.slabs : n \in DOMAIN new /\ new[n] = c.slabs[n]
    BY <1>1, <2>1, SlabAppended
  <2>4. size < c.maxmem /\ c.maxmem <= CAP /\ size \in 0 .. CAP - 1 /\ CAP \in Nat \ {0}
    BY <1>1, <1>3 DEF Sized
  <2>5. size % CAP = size
    BY <2>4, DivModUnique
  <2>6. d = [c EXCEPT !.slabs = new, !.size = size]
    BY <1>3, <2>5 DEF expand_cache, slab_add, s
  <2>7. size = SLABSIZE * Len(new)
    <3>1. c.size = SLABSIZE * Len(c.slabs)
      BY DEF Sized
    <3>2. \A l \in Nat : SLABSIZE * l + SLABSIZE = SLABSIZE * (l + 1)
      BY <1>1
    <3> QED
      BY <2>3, <3>1, <3>2
  <2>7a. size \in Nat
    BY <1>1
  <2> HIDE DEF new, d, size
  <2>8. /\ d \in CacheObj /\ d.slabs = new /\ d.size = size /\ d.maxmem = c.maxmem
        /\ d.buckets = c.buckets /\ d.num_values = c.num_values
    BY <1>1, <2>3, <2>6, <2>7a DEF CacheObj
  <2>9. Grown(c, d)
    BY <2>3, <2>8 DEF Grown
  <2>10. Sized(d)
    BY <2>4, <2>7, <2>8 DEF Sized, IsNull
  <2>11. Len(c.slabs) + 1 \in DOMAIN d.slabs /\ d.slabs[Len(c.slabs) + 1].class = class
    BY <2>1, <2>3, <2>8
  <2> QED
    BY <2>2, <2>3, <2>8, <2>9, <2>10, <2>11 DEF d
<1> QED
  BY <1>2, <1>3

\* A slab without a clear bit in which nobody holds an entry is dirty all over.
LEMMA DirtyAllOver ==
  ASSUME NEW slabs, NEW held, Sound(slabs, held), NEW n \in DOMAIN slabs,
         get_free_index(slabs[n].status) = 0, \A a \in held : a.slab # n
  PROVE  Entries(slabs[n].class) \subseteq slabs[n].junk
<1>1. slabs \in Seq(Slab) /\ slabs[n].class \in Classes /\ slabs[n].status \in Status
  BY SlabFields DEF Sound
<1>2. \A i \in Bits : BitSet(slabs[n].status, i)
  BY <1>1, FreeIndex
<1>3. ASSUME NEW i \in Entries(slabs[n].class)
      PROVE  i \in slabs[n].junk
  <2>1. i \in Bits
    BY <1>1, EntryFacts
  <2>2. EntryAddr(slabs, n, i) \notin held
    BY DEF EntryAddr
  <2> QED
    BY <1>2, <2>1, <2>2 DEF Sound, BitsMatch, Bits
<1> QED
  BY <1>3

\* The cache is at its limit, or malloc left the slab it added without a clear bit.
Filled(c, d) ==
  \/ d.maxmem - d.size <= SLABSIZE
  \/ \E n \in DOMAIN d.slabs : n > Len(c.slabs) /\ Entries(d.slabs[n].class) \subseteq d.slabs[n].junk

\* Growing twice is growing.
LEMMA GrownOn ==
  ASSUME NEW c, NEW d, NEW e, c.slabs \in Seq(Slab), Grown(c, d), Grown(d, e)
  PROVE  Grown(c, e)
<1>1. Len(c.slabs) \in Nat /\ Len(d.slabs) \in Nat /\ Len(e.slabs) \in Nat
  BY Fields DEF Grown
<1>2. Len(c.slabs) <= Len(d.slabs) /\ Len(d.slabs) <= Len(e.slabs)
  BY DEF Grown
<1>3. Len(c.slabs) <= Len(e.slabs)
  BY <1>1, <1>2
<1> QED
  BY <1>3 DEF Grown

\* free_space gets an entry of the class, after adding a slab if need be; or
\* there is none and no room for a slab with a free one.
LEMMA FreeSpaceIs ==
  ASSUME NEW c, Good(c), ~IsNull(c), NEW class \in Classes, NEW dirt \in SUBSET AllOnes
  PROVE  LET r == free_space(c, class, dirt) IN
         /\ Grown(c, r.c) /\ Sized(r.c)
         /\ \/ /\ r.addr = NULL /\ Sound(r.c.slabs, AddressesOf(c))
               /\ Exhausted(r.c.slabs, class) /\ Filled(c, r.c)
            \/ Opened(r, AddressesOf(c), class)
<1> DEFINE held == AddressesOf(c)
           g == Find(c, class)
           x == expand_cache(g.c, class, dirt)
           h == Find(x, class)
           r == free_space(c, class, dirt)
<1>1. c \in CacheObj /\ Sized(c) /\ Sound(c.slabs, held) /\ c.slabs \in Seq(Slab)
  BY Fields DEF Good, Orderly
<1>2. /\ Grown(c, g.c) /\ SameShape(c.slabs, g.c.slabs) /\ g.c.size = c.size
      /\ \/ g.addr = NULL /\ Sound(g.c.slabs, held)
         \/ Opened(g, held, class)
  BY <1>1, FindIs
<1> HIDE DEF g, held
<1>3. Sized(g.c) /\ ~IsNull(g.c) /\ g.c \in CacheObj /\ g.c.maxmem = c.maxmem /\ g.c.size < g.c.maxmem
      /\ DOMAIN g.c.slabs = DOMAIN c.slabs /\ Len(g.c.slabs) = Len(c.slabs)
  <2>1. Len(g.c.slabs) = Len(c.slabs) /\ DOMAIN g.c.slabs = DOMAIN c.slabs
    BY <1>1, <1>2, SameLength
  <2> QED
    BY <1>1, <1>2, <2>1 DEF Sized, Grown, IsNull
<1>4. CASE g.addr # NULL
  <2>1. r = g
    BY <1>4 DEF free_space, OrExpand, g
  <2> QED
    BY <1>2, <1>3, <1>4, <2>1 DEF held
<1>5. CASE g.addr = NULL
  <2>1. g.c.maxmem \in Nat /\ g.c.size \in Nat
    BY <1>3, Fields
  <2>2. r = h
    BY <1>3, <1>5, <2>1 DEF free_space, OrExpand, g
  <2>3. Sound(g.c.slabs, held)
    BY <1>2, <1>5 DEF Opened
  <2>4. /\ Grown(g.c, x) /\ Sized(x) /\ Sound(x.slabs, held)
        /\ \/ x = g.c /\ g.c.maxmem - g.c.size <= SLABSIZE
           \/ /\ Len(g.c.slabs) \in Nat /\ DOMAIN g.c.slabs = 1 .. Len(g.c.slabs)
              /\ Len(g.c.slabs) + 1 \in DOMAIN x.slabs /\ x.slabs[Len(g.c.slabs) + 1].class = class
    BY <1>3, <2>3, ExpandIs
  <2> HIDE DEF x
  <2>5. x \in CacheObj
    BY <2>4 DEF Grown
  <2>6. /\ Grown(x, h.c) /\ SameShape(x.slabs, h.c.slabs) /\ h.c.size = x.size
        /\ \/ h.addr = NULL /\ Sound(h.c.slabs, held) /\ Exhausted(h.c.slabs, class) /\ Exhausted(x.slabs, class)
           \/ Opened(h, held, class)
    BY <2>4, <2>5, FindIs
  <2> HIDE DEF h, r
  <2>7. Grown(c, h.c)
    <3>1. Grown(c, x)
      BY <1>1, <1>2, <2>4, GrownOn
    <3> QED
      BY <1>1, <2>6, <3>1, GrownOn
  <2>8. Sized(h.c) /\ h.c.maxmem = x.maxmem /\ x.maxmem = g.c.maxmem
    <3>1. Len(h.c.slabs) = Len(x.slabs)
      <4>1. x.slabs \in Seq(Slab)
        BY <2>5, Fields
      <4> QED
        BY <2>6, <4>1, SameLength
    <3> QED
      BY <2>4, <2>6, <3>1 DEF Sized, Grown, IsNull
  <2>9. ASSUME h.addr = NULL, Exhausted(x.slabs, class)
        PROVE  Filled(c, h.c)
    <3>1. CASE x = g.c /\ g.c.maxmem - g.c.size <= SLABSIZE
      BY <2>6, <2>8, <3>1 DEF Filled
    <3>2. CASE /\ Len(g.c.slabs) \in Nat /\ DOMAIN g.c.slabs = 1 .. Len(g.c.slabs)
               /\ Len(g.c.slabs) + 1 \in DOMAIN x.slabs /\ x.slabs[Len(g.c.slabs) + 1].class = class
      <4> DEFINE n == Len(c.slabs) + 1
      <4>1. n \in DOMAIN x.slabs /\ x.slabs[n].class = class /\ n \notin DOMAIN c.slabs /\ n > Len(c.slabs)
        BY <1>3, <3>2
      <4>2. \A a \in held : a.slab # n
        BY <1>1, <4>1, GiveBackShape
      <4>3. get_free_index(x.slabs[n].status) = 0
        BY <2>9, <4>1 DEF Exhausted
      <4>4. Entries(x.slabs[n].class) \subseteq x.slabs[n].junk
        BY <2>4, <4>1, <4>2, <4>3, DirtyAllOver
      <4> QED
        BY <2>6, <4>1, <4>4 DEF Filled, SameShape
    <3> QED
      BY <2>4, <3>1, <3>2
  <2> QED
    BY <2>2, <2>6, <2>7, <2>8, <2>9 DEF held, r
<1> QED
  BY <1>4, <1>5

\* Everything but the entry at addr, of the class, is accounted for: the state
\* between free_space and the insertion of the meta.
Ready(d, addr, class) ==
  /\ Orderly(d) /\ ~IsNull(d)
  /\ addr # NULL /\ addr \in Address /\ addr \notin AddressesOf(d)
  /\ addr.slab \in DOMAIN d.slabs /\ d.slabs[addr.slab].class = class
  /\ Sound(d.slabs, AddressesOf(d) \cup {addr})

\* More slabs do not disturb the key table.
LEMMA GrownOrderly ==
  ASSUME NEW c, Good(c), NEW d, Grown(c, d), Sized(d)
  PROVE  /\ Orderly(d) /\ AddressesOf(d) = AddressesOf(c) /\ Places(d) = Places(c)
         /\ \A x \in Places(c) : MetaAt(d, x) = MetaAt(c, x)
         /\ \A k \in Keys : ValueOf(d, k) = ValueOf(c, k)
         /\ IsNull(d) <=> IsNull(c)
<1>1. /\ d \in CacheObj /\ d.buckets = c.buckets /\ d.maxmem = c.maxmem /\ d.num_values = c.num_values
      /\ \A n \in DOMAIN c.slabs : d.slabs[n].class = c.slabs[n].class
  BY DEF Grown
<1>2. c \in CacheObj /\ Tidy(c) /\ Classed(c) /\ Counted(c) /\ Void(c) /\ Sound(c.slabs, AddressesOf(c))
  BY DEF Good, Orderly
<1>3. Places(d) = Places(c) /\ \A x : MetaAt(d, x) = MetaAt(c, x)
  BY <1>1 DEF Places, MetaAt
<1>4. AddressesOf(d) = AddressesOf(c)
  BY <1>3 DEF AddressesOf
<1>5. Tidy(d) /\ Counted(d) /\ Void(d)
  BY <1>1, <1>2, <1>3 DEF Tidy, Counted, Void, IsNull
<1>6. Classed(d)
  <2>1. \A x \in Places(c) : MetaAt(c, x).address.slab \in DOMAIN c.slabs
    BY <1>2, GiveBackShape DEF AddressesOf
  <2> QED
    BY <1>1, <1>2, <1>3, <2>1 DEF Classed
<1>7. \A k \in Keys : ValueOf(d, k) = ValueOf(c, k)
  BY <1>1 DEF ValueOf, get_meta, Hits
<1> QED
  BY <1>1, <1>3, <1>4, <1>5, <1>6, <1>7 DEF Orderly, IsNull

\* The bits follow from the held addresses, so a class is exhausted for both or
\* for neither of two lists of the same shape with the same addresses held.
LEMMA SameBits ==
  ASSUME NEW slabs, NEW new, NEW held, Sound(slabs, held), Sound(new, held), SameShape(slabs, new),
         NEW class, Exhausted(slabs, class)
  PROVE  Exhausted(new, class)
<1>1. /\ DOMAIN new = DOMAIN slabs /\ new \in Seq(Slab) /\ slabs \in Seq(Slab)
      /\ \A n \in DOMAIN slabs : new[n].class = slabs[n].class /\ new[n].junk = slabs[n].junk
  BY DEF SameShape, Sound
<1>2. ASSUME NEW n \in DOMAIN new, new[n].class = class
      PROVE  get_free_index(new[n].status) = 0
  <2>1. slabs[n].status \in Status /\ new[n].status \in Status
    BY <1>1, SlabFields
  <2>2. \A i \in Bits : BitSet(slabs[n].status, i)
    BY <1>1, <1>2, <2>1, FreeIndex DEF Exhausted
  <2>3. \A i : EntryAddr(new, n, i) = EntryAddr(slabs, n, i)
    BY <1>1 DEF EntryAddr
  <2>4. \A i \in Bits : BitSet(new[n].status, i)
    BY <1>1, <2>2, <2>3 DEF Sound, BitsMatch, Bits
  <2> QED
    BY <2>1, <2>4, FreeIndex
<1> QED
  BY <1>2 DEF Exhausted

\* The entry at `a` is the only one of the class with a clear bit.
OnlyClear(slabs, class, a) ==
  \A n \in DOMAIN slabs : \A e \in Entries(class) :
    slabs[n].class = class /\ ~BitSet(slabs[n].status, e) => EntryAddr(slabs, n, e) = a

\* After one entry of an exhausted class is given back, its bit is the only clear
\* one of the class.
LEMMA OnlyTheFreed ==
  ASSUME NEW slabs, NEW new, NEW held, NEW a \in held, NEW class,
         Sound(slabs, held), Exhausted(slabs, class),
         Sound(new, held \ {a}), SameShape(slabs, new), slabs[a.slab].class = class
  PROVE  ~Exhausted(new, class) /\ OnlyClear(new, class, a)
<1>1. /\ DOMAIN new = DOMAIN slabs /\ new \in Seq(Slab) /\ slabs \in Seq(Slab)
      /\ \A n \in DOMAIN slabs : new[n].class = slabs[n].class /\ new[n].junk = slabs[n].junk
  BY DEF SameShape, Sound
<1>2. \A n \in DOMAIN slabs : \A i : EntryAddr(new, n, i) = EntryAddr(slabs, n, i)
  BY <1>1 DEF EntryAddr
<1>3. ASSUME Exhausted(new, class)
      PROVE  FALSE
  <2>1. PICK f \in DOMAIN slabs : \E i \in Entries(slabs[f].class) : a = EntryAddr(slabs, f, i)
    BY DEF Sound, HeldAreEntries
  <2>2. PICK e \in Entries(slabs[f].class) : a = EntryAddr(slabs, f, e)
    BY <2>1
  <2>3. a.slab = f
    BY <2>2 DEF EntryAddr
  <2>4. slabs[f].class \in Classes /\ new[f].status \in Status
    BY <1>1, SlabFields
  <2>5. e \in Bits
    BY <2>4, EntryFacts
  <2>6. BitSet(new[f].status, e)
    BY <1>1, <1>3, <2>3, <2>4, <2>5, FreeIndex DEF Exhausted
  <2>7. e \notin slabs[f].junk
    BY <2>2 DEF Sound, JunkApart
  <2> QED
    BY <1>1, <1>2, <2>2, <2>5, <2>6, <2>7 DEF Sound, BitsMatch, Bits
<1>4. ASSUME NEW n \in DOMAIN new, NEW e \in Entries(class), new[n].class = class, ~BitSet(new[n].status, e)
      PROVE  EntryAddr(new, n, e) = a
  <2>1. slabs[n].class = class /\ class \in Classes /\ slabs[n].status \in Status
    BY <1>1, <1>4, SlabFields
  <2>2. e \in Bits
    BY <2>1, EntryFacts
  <2>3. BitSet(slabs[n].status, e)
    BY <1>1, <2>1, <2>2, FreeIndex DEF Exhausted
  <2>4. EntryAddr(slabs, n, e) \in held \/ e \in slabs[n].junk
    BY <1>1, <2>1, <2>2, <2>3 DEF Sound, BitsMatch, Bits
  <2>5. EntryAddr(new, n, e) \notin held \ {a} /\ e \notin new[n].junk
    BY <1>4, <2>2 DEF Sound, BitsMatch, Bits
  <2> QED
    BY <1>1, <1>2, <2>4, <2>5
<1> QED
  BY <1>3, <1>4 DEF OnlyClear

\* The value at place x of c had to make room for one of the class in d.
Forced(c, d, class, x) ==
  /\ Oldest(c, class, x)
  /\ \A k \in Keys : ValueOf(d, k) = IF MetaAt(c, x).name = Lookup(k) THEN Nil ELSE ValueOf(c, k)
  /\ Exhausted(d.slabs, class)
  /\ Filled(c, d)

\* What free_space, and cache_evict and free_space again, make of a cache.
MadeRoom(c, r, class) ==
  /\ r.c.maxmem = c.maxmem
  /\ \/ /\ r.addr = NULL /\ Good(r.c) /\ Places(r.c) = Places(c)
        /\ \A k \in Keys : ValueOf(r.c, k) = ValueOf(c, k)
     \/ Ready(r.c, r.addr, class) /\ \A k \in Keys : ValueOf(r.c, k) = ValueOf(c, k)
     \/ Ready(r.c, r.addr, class) /\ \E x \in Places(c) : Forced(c, r.c, class, x)

\* free_space alone.
LEMMA FreeSpaceMakes ==
  ASSUME NEW c, Good(c), ~IsNull(c), NEW class \in Classes, NEW dirt \in SUBSET AllOnes
  PROVE  LET r == free_space(c, class, dirt) IN
         /\ MadeRoom(c, r, class) /\ Grown(c, r.c) /\ Places(r.c) = Places(c)
         /\ \A x \in Places(c) : MetaAt(r.c, x) = MetaAt(c, x)
         /\ \A k \in Keys : ValueOf(r.c, k) = ValueOf(c, k)
         /\ r.addr = NULL => Good(r.c) /\ ~IsNull(r.c) /\ Exhausted(r.c.slabs, class) /\ Filled(c, r.c)
<1> DEFINE r == free_space(c, class, dirt)
<1>1. /\ Grown(c, r.c) /\ Sized(r.c)
      /\ \/ /\ r.addr = NULL /\ Sound(r.c.slabs, AddressesOf(c))
            /\ Exhausted(r.c.slabs, class) /\ Filled(c, r.c)
         \/ Opened(r, AddressesOf(c), class)
  BY FreeSpaceIs
<1> HIDE DEF r
<1>2. /\ Orderly(r.c) /\ AddressesOf(r.c) = AddressesOf(c) /\ Places(r.c) = Places(c)
      /\ \A x \in Places(c) : MetaAt(r.c, x) = MetaAt(c, x)
      /\ \A k \in Keys : ValueOf(r.c, k) = ValueOf(c, k)
      /\ ~IsNull(r.c)
  BY <1>1, GrownOrderly
<1>3. r.c.maxmem = c.maxmem
  BY <1>1 DEF Grown
<1>4. CASE /\ r.addr = NULL /\ Sound(r.c.slabs, AddressesOf(c))
           /\ Exhausted(r.c.slabs, class) /\ Filled(c, r.c)
  BY <1>1, <1>2, <1>3, <1>4 DEF MadeRoom, Good, r
<1>5. CASE Opened(r, AddressesOf(c), class)
  <2>1. Ready(r.c, r.addr, class) /\ r.addr # NULL
    BY <1>2, <1>5 DEF Opened, Ready
  <2> QED
    BY <1>1, <1>2, <1>3, <2>1 DEF MadeRoom, r
<1> QED
  BY <1>1, <1>4, <1>5

\* r has an entry of the class ready, the only one there was in a cache like c.
Refilled(c, r, class) ==
  /\ Ready(r.c, r.addr, class) /\ Exhausted(r.c.slabs, class)
  /\ r.c.maxmem = c.maxmem /\ r.c.size = c.size /\ SameShape(c.slabs, r.c.slabs)

\* After an eviction from an exhausted class, the search finds the freed entry
\* and the class is exhausted again.
LEMMA EvictMakes ==
  ASSUME NEW c, Good(c), ~IsNull(c), NEW class \in Classes, Exhausted(c.slabs, class),
         NEW e, NEW x \in Places(c), MetaAt(c, x).slab_class = class, Deleted(c, e, x), NEW dirt
  PROVE  /\ Refilled(c, free_space(e, class, dirt), class)
         /\ \A k \in Keys : ValueOf(free_space(e, class, dirt).c, k) = ValueOf(e, k)
<1> DEFINE a == MetaAt(c, x).address
           held == AddressesOf(c)
           r == Find(e, class)
<1>1. /\ Good(e) /\ e.maxmem = c.maxmem /\ e.size = c.size /\ SameShape(c.slabs, e.slabs)
      /\ AddressesOf(e) = held \ {a}
  BY DEF Deleted
<1>2. c \in CacheObj /\ Classed(c) /\ Sound(c.slabs, held)
  BY DEF Good, Orderly
<1>3. e \in CacheObj /\ Sized(e) /\ Sound(e.slabs, held \ {a}) /\ ~IsNull(e)
  BY <1>1 DEF Good, Orderly, IsNull
<1>4. a \in held /\ c.slabs[a.slab].class = class
  BY <1>2 DEF Classed, AddressesOf
<1> HIDE DEF a, held
<1>5. ~Exhausted(e.slabs, class) /\ OnlyClear(e.slabs, class, a)
  BY <1>1, <1>2, <1>3, <1>4, OnlyTheFreed
<1>6. /\ Grown(e, r.c) /\ SameShape(e.slabs, r.c.slabs) /\ r.c.size = e.size
      /\ Opened(r, held \ {a}, class)
      /\ \E i \in Entries(class) : /\ r.addr = EntryAddr(e.slabs, r.addr.slab, i)
                                   /\ ~BitSet(e.slabs[r.addr.slab].status, i)
  BY <1>3, <1>5, FindIs
<1>7. free_space(e, class, dirt) = r
  BY <1>6 DEF free_space, OrExpand, Opened
<1> HIDE DEF r
<1>8. /\ DOMAIN r.c.slabs = DOMAIN e.slabs /\ DOMAIN e.slabs = DOMAIN c.slabs
      /\ r.c.slabs \in Seq(Slab) /\ e.slabs \in Seq(Slab) /\ c.slabs \in Seq(Slab)
      /\ \A n \in DOMAIN e.slabs : r.c.slabs[n].class = e.slabs[n].class
      /\ SameShape(c.slabs, r.c.slabs)
  BY <1>1, <1>2, <1>6, Fields DEF SameShape
<1>9. r.addr = a
  BY <1>5, <1>6, <1>8 DEF Opened, OnlyClear
<1>10. Sound(r.c.slabs, held)
  <2>1. (held \ {a}) \cup {a} = held
    BY <1>4
  <2> QED
    BY <1>6, <1>9, <2>1 DEF Opened
<1>11. Exhausted(r.c.slabs, class)
  BY <1>2, <1>8, <1>10, SameBits
<1>12. Sized(r.c)
  <2>1. Len(r.c.slabs) = Len(e.slabs)
    BY <1>8
  <2> QED
    BY <1>3, <1>6, <2>1 DEF Sized, Grown, IsNull
<1>13. /\ Orderly(r.c) /\ AddressesOf(r.c) = AddressesOf(e) /\ ~IsNull(r.c)
       /\ \A k \in Keys : ValueOf(r.c, k) = ValueOf(e, k)
  BY <1>1, <1>3, <1>6, <1>12, GrownOrderly
<1>14. Ready(r.c, r.addr, class)
  BY <1>1, <1>6, <1>13 DEF Ready, Opened
<1>15. r.c.maxmem = c.maxmem /\ r.c.size = c.size
  BY <1>1, <1>6 DEF Grown
<1> QED
  BY <1>7, <1>8, <1>11, <1>13, <1>14, <1>15 DEF Refilled

\* free_space, and cache_evict and free_space again if it found nothing.
LEMMA MakeRoom ==
  ASSUME NEW c, Good(c), ~IsNull(c), NEW class \in Classes,
         NEW dirt1 \in SUBSET AllOnes, NEW dirt2 \in SUBSET AllOnes
  PROVE  MadeRoom(c, OrEvict(free_space(c, class, dirt1), class, dirt2), class)
<1> DEFINE room == free_space(c, class, dirt1)
           e == cache_evict(room.c, class)
           f == free_space(e, class, dirt2)
           r == OrEvict(room, class, dirt2)
<1>1. /\ MadeRoom(c, room, class) /\ Grown(c, room.c) /\ Places(room.c) = Places(c)
      /\ \A x \in Places(c) : MetaAt(room.c, x) = MetaAt(c, x)
      /\ \A k \in Keys : ValueOf(room.c, k) = ValueOf(c, k)
      /\ room.addr = NULL => Good(room.c) /\ ~IsNull(room.c) /\ Exhausted(room.c.slabs, class) /\ Filled(c, room.c)
  BY FreeSpaceMakes
<1> HIDE DEF room
<1>2. CASE room.addr # NULL
  BY <1>1, <1>2 DEF OrEvict, room
<1>3. CASE room.addr = NULL
  <2>1. r = f
    BY <1>3 DEF OrEvict
  <2>2. Good(room.c) /\ ~IsNull(room.c) /\ room.c.maxmem = c.maxmem
    BY <1>1, <1>3 DEF Grown
  <2>3. \/ e = room.c
        \/ \E x \in Places(room.c) : Oldest(room.c, class, x) /\ Deleted(room.c, e, x)
    BY <2>2, EvictIs
  <2> HIDE DEF e, r
  <2>4. CASE e = room.c
    <3>1. /\ MadeRoom(room.c, f, class) /\ Places(f.c) = Places(room.c)
          /\ \A k \in Keys : ValueOf(f.c, k) = ValueOf(room.c, k)
      BY <2>2, <2>4, FreeSpaceMakes
    <3> HIDE DEF f
    <3>2. /\ f.c.maxmem = c.maxmem /\ Places(f.c) = Places(c)
          /\ \A k \in Keys : ValueOf(f.c, k) = ValueOf(c, k)
      BY <1>1, <2>2, <3>1 DEF MadeRoom
    <3> QED
      BY <2>1, <3>1, <3>2 DEF MadeRoom, r, room
  <2>5. CASE \E x \in Places(room.c) : Oldest(room.c, class, x) /\ Deleted(room.c, e, x)
    <3>1. PICK x \in Places(room.c) : Oldest(room.c, class, x) /\ Deleted(room.c, e, x)
      BY <2>5
    <3>2. Refilled(room.c, f, class) /\ \A k \in Keys : ValueOf(f.c, k) = ValueOf(e, k)
      <4>1. Exhausted(room.c.slabs, class) /\ MetaAt(room.c, x).slab_class = class
        BY <1>1, <1>3, <3>1 DEF Oldest
      <4> QED
        BY <2>2, <3>1, <4>1, EvictMakes
    <3> HIDE DEF f
    <3>3. x \in Places(c) /\ MetaAt(room.c, x) = MetaAt(c, x) /\ Oldest(c, class, x)
      BY <1>1, <3>1 DEF Oldest
    <3>4. \A k \in Keys : ValueOf(f.c, k) = IF MetaAt(c, x).name = Lookup(k) THEN Nil ELSE ValueOf(c, k)
      <4>1. \A k \in Keys : ValueOf(e, k) = IF MetaAt(room.c, x).name = Lookup(k) THEN Nil ELSE ValueOf(room.c, k)
        BY <3>1 DEF Deleted
      <4> QED
        BY <1>1, <3>2, <3>3, <4>1
    <3>5. /\ Ready(f.c, f.addr, class) /\ Exhausted(f.c.slabs, class)
          /\ f.c.maxmem = room.c.maxmem /\ f.c.size = room.c.size /\ SameShape(room.c.slabs, f.c.slabs)
      BY <3>2 DEF Refilled
    <3>6. Filled(c, f.c)
      BY <1>1, <1>3, <3>5 DEF Filled, SameShape
    <3>7. Forced(c, f.c, class, x)
      BY <3>3, <3>4, <3>5, <3>6 DEF Forced
    <3>8. MadeRoom(c, f, class)
      BY <2>2, <3>3, <3>5, <3>7 DEF MadeRoom
    <3> QED
      BY <2>1, <3>8 DEF r, room
  <2> QED
    BY <2>3, <2>4, <2>5
<1> QED
  BY <1>2, <1>3

-----------------------------------------------------------------------------
\* Storing.

\* Nobody points to the new entry, so writing to it changes no value.
LEMMA WriteIs ==
  ASSUME NEW c \in CacheObj, NEW addr, addr \notin AddressesOf(c), NEW val
  PROVE  Write(c, addr, val) = c
<1> DEFINE W1(b, p) == IF c.buckets[b][p].address = addr THEN [c.buckets[b][p] EXCEPT !.val = val]
                       ELSE c.buckets[b][p]
           bk == [b \in Buckets |-> [p \in DOMAIN c.buckets[b] |-> W1(b, p)]]
<1>1. ASSUME NEW b \in Buckets, NEW p \in DOMAIN c.buckets[b]
      PROVE  W1(b, p) = c.buckets[b][p]
  <2>1. <<b, p>> \in Places(c) /\ MetaAt(c, <<b, p>>) = c.buckets[b][p]
    BY PlaceIs DEF MetaAt
  <2>2. c.buckets[b][p].address \in AddressesOf(c)
    BY <2>1 DEF AddressesOf
  <2> QED
    BY <2>2
<1> HIDE DEF W1
<1>2. \A b \in Buckets : [p \in DOMAIN c.buckets[b] |-> W1(b, p)] = c.buckets[b]
  <2> TAKE b \in Buckets
  <2>1. c.buckets[b] \in Seq(Meta)
    BY Fields
  <2>2. c.buckets[b] = [p \in DOMAIN c.buckets[b] |-> c.buckets[b][p]]
    BY <2>1
  <2> QED
    BY <1>1, <2>2
<1>3. c.buckets = [b \in Buckets |-> c.buckets[b]]
  BY Fields
<1>4. bk = c.buckets
  BY <1>2, <1>3
<1>5. Write(c, addr, val) = [c EXCEPT !.buckets = bk]
  BY DEF Write, W1
<1> QED
  BY <1>4, <1>5 DEF CacheObj

\* Bucket b of d has m at its end in addition, at place z.
Longer(c, d, b, m) ==
  /\ d.buckets[b] = Append(c.buckets[b], m)
  /\ \A o \in Buckets : o # b => d.buckets[o] = c.buckets[o]

OneMore(c, d, b, m, z) ==
  /\ Places(d) = Places(c) \cup {z} /\ z \notin Places(c)
  /\ MetaAt(d, z) = m /\ z[1] = b
  /\ \A x \in Places(c) : MetaAt(d, x) = MetaAt(c, x)

\* Appending to a bucket adds one place.
LEMMA AppendMoves ==
  ASSUME NEW c \in CacheObj, NEW d \in CacheObj, NEW b \in Buckets, NEW m \in Meta, Longer(c, d, b, m)
  PROVE  \E z : OneMore(c, d, b, m, z)
<1> DEFINE s == c.buckets[b]
           u == d.buckets[b]
           z == <<b, Len(s) + 1>>
<1>1. s \in Seq(Meta) /\ Len(s) \in Nat
  BY Fields
<1>2. u = Append(s, m) /\ \A o \in Buckets : o # b => d.buckets[o] = c.buckets[o]
  BY DEF Longer
<1>3. /\ u \in Seq(Meta) /\ Len(u) = Len(s) + 1 /\ u[Len(s) + 1] = m
      /\ \A q \in 1 .. Len(s) : u[q] = s[q]
  <2> HIDE DEF u
  <2> QED
    BY <1>1, <1>2, AppendProperties
<1> HIDE DEF s, u
<1>4. z \in Places(d) /\ MetaAt(d, z) = m
  <2>1. Len(s) + 1 \in 1 .. Len(u)
    BY <1>1, <1>3
  <2>2. <<b, Len(s) + 1>> \in Places(d) /\ MetaAt(d, <<b, Len(s) + 1>>) = u[Len(s) + 1]
    BY <2>1, PositionIs DEF u
  <2> QED
    BY <1>3, <2>2
<1>5. z \notin Places(c)
  <2> SUFFICES ASSUME z \in Places(c) PROVE FALSE
    OBVIOUS
  <2>1. z[1] \in Buckets /\ z[2] \in 1 .. Len(c.buckets[z[1]])
    BY MetaIs
  <2>2. Len(s) + 1 \in 1 .. Len(s)
    BY <2>1 DEF s
  <2> QED
    BY <1>1, <2>2
<1>6. ASSUME NEW x \in Places(c)
      PROVE  x \in Places(d) /\ MetaAt(d, x) = MetaAt(c, x)
  <2>1. /\ x[1] \in Buckets /\ x[2] \in 1 .. Len(c.buckets[x[1]]) /\ x = <<x[1], x[2]>>
        /\ MetaAt(c, x) = c.buckets[x[1]][x[2]]
    BY MetaIs
  <2>2. CASE x[1] = b
    <3>1. x[2] \in 1 .. Len(u) /\ u[x[2]] = s[x[2]]
      BY <1>1, <1>3, <2>1, <2>2 DEF s
    <3>2. <<b, x[2]>> \in Places(d) /\ MetaAt(d, <<b, x[2]>>) = u[x[2]]
      BY <3>1, PositionIs DEF u
    <3> QED
      BY <2>1, <2>2, <3>1, <3>2 DEF s
  <2>3. CASE x[1] # b
    <3>1. x[2] \in 1 .. Len(d.buckets[x[1]]) /\ d.buckets[x[1]][x[2]] = MetaAt(c, x)
      BY <1>2, <2>1, <2>3
    <3>2. <<x[1], x[2]>> \in Places(d) /\ MetaAt(d, <<x[1], x[2]>>) = d.buckets[x[1]][x[2]]
      BY <2>1, <3>1, PositionIs
    <3> QED
      BY <2>1, <3>1, <3>2
  <2> QED
    BY <2>2, <2>3
<1>7. ASSUME NEW x \in Places(d), x # z
      PROVE  x \in Places(c)
  <2>1. x[1] \in Buckets /\ x[2] \in 1 .. Len(d.buckets[x[1]]) /\ x = <<x[1], x[2]>>
    BY MetaIs
  <2>2. CASE x[1] = b
    <3>1. x[2] \in 1 .. Len(s)
      BY <1>1, <1>3, <1>7, <2>1, <2>2 DEF u
    <3>2. <<b, x[2]>> \in Places(c)
      BY <3>1, PositionIs DEF s
    <3> QED
      BY <2>1, <2>2, <3>2
  <2>3. CASE x[1] # b
    <3>1. x[2] \in 1 .. Len(c.buckets[x[1]])
      BY <1>2, <2>1, <2>3
    <3>2. <<x[1], x[2]>> \in Places(c)
      BY <2>1, <3>1, PositionIs
    <3> QED
      BY <2>1, <3>2
  <2> QED
    BY <2>2, <2>3
<1>8. Places(d) = Places(c) \cup {z}
  BY <1>4, <1>6, <1>7
<1>9. z[1] = b
  OBVIOUS
<1> HIDE DEF z
<1> QED
  BY <1>4, <1>5, <1>6, <1>8, <1>9 DEF OneMore

\* The new meta.
LEMMA NewMeta ==
  ASSUME NEW key \in Keys, NEW tail \in -1 .. (NB - 1), NEW val \in Values, NEW addr \in Address,
         NEW class \in Classes
  PROVE  LET m == create_meta(key, tail, val, addr, class) IN
         /\ m \in Meta /\ m.address = addr /\ m.slab_class = class /\ m.val = val /\ m.timer = 0
         /\ m.size = val.size /\ m.name.key = key /\ m.name.tail = tail
         /\ m.name.at = IF tail = -1 THEN NULL ELSE addr
         /\ tail = -1 => m.name = Lookup(key)
<1>1. val.size \in Nat /\ 0 \in 0 .. (TimerMod - 1) /\ NB \in Nat \ {0}
  BY CacheAssumption
<1>2. NULL \in Address
  BY DEF NULL, Address
<1> QED
  BY <1>1, <1>2 DEF create_meta, Meta, Name, Lookup

\* The effect of a store on the whole: e is d with val under the key, or under a
\* name that no lookup finds.
Stored(d, e, key, tail, val) ==
  /\ Good(e) /\ e.slabs = d.slabs /\ e.maxmem = d.maxmem /\ e.size = d.size
  /\ \A k \in Keys : ValueOf(e, k) = IF k = key THEN (IF tail = -1 THEN val ELSE Nil) ELSE ValueOf(d, k)
  /\ \A x \in Places(e) : MetaAt(e, x).name = Lookup(key) => MetaAt(e, x).timer = 0

\* The meta of a store goes to the end of its bucket, and restores the invariant.
LEMMA AppendStores ==
  ASSUME NEW d, NEW key \in Keys, NEW tail \in -1 .. (NB - 1), NEW val \in Values, NEW addr,
         val.nul, Ready(d, addr, get_slab_class(val.size)), ValueOf(d, key) = Nil,
         NEW e, e = [d EXCEPT !.buckets[Bucket(Lookup(key))] =
                       LL_append(@, create_meta(key, tail, val, addr, get_slab_class(val.size))),
                     !.num_values = @ + 1]
  PROVE  Stored(d, e, key, tail, val)
<1> DEFINE class == get_slab_class(val.size)
           m == create_meta(key, tail, val, addr, class)
           b == Bucket(Lookup(key))
<1>1. /\ d \in CacheObj /\ Tidy(d) /\ Classed(d) /\ Counted(d) /\ Sized(d) /\ ~IsNull(d)
      /\ addr # NULL /\ addr \in Address /\ addr \notin AddressesOf(d)
      /\ d.slabs[addr.slab].class = class /\ Sound(d.slabs, AddressesOf(d) \cup {addr})
  BY DEF Ready, Orderly
<1>2. class \in Classes /\ val.size \in Nat
  BY SlabClass, CacheAssumption
<1>3. b \in Buckets /\ Lookup(key) \in Name
  BY LookupIs, BucketIs
<1>4. /\ m \in Meta /\ m.address = addr /\ m.slab_class = class /\ m.val = val /\ m.timer = 0
      /\ m.size = val.size /\ m.name.key = key /\ m.name.tail = tail
      /\ m.name.at = IF tail = -1 THEN NULL ELSE addr
      /\ tail = -1 => m.name = Lookup(key)
  BY <1>1, <1>2, NewMeta
<1> HIDE DEF m, b
<1>5. /\ e \in CacheObj /\ e.maxmem = d.maxmem /\ e.size = d.size /\ e.slabs = d.slabs
      /\ e.num_values = d.num_values + 1
      /\ e.buckets = [d.buckets EXCEPT ![b] = LL_append(@, m)]
  <2> DEFINE bk == [d.buckets EXCEPT ![b] = LL_append(@, m)]
  <2>1. d.buckets \in [Buckets -> Seq(Meta)] /\ d.num_values \in Int
    BY <1>1, Fields
  <2>2. LL_append(d.buckets[b], m) \in Seq(Meta)
    BY <1>3, <1>4, <2>1 DEF LL_append
  <2>3. bk \in [Buckets -> Seq(Meta)] /\ d.num_values + 1 \in Int
    BY <1>3, <2>1, <2>2
  <2>4. e = [d EXCEPT !.buckets = bk, !.num_values = d.num_values + 1]
    BY <1>1 DEF m, b, CacheObj
  <2> HIDE DEF bk
  <2>5. /\ e \in CacheObj /\ e.maxmem = d.maxmem /\ e.size = d.size /\ e.slabs = d.slabs
        /\ e.num_values = d.num_values + 1 /\ e.buckets = bk
    BY <1>1, <2>1, <2>3, <2>4 DEF CacheObj
  <2> QED
    BY <2>5 DEF bk
<1>6a. Longer(d, e, b, m)
  <2>1. d.buckets \in [Buckets -> Seq(Meta)]
    BY <1>1, Fields
  <2> QED
    BY <1>3, <1>5, <2>1 DEF LL_append, Longer
<1>6b. PICK z : OneMore(d, e, b, m, z)
  <2>1. d \in CacheObj /\ e \in CacheObj /\ b \in Buckets /\ m \in Meta
    BY <1>1, <1>3, <1>4, <1>5
  <2> QED
    BY <1>6a, <2>1, AppendMoves
<1>6. /\ Places(e) = Places(d) \cup {z} /\ z \notin Places(d)
      /\ MetaAt(e, z) = m /\ z[1] = b
      /\ \A x \in Places(d) : MetaAt(e, x) = MetaAt(d, x)
  BY <1>6b DEF OneMore
<1> HIDE DEF class
<1>7. AddressesOf(e) = AddressesOf(d) \cup {addr}
  BY <1>4, <1>6 DEF AddressesOf
<1>8. \A x \in Places(d) : MetaAt(d, x).address # addr
  BY <1>1 DEF AddressesOf
<1>9. \A x \in Places(d) : MetaAt(d, x).name # Lookup(key)
  BY <1>1, ValueHere
<1>10. \A x \in Places(d) : MetaAt(d, x).name # m.name
  <2> TAKE x \in Places(d)
  <2>1. CASE tail = -1
    BY <1>4, <1>9, <2>1
  <2>2. CASE tail # -1
    <3>1. MetaAt(d, x).name.at = IF MetaAt(d, x).name.tail = -1 THEN NULL ELSE MetaAt(d, x).address
      BY <1>1 DEF Tidy, Rightful
    <3> QED
      BY <1>4, <1>8, <2>2, <3>1
  <2> QED
    BY <2>1, <2>2
<1>11. Rightful(b, m)
  BY <1>4 DEF Rightful, b, class
<1>12. Tidy(e)
  <2>1. ASSUME NEW x \in Places(e), NEW y \in Places(e), x # y
        PROVE  MetaAt(e, x).address # MetaAt(e, y).address /\ MetaAt(e, x).name # MetaAt(e, y).name
    <3>1. CASE x \in Places(d) /\ y \in Places(d)
      BY <1>1, <1>6, <2>1, <3>1 DEF Tidy
    <3>2. CASE x = z /\ y \in Places(d)
      BY <1>4, <1>6, <1>8, <1>10, <3>2
    <3>3. CASE y = z /\ x \in Places(d)
      BY <1>4, <1>6, <1>8, <1>10, <3>3
    <3> QED
      BY <1>6, <2>1, <3>1, <3>2, <3>3
  <2>2. ASSUME NEW x \in Places(e)
        PROVE  Rightful(x[1], MetaAt(e, x))
    BY <1>1, <1>6, <1>11 DEF Tidy
  <2> QED
    BY <2>1, <2>2 DEF Tidy
<1>13. Classed(e)
  BY <1>1, <1>4, <1>5, <1>6 DEF Classed
<1>14. Counted(e)
  BY <1>1, <1>5, <1>6, FS_AddElement DEF Counted
<1>15. Sized(e) /\ Void(e)
  BY <1>1, <1>5 DEF Sized, Void, IsNull
<1>16. Good(e)
  BY <1>1, <1>5, <1>7, <1>12, <1>13, <1>14, <1>15 DEF Good, Orderly
<1>17. ASSUME NEW k \in Keys
       PROVE  ValueOf(e, k) = IF k = key THEN (IF tail = -1 THEN val ELSE Nil) ELSE ValueOf(d, k)
  <2>1. k # key => m.name # Lookup(k)
    BY <1>4, LookupIs
  <2>2. CASE k = key /\ tail = -1
    BY <1>4, <1>5, <1>6, <1>12, <2>2, ValueHere
  <2>3. CASE k = key /\ tail # -1
    <3>1. m.name # Lookup(key)
      BY <1>4, <2>3, LookupIs
    <3>2. \A x \in Places(e) : MetaAt(e, x).name # Lookup(k)
      BY <1>6, <1>9, <2>3, <3>1
    <3> QED
      BY <1>5, <2>3, <3>2, ValueNone
  <2>4. CASE k # key /\ \E x \in Places(d) : MetaAt(d, x).name = Lookup(k)
    <3>1. PICK x \in Places(d) : MetaAt(d, x).name = Lookup(k)
      BY <2>4
    <3>2. ValueOf(d, k) = MetaAt(d, x).val
      BY <1>1, <3>1, ValueHere
    <3>3. x \in Places(e) /\ MetaAt(e, x) = MetaAt(d, x)
      BY <1>6
    <3>4. ValueOf(e, k) = MetaAt(e, x).val
      BY <1>5, <1>12, <3>1, <3>3, ValueHere
    <3> QED
      BY <2>4, <3>2, <3>3, <3>4
  <2>5. CASE k # key /\ \A x \in Places(d) : MetaAt(d, x).name # Lookup(k)
    <3>1. \A x \in Places(e) : MetaAt(e, x).name # Lookup(k)
      BY <1>6, <2>1, <2>5
    <3>2. ValueOf(e, k) = Nil
      BY <1>5, <3>1, ValueNone
    <3>3. ValueOf(d, k) = Nil
      BY <1>1, <2>5, ValueNone
    <3> QED
      BY <2>5, <3>2, <3>3
  <2> QED
    BY <2>2, <2>3, <2>4, <2>5
<1>18. \A x \in Places(e) : MetaAt(e, x).name = Lookup(key) => MetaAt(e, x).timer = 0
  BY <1>4, <1>6, <1>9
<1> QED
  BY <1>5, <1>16, <1>17, <1>18 DEF Stored

\* Insert stores the value.
LEMMA InsertIs ==
  ASSUME NEW d, NEW key \in Keys, NEW tail \in -1 .. (NB - 1), NEW val \in Values, NEW addr,
         val.nul, Ready(d, addr, get_slab_class(val.size)), ValueOf(d, key) = Nil
  PROVE  Stored(d, Insert(d, key, tail, val, addr, get_slab_class(val.size)), key, tail, val)
<1> DEFINE class == get_slab_class(val.size)
           w == Write(d, addr, val)
           u == update_timers(w)
           e == Insert(d, key, tail, val, addr, class)
<1>1. Orderly(d) /\ d \in CacheObj /\ addr \notin AddressesOf(d) /\ ~IsNull(d)
  BY DEF Ready, Orderly
<1>2. w = d
  BY <1>1, WriteIs
<1>3. /\ Orderly(u) /\ AddressesOf(u) = AddressesOf(d)
      /\ u.maxmem = d.maxmem /\ u.size = d.size /\ u.slabs = d.slabs
      /\ \A k \in Keys : ValueOf(u, k) = ValueOf(d, k)
  BY <1>1, <1>2, TimersOrderly
<1>4. e = [u EXCEPT !.buckets[Bucket(Lookup(key))] = LL_append(@, create_meta(key, tail, val, addr, class)),
                    !.num_values = @ + 1]
  BY DEF Insert
<1> HIDE DEF u, w, e, class
<1>5. Ready(u, addr, class)
  BY <1>3 DEF Ready, IsNull, class
<1>6. ValueOf(u, key) = Nil
  BY <1>3
<1>7. Stored(u, e, key, tail, val)
  BY <1>4, <1>5, <1>6, AppendStores DEF class
<1>8. Stored(d, e, key, tail, val)
  BY <1>3, <1>7 DEF Stored
<1> QED
  BY <1>8 DEF e, class

-----------------------------------------------------------------------------
\* The calls of cache.h.

\* A cache that was just created, and no cache, are empty.
LEMMA EmptyGood ==
  ASSUME NEW m \in Nat, m # 0 => 0 < m /\ m <= CAP
  PROVE  LET c == [NullCache EXCEPT !.maxmem = m] IN
         /\ Good(c) /\ Places(c) = {} /\ c.maxmem = m
         /\ \A k \in Keys : ValueOf(c, k) = Nil
<1> DEFINE c == [NullCache EXCEPT !.maxmem = m]
<1>1. << >> \in Seq(Meta) /\ << >> \in Seq(Slab) /\ Len(<< >>) = 0 /\ DOMAIN << >> = {}
  BY EmptySeq
<1>2. c \in CacheObj /\ c.maxmem = m /\ c.size = 0 /\ c.num_values = 0
      /\ c.buckets = [b \in Buckets |-> << >>] /\ c.slabs = << >>
  <2>1. NoBuckets \in [Buckets -> Seq(Meta)] /\ NoBuckets = [b \in Buckets |-> << >>]
    BY <1>1 DEF NoBuckets, LL_create
  <2>2. c = [maxmem |-> m, size |-> 0, num_values |-> 0, buckets |-> NoBuckets, slabs |-> << >>]
    BY DEF NullCache, LL_create
  <2> HIDE DEF c
  <2> QED
    BY <1>1, <2>1, <2>2 DEF CacheObj
<1> HIDE DEF c
<1>3. Places(c) = {}
  BY <1>1, <1>2 DEF Places
<1>4. AddressesOf(c) = {}
  BY <1>3 DEF AddressesOf
<1>5. Tidy(c) /\ Classed(c) /\ Void(c)
  BY <1>3 DEF Tidy, Classed, Void
<1>6. Counted(c)
  BY <1>2, <1>3, FS_EmptySet DEF Counted
<1>7. Sized(c)
  BY <1>1, <1>2, SlabAssumption DEF Sized, IsNull
<1>8. Sound(c.slabs, AddressesOf(c))
  BY <1>2, <1>4, SoundEmpty DEF LL_create
<1>9. \A k \in Keys : ValueOf(c, k) = Nil
  BY <1>2, <1>3, ValueNone
<1> QED
  BY <1>2, <1>3, <1>5, <1>6, <1>7, <1>8, <1>9 DEF Good, Orderly, c

\* NULL.
LEMMA NullIs ==
  /\ Good(NullCache) /\ Places(NullCache) = {} /\ IsNull(NullCache)
  /\ \A k \in Keys : ValueOf(NullCache, k) = Nil
<1>1. NullCache = [NullCache EXCEPT !.maxmem = 0]
  BY DEF NullCache
<1> QED
  BY <1>1, EmptyGood DEF IsNull

\* create_cache: never NULL, never above the cap.
LEMMA CreateIs ==
  ASSUME NEW maxmem \in Nat
  PROVE  LET c == create_cache(maxmem) IN
         /\ Good(c) /\ Places(c) = {} /\ ~IsNull(c)
         /\ \A k \in Keys : ValueOf(c, k) = Nil
<1> DEFINE atleast == IF maxmem < SLABSIZE THEN 2 * SLABSIZE ELSE maxmem
           m == IF atleast > CAP THEN CAP ELSE atleast
<1>1. SLABSIZE \in Nat /\ SLABSIZE > 0 /\ CAP \in Nat /\ 2 * SLABSIZE <= CAP
  BY SlabAssumption, CacheAssumption
<1>2. m \in Nat /\ 0 < m /\ m <= CAP
  BY <1>1
<1>3. create_cache(maxmem) = [NullCache EXCEPT !.maxmem = m]
  BY DEF create_cache
<1> HIDE DEF m
<1> QED
  BY <1>2, <1>3, EmptyGood DEF IsNull

\* cache_delete of a key, by what a get would have returned.
LEMMA DeleteKey ==
  ASSUME NEW c, Good(c), NEW key \in Keys
  PROVE  LET r == cache_delete(c, Lookup(key)) IN
         /\ Good(r.c) /\ r.c.maxmem = c.maxmem /\ Len(r.c.slabs) = Len(c.slabs)
         /\ r.rc \in {0, 255} /\ (r.rc = 0 <=> ValueOf(c, key) # Nil) /\ (r.rc = 255 => r.c = c)
         /\ \A k \in Keys : ValueOf(r.c, k) = IF k = key THEN Nil ELSE ValueOf(c, k)
<1> DEFINE r == cache_delete(c, Lookup(key))
           x == <<Bucket(Lookup(key)), get_meta(c, Lookup(key))>>
<1>1. c \in CacheObj /\ Tidy(c) /\ Void(c)
  BY DEF Good, Orderly
<1>2. Lookup(key) \in Name /\ \A k \in Keys : Lookup(k) = Lookup(key) <=> k = key
  BY LookupIs
<1>3. \/ r.rc = 255 /\ r.c = c /\ (IsNull(c) \/ Hits(c, Lookup(key)) = {})
      \/ /\ r.rc = 0 /\ ~IsNull(c)
         /\ x \in Places(c) /\ MetaAt(c, x).name = Lookup(key) /\ Deleted(c, r.c, x)
  BY <1>2, DeleteIs
<1> HIDE DEF r, x
<1>4. CASE r.rc = 255 /\ r.c = c /\ (IsNull(c) \/ Hits(c, Lookup(key)) = {})
  <2>1. ASSUME NEW y \in Places(c), MetaAt(c, y).name = Lookup(key)
        PROVE  FALSE
    BY <1>1, <1>4, <2>1, PlaceOfKey DEF Void
  <2>2. ValueOf(c, key) = Nil
    BY <1>1, <2>1, ValueNone
  <2> QED
    BY <1>4, <2>2 DEF r
<1>5. CASE /\ r.rc = 0 /\ ~IsNull(c)
           /\ x \in Places(c) /\ MetaAt(c, x).name = Lookup(key) /\ Deleted(c, r.c, x)
  <2>1. ValueOf(c, key) # Nil
    BY <1>1, <1>5, ValueHere
  <2>2. \A k \in Keys : ValueOf(r.c, k) = IF k = key THEN Nil ELSE ValueOf(c, k)
    BY <1>2, <1>5 DEF Deleted
  <2>3. Len(r.c.slabs) = Len(c.slabs)
    <3>1. c.slabs \in Seq(Slab) /\ SameShape(c.slabs, r.c.slabs)
      BY <1>1, <1>5, Fields DEF Deleted
    <3> QED
      BY <3>1, SameLength
  <2>4. Good(r.c) /\ r.c.maxmem = c.maxmem
    BY <1>5 DEF Deleted
  <2> QED
    BY <1>5, <2>1, <2>2, <2>3, <2>4 DEF r
<1> QED
  BY <1>3, <1>4, <1>5

\* cache_get returns the value of the key, if any, and resets its timer.
LEMMA GetIs ==
  ASSUME NEW c, Good(c), NEW key \in Keys
  PROVE  LET r == cache_get(c, key) IN
         /\ Good(r.c) /\ \A k \in Keys : ValueOf(r.c, k) = ValueOf(c, k)
         /\ r.hit \in BOOLEAN /\ (IF r.hit THEN r.val ELSE Nil) = ValueOf(c, key)
         /\ ~r.good => r.hit /\ r.val \in Values /\ r.val.nul /\ r.val.len # r.val.size
         /\ r.good \in BOOLEAN
         /\ \A x \in Places(r.c) : MetaAt(r.c, x).name = Lookup(key) => MetaAt(r.c, x).timer = 0
         /\ Places(r.c) = Places(c) /\ (IsNull(r.c) <=> IsNull(c))
<1> DEFINE r == cache_get(c, key)
           b == Bucket(Lookup(key))
           p == get_meta(c, Lookup(key))
           x == <<b, p>>
           m == c.buckets[b][p]
           bk == [c.buckets EXCEPT ![b] = [c.buckets[b] EXCEPT ![p] = [m EXCEPT !.timer = 0]]]
           d == [c EXCEPT !.buckets = bk]
<1>1. c \in CacheObj /\ Orderly(c) /\ Tidy(c) /\ Void(c) /\ Sound(c.slabs, AddressesOf(c))
  BY DEF Good, Orderly
<1>2. Lookup(key) \in Name /\ b \in Buckets
  BY LookupIs, BucketIs
<1>3. CASE \A y \in Places(c) : MetaAt(c, y).name # Lookup(key)
  <2>1. p = 0 /\ ValueOf(c, key) = Nil
    BY <1>1, <1>3, ValueNone
  <2>2. r = [hit |-> FALSE, good |-> TRUE, c |-> c]
    BY <2>1 DEF cache_get
  <2>3. r.c = c /\ r.hit = FALSE /\ r.good = TRUE
    BY <2>2
  <2> QED
    BY <1>3, <2>1, <2>3
<1>4. CASE \E y \in Places(c) : MetaAt(c, y).name = Lookup(key)
  <2>1. PICK y \in Places(c) : MetaAt(c, y).name = Lookup(key)
    BY <1>4
  <2>2. y = x /\ p # 0 /\ ValueOf(c, key) = MetaAt(c, y).val /\ ~IsNull(c)
    BY <1>1, <2>1, PlaceOfKey, ValueHere DEF Void
  <2>3. /\ p \in 1 .. Len(c.buckets[b]) /\ c.buckets[b] \in Seq(Meta) /\ MetaAt(c, x) = m /\ m \in Meta
        /\ c.buckets \in [Buckets -> Seq(Meta)] /\ x \in Places(c)
    BY <1>1, <1>2, <2>1, <2>2, MetaIs, Fields
  <2>4. m.val \in Values /\ m.val.nul /\ m.size = m.val.size
    BY <1>1, <2>3, MetaFields DEF Tidy, Rightful
  <2>5. r = [hit |-> TRUE, val |-> m.val, good |-> m.val.len = m.size, c |-> d]
    BY <1>1, <2>2 DEF cache_get, CacheObj
  <2> HIDE DEF x, m, p, b
  <2>6. [m EXCEPT !.timer = 0] \in Meta /\ Same([m EXCEPT !.timer = 0], m) /\ [m EXCEPT !.timer = 0].timer = 0
    <3>1. 0 \in 0 .. (TimerMod - 1)
      BY CacheAssumption
    <3>2. LET n == [m EXCEPT !.timer = 0] IN
          /\ n \in Meta /\ n.name = m.name /\ n.address = m.address /\ n.size = m.size
          /\ n.slab_class = m.slab_class /\ n.val = m.val /\ n.timer = 0
      BY <2>3, <3>1, MetaTimer
    <3> QED
      BY <3>2 DEF Same
  <2> DEFINE m0 == [m EXCEPT !.timer = 0]
             s == c.buckets[b]
             s0 == [s EXCEPT ![p] = m0]
  <2> HIDE DEF m0
  <2>7. /\ s0 \in Seq(Meta) /\ Len(s0) = Len(s) /\ s0[p] = m0
        /\ \A q \in 1 .. Len(s) : q # p => s0[q] = s[q]
    BY <2>3, <2>6, ExceptSeq DEF m0
  <2> HIDE DEF s0
  <2>8. bk = [c.buckets EXCEPT ![b] = s0] /\ bk \in [Buckets -> Seq(Meta)]
    BY <1>2, <2>3, <2>7 DEF s0, m0
  <2> HIDE DEF bk, s
  <2>9. /\ d \in CacheObj /\ d.buckets = bk /\ d.maxmem = c.maxmem /\ d.size = c.size
        /\ d.num_values = c.num_values /\ d.slabs = c.slabs
    BY <1>1, <2>8 DEF CacheObj
  <2> HIDE DEF d
  <2>10. d.buckets[b] = s0 /\ \A o \in Buckets : o # b => d.buckets[o] = c.buckets[o]
    BY <1>2, <2>3, <2>8, <2>9
  <2>11. ASSUME NEW o \in Buckets
         PROVE  /\ Len(d.buckets[o]) = Len(c.buckets[o])
                /\ \A q \in 1 .. Len(c.buckets[o]) : Same(d.buckets[o][q], c.buckets[o][q])
    <3>1. \A n : Same(n, n)
      BY DEF Same
    <3>2. Same(s0[p], s[p])
      BY <2>6, <2>7 DEF m0, s, m
    <3> QED
      BY <2>7, <2>10, <3>1, <3>2 DEF s
  <2>12. Still(c, d)
    BY <1>1, <2>9, <2>11, Unmoved
  <2>13. Orderly(d) /\ AddressesOf(d) = AddressesOf(c) /\ \A k \in Keys : ValueOf(d, k) = ValueOf(c, k)
    BY <1>1, <2>9, <2>12, StillOrderly
  <2>14. MetaAt(d, x) = m0
    BY <2>7, <2>10 DEF MetaAt, x
  <2>15. \A z \in Places(d) : MetaAt(d, z).name = Lookup(key) => MetaAt(d, z).timer = 0
    <3>1. Places(d) = Places(c) /\ MetaAt(d, x).name = Lookup(key)
      BY <2>1, <2>2, <2>12 DEF Still, Same
    <3>2. \A z \in Places(d) : MetaAt(d, z).name = Lookup(key) => z = x
      BY <2>3, <2>13, <3>1 DEF Orderly, Tidy
    <3> QED
      BY <2>6, <2>14, <3>2 DEF m0
  <2>16. Good(d) /\ IsNull(d) = IsNull(c) /\ Places(d) = Places(c)
    BY <1>1, <2>9, <2>12, <2>13 DEF Good, IsNull, Still
  <2>17. r.hit /\ r.val = m.val /\ r.good = (m.val.len = m.size) /\ r.c = d
    BY <2>5
  <2> HIDE DEF r
  <2>18. ValueOf(c, key) = m.val
    BY <2>2, <2>3
  <2> QED
    BY <2>4, <2>13, <2>15, <2>16, <2>17, <2>18 DEF r
<1> QED
  BY <1>3, <1>4

\* The old value of the key goes first.
LEMMA DeleteOldIs ==
  ASSUME NEW c, Good(c), NEW key \in Keys
  PROVE  LET d == DeleteOld(c, key) IN
         /\ Good(d) /\ d.maxmem = c.maxmem /\ Len(d.slabs) = Len(c.slabs)
         /\ \A k \in Keys : ValueOf(d, k) = IF k = key THEN Nil ELSE ValueOf(c, k)
         /\ ValueOf(c, key) = Nil => d = c
<1> DEFINE r == cache_delete(c, Lookup(key))
<1>1. /\ Good(r.c) /\ r.c.maxmem = c.maxmem /\ Len(r.c.slabs) = Len(c.slabs)
      /\ r.rc \in {0, 255} /\ (r.rc = 0 <=> ValueOf(c, key) # Nil) /\ (r.rc = 255 => r.c = c)
      /\ \A k \in Keys : ValueOf(r.c, k) = IF k = key THEN Nil ELSE ValueOf(c, k)
  BY DeleteKey
<1>2. CASE get_meta(c, Lookup(key)) # 0
  <2>1. DeleteOld(c, key) = r.c
    BY <1>2 DEF DeleteOld
  <2> QED
    BY <1>1, <2>1
<1>3. CASE get_meta(c, Lookup(key)) = 0
  <2>1. DeleteOld(c, key) = c /\ ValueOf(c, key) = Nil
    BY <1>3 DEF DeleteOld, ValueOf
  <2> QED
    BY <2>1
<1> QED
  BY <1>2, <1>3

\* A set that does not find room has deleted the key's old value, no more.
SetFailed(c, d, key) ==
  /\ Good(d) /\ d.maxmem = c.maxmem
  /\ Places(c) = {} => Places(d) = {}
  /\ \A k \in Keys : ValueOf(d, k) = IF k = key THEN Nil ELSE ValueOf(c, k)

\* When the old value of key is gone no value of the class is older than that of k.
IdleLongest(c, key, class, k) ==
  \A j \in Keys \ {key} : (ValueOf(c, j) # Nil /\ get_slab_class(ValueOf(c, j).size) = class) =>
    TimerOf(DeleteOld(c, key), j) <= TimerOf(DeleteOld(c, key), k)

\* k has lost its value in d for one of the class under another key.
LostFor(c, d, key, class, k) ==
  /\ IdleLongest(c, key, class, k)
  /\ Exhausted(d.slabs, class) /\ Filled(c, d)
  /\ ValueOf(c, key) = Nil =>
       \E x \in Places(c) : MetaAt(c, x).name = Lookup(k) /\ MetaAt(c, x).timer > 0

\* A set that succeeds has stored the value, and cost at most one key its own.
SetDone(c, d, key, tail, val) ==
  /\ Good(d) /\ d.maxmem = c.maxmem
  /\ ValueOf(d, key) = IF tail = -1 THEN val ELSE Nil
  /\ \A x \in Places(d) : MetaAt(d, x).name = Lookup(key) => MetaAt(d, x).timer = 0
  /\ \E lost \in Keys :
       /\ \A k \in Keys \ {key, lost} : ValueOf(d, k) = ValueOf(c, k)
       /\ lost # key => ValueOf(d, lost) = Nil /\ LostFor(c, d, key, get_slab_class(val.size), lost)

\* An eviction costs the key of the evicted meta its value, if a lookup finds it.
LEMMA ForcedLoses ==
  ASSUME NEW c, Good(c), NEW key \in Keys, NEW class,
         NEW d, d = DeleteOld(c, key), NEW r, NEW x \in Places(d), Forced(d, r, class, x),
         NEW e, e.slabs = r.slabs, e.maxmem = r.maxmem, e.size = r.size,
         \A k \in Keys : k # key => ValueOf(e, k) = ValueOf(r, k)
  PROVE  \E lost \in Keys :
           /\ \A k \in Keys \ {key, lost} : ValueOf(e, k) = ValueOf(c, k)
           /\ lost # key => ValueOf(e, lost) = Nil /\ LostFor(c, e, key, class, lost)
<1>1. /\ Good(d) /\ Len(d.slabs) = Len(c.slabs)
      /\ \A k \in Keys : ValueOf(d, k) = IF k = key THEN Nil ELSE ValueOf(c, k)
      /\ ValueOf(c, key) = Nil => d = c
  BY DeleteOldIs
<1>2. /\ Oldest(d, class, x)
      /\ \A k \in Keys : ValueOf(r, k) = IF MetaAt(d, x).name = Lookup(k) THEN Nil ELSE ValueOf(d, k)
      /\ Exhausted(e.slabs, class) /\ Filled(d, e)
  BY DEF Forced, Filled
<1>3. d \in CacheObj /\ Tidy(d)
  BY <1>1 DEF Good, Orderly
<1>4. Filled(c, e)
  BY <1>1, <1>2 DEF Filled
<1>5. CASE \E k \in Keys \ {key} : MetaAt(d, x).name = Lookup(k)
  <2>1. PICK lost \in Keys \ {key} : MetaAt(d, x).name = Lookup(lost)
    BY <1>5
  <2>2. \A k \in Keys : Lookup(k) = Lookup(lost) <=> k = lost
    BY LookupIs
  <2>3. \A k \in Keys \ {key, lost} : ValueOf(e, k) = ValueOf(c, k)
    BY <1>1, <1>2, <2>1, <2>2
  <2>4. ValueOf(e, lost) = Nil /\ ValueOf(d, lost) = ValueOf(c, lost)
    BY <1>1, <1>2, <2>1
  <2>5. TimerOf(d, lost) = MetaAt(d, x).timer
    BY <1>3, <2>1, TimerHere
  <2>6. IdleLongest(c, key, class, lost)
    <3> SUFFICES ASSUME NEW j \in Keys \ {key}, ValueOf(c, j) # Nil, get_slab_class(ValueOf(c, j).size) = class
                 PROVE  TimerOf(d, j) <= TimerOf(d, lost)
      BY DEF IdleLongest
    <3>1. ValueOf(d, j) = ValueOf(c, j)
      BY <1>1
    <3>2. PICK y \in Places(d) : MetaAt(d, y).name = Lookup(j)
      BY <1>3, <3>1, ValueNone
    <3>3. ValueOf(d, j) = MetaAt(d, y).val /\ TimerOf(d, j) = MetaAt(d, y).timer
      BY <1>3, <3>2, ValueHere, TimerHere
    <3>4. Rightful(y[1], MetaAt(d, y))
      BY <1>3 DEF Tidy
    <3>5. MetaAt(d, y).slab_class = class
      BY <3>1, <3>3, <3>4 DEF Rightful
    <3> QED
      BY <1>2, <2>5, <3>3, <3>5 DEF Oldest
  <2>7. LostFor(c, e, key, class, lost)
    BY <1>1, <1>2, <1>4, <2>1, <2>6 DEF LostFor, Oldest
  <2> QED
    BY <2>3, <2>4, <2>7
<1>6. CASE \A k \in Keys \ {key} : MetaAt(d, x).name # Lookup(k)
  BY <1>1, <1>2, <1>6
<1> QED
  BY <1>5, <1>6

\* The part of cache_set after its checks.
LEMMA ReplaceIs ==
  ASSUME NEW c, Good(c), ~IsNull(c), NEW key \in Keys, NEW tail \in -1 .. (NB - 1),
         NEW val \in Values, val.nul, NEW dirt1 \in SUBSET AllOnes, NEW dirt2 \in SUBSET AllOnes
  PROVE  LET r == Replace(c, key, tail, val, dirt1, dirt2) IN
         \/ r.rc = 4 /\ SetFailed(c, r.c, key)
         \/ r.rc = 0 /\ SetDone(c, r.c, key, tail, val)
<1> DEFINE class == get_slab_class(val.size)
           d == DeleteOld(c, key)
           room == OrEvict(free_space(d, class, dirt1), class, dirt2)
           e == Insert(room.c, key, tail, val, room.addr, class)
           r == Replace(c, key, tail, val, dirt1, dirt2)
<1>1. class \in Classes
  BY SlabClass, CacheAssumption
<1>2. /\ Good(d) /\ d.maxmem = c.maxmem /\ Len(d.slabs) = Len(c.slabs)
      /\ \A k \in Keys : ValueOf(d, k) = IF k = key THEN Nil ELSE ValueOf(c, k)
      /\ ValueOf(c, key) = Nil => d = c
  BY DeleteOldIs
<1>3. r = StoreIn(room, key, tail, val)
  BY DEF Replace
<1>4. MadeRoom(d, room, class)
  <2>1. ~IsNull(d)
    BY <1>2 DEF IsNull
  <2> HIDE DEF d, class
  <2> QED
    BY <1>1, <1>2, <2>1, MakeRoom
<1> HIDE DEF d, room, class, r
<1>5. CASE /\ room.addr = NULL /\ Good(room.c) /\ Places(room.c) = Places(d)
           /\ \A k \in Keys : ValueOf(room.c, k) = ValueOf(d, k)
  <2>1. r.rc = 4 /\ r.c = room.c
    BY <1>3, <1>5 DEF StoreIn
  <2>2. room.c.maxmem = c.maxmem
    BY <1>2, <1>4 DEF MadeRoom
  <2>3. Places(c) = {} => Places(d) = {}
    <3>1. c \in CacheObj
      BY DEF Good, Orderly
    <3> QED
      BY <1>2, <3>1, ValueNone
  <2>4. SetFailed(c, room.c, key)
    BY <1>2, <1>5, <2>2, <2>3 DEF SetFailed
  <2> QED
    BY <2>1, <2>4 DEF r
<1>6. ASSUME Ready(room.c, room.addr, class), ValueOf(room.c, key) = Nil
      PROVE  /\ r.rc = 0 /\ r.c = e /\ Good(e) /\ e.maxmem = c.maxmem
             /\ e.slabs = room.c.slabs /\ e.maxmem = room.c.maxmem /\ e.size = room.c.size
             /\ ValueOf(e, key) = IF tail = -1 THEN val ELSE Nil
             /\ \A x \in Places(e) : MetaAt(e, x).name = Lookup(key) => MetaAt(e, x).timer = 0
             /\ \A k \in Keys : k # key => ValueOf(e, k) = ValueOf(room.c, k)
  <2>1. room.addr # NULL
    BY <1>6 DEF Ready
  <2>2. r.rc = 0 /\ r.c = e
    BY <1>3, <2>1 DEF StoreIn, class
  <2>3. Stored(room.c, e, key, tail, val)
    BY <1>6, InsertIs DEF class
  <2>4. room.c.maxmem = c.maxmem
    BY <1>2, <1>4 DEF MadeRoom
  <2> HIDE DEF e
  <2> QED
    BY <2>2, <2>3, <2>4 DEF Stored
<1> HIDE DEF e
<1>7. CASE Ready(room.c, room.addr, class) /\ \A k \in Keys : ValueOf(room.c, k) = ValueOf(d, k)
  <2>1. ValueOf(room.c, key) = Nil
    BY <1>2, <1>7
  <2>2. \A k \in Keys \ {key} : ValueOf(e, k) = ValueOf(c, k)
    BY <1>2, <1>6, <1>7, <2>1
  <2>3. SetDone(c, e, key, tail, val)
    BY <1>6, <1>7, <2>1, <2>2 DEF SetDone
  <2> QED
    BY <1>6, <1>7, <2>1, <2>3 DEF r
<1>8. CASE Ready(room.c, room.addr, class) /\ \E x \in Places(d) : Forced(d, room.c, class, x)
  <2>1. PICK x \in Places(d) : Forced(d, room.c, class, x)
    BY <1>8
  <2>2. ValueOf(room.c, key) = Nil
    BY <1>2, <2>1 DEF Forced
  <2>3. \E lost \in Keys :
          /\ \A k \in Keys \ {key, lost} : ValueOf(e, k) = ValueOf(c, k)
          /\ lost # key => ValueOf(e, lost) = Nil /\ LostFor(c, e, key, class, lost)
    <3>1. d = DeleteOld(c, key)
      BY DEF d
    <3>2. /\ e.slabs = room.c.slabs /\ e.maxmem = room.c.maxmem /\ e.size = room.c.size
          /\ \A k \in Keys : k # key => ValueOf(e, k) = ValueOf(room.c, k)
      BY <1>6, <1>8, <2>2
    <3> QED
      BY <2>1, <3>1, <3>2, ForcedLoses
  <2>4. SetDone(c, e, key, tail, val)
    BY <1>6, <1>8, <2>2, <2>3 DEF SetDone, class
  <2> QED
    BY <1>6, <1>8, <2>2, <2>4 DEF r
<1> QED
  BY <1>4, <1>5, <1>7, <1>8 DEF MadeRoom

\* cache_set is refused and changes nothing, fails for want of room, or is done.
LEMMA SetIs ==
  ASSUME NEW c, Good(c), NEW key \in Keys, NEW tail \in -1 .. (NB - 1), NEW val \in Values,
         NEW dirt1 \in SUBSET AllOnes, NEW dirt2 \in SUBSET AllOnes
  PROVE  LET r == cache_set(c, key, tail, val, dirt1, dirt2) IN
         \/ r.rc \in {1, 2, 3, 5, 6} /\ r.c = c
         \/ r.rc = 4 /\ ~IsNull(c) /\ SetFailed(c, r.c, key)
         \/ r.rc = 0 /\ ~IsNull(c) /\ SetDone(c, r.c, key, tail, val)
<1> DEFINE no == Refusal(c, key, val)
<1>1. no \in {0, 1, 2, 3, 5, 6} /\ (no = 0 => ~IsNull(c) /\ val.nul)
  BY DEF Refusal
<1> HIDE DEF no
<1>2. CASE no # 0
  BY <1>1, <1>2 DEF cache_set, no
<1>3. CASE no = 0
  <2>1. cache_set(c, key, tail, val, dirt1, dirt2) = Replace(c, key, tail, val, dirt1, dirt2)
    BY <1>3 DEF cache_set, no
  <2> DEFINE r == Replace(c, key, tail, val, dirt1, dirt2)
  <2>2. ~IsNull(c) /\ val.nul
    BY <1>1, <1>3
  <2>3. (r.rc = 4 /\ SetFailed(c, r.c, key)) \/ (r.rc = 0 /\ SetDone(c, r.c, key, tail, val))
    BY <2>2, ReplaceIs
  <2> HIDE DEF r
  <2> QED
    BY <2>1, <2>2, <2>3 DEF r
<1> QED
  BY <1>2, <1>3

=============================================================================
