----------------------------- MODULE SlabLemmas -----------------------------
(***************************************************************************)
(* Lemmas about the operators of SlabOps, for every slab size, word width  *)
(* and set of classes: what each operation does to the status bits, and    *)
(* that it keeps the bits, the full marks and the held addresses in step.  *)
(***************************************************************************)
EXTENDS SlabOps, SequenceTheorems, WellFoundedInduction, TLAPS

-----------------------------------------------------------------------------
\* Numbers.

\* A nonempty set of naturals has a least element, and Min is it.
LEMMA MinIsLeast ==
  ASSUME NEW S \in SUBSET Nat, S # {}
  PROVE  /\ Min(S) \in S
         /\ \A x \in S : Min(S) <= x
<1> DEFINE R == {ss \in Nat \X Nat : ss[1] < ss[2]}
<1>1. IsWellFoundedOn(R, Nat)
  BY NatLessThanWellFounded, Zenon DEF OpToRel
<1>2. \A x, y \in Nat : <<y, x>> \in R <=> y < x
  OBVIOUS
<1> HIDE DEF R
<1>3. PICK x \in S : \A y \in S : ~ (<<y, x>> \in R)
  BY <1>1, WFMin
<1>4. \A y \in S : x <= y
  <2> TAKE y \in S
  <2>1. x \in Nat /\ y \in Nat
    OBVIOUS
  <2>2. ~ (y < x)
    BY <1>2, <1>3, <2>1
  <2> QED
    BY <2>1, <2>2
<1> QED
  BY <1>4 DEF Min

\* A nonempty set of naturals below a bound has a greatest element: Max.
LEMMA MaxIsGreatest ==
  ASSUME NEW n \in Nat, NEW S \in SUBSET (0..n), S # {}
  PROVE  /\ Max(S) \in S
         /\ \A x \in S : x <= Max(S)
<1> DEFINE T == {m \in Nat : n - m \in S}
<1>1. T \in SUBSET Nat /\ T # {}
  <2>1. PICK x \in S : TRUE
    OBVIOUS
  <2>2. n - x \in T
    BY <2>1
  <2> QED
    BY <2>2
<1>2. Min(T) \in T /\ \A y \in T : Min(T) <= y
  BY <1>1, MinIsLeast
<1>3. n - Min(T) \in S
  BY <1>2
<1>4. \A y \in S : n - Min(T) >= y
  <2> TAKE y \in S
  <2>1. n - y \in T
    OBVIOUS
  <2> QED
    BY <1>2, <2>1
<1>5. \E x \in S : \A y \in S : x >= y
  BY <1>3, <1>4
<1> QED
  BY <1>5 DEF Max

\* Division with remainder.
LEMMA DivMod ==
  ASSUME NEW c \in Nat \ {0}, NEW b \in Nat
  PROVE  /\ b \div c \in Nat
         /\ b % c \in 0..(c - 1)
         /\ b = c * (b \div c) + (b % c)
  BY SMT

\* Quotient and remainder are determined by that equation.
LEMMA DivModUnique ==
  ASSUME NEW c \in Nat \ {0}, NEW w \in Nat, NEW j \in 0..(c - 1)
  PROVE  /\ (c * w + j) \div c = w
         /\ (c * w + j) % c = j
  BY SMT

\* Two numbers with the same quotient and remainder are equal.
LEMMA SameDivMod ==
  ASSUME NEW c \in Nat \ {0}, NEW x \in Nat, NEW y \in Nat,
         x \div c = y \div c, x % c = y % c
  PROVE  x = y
  BY DivMod

\* A number below c * n has a quotient below n.
LEMMA DivBound ==
  ASSUME NEW c \in Nat \ {0}, NEW n \in Nat, NEW b \in Nat, b < c * n
  PROVE  b \div c < n
  BY SMT

-----------------------------------------------------------------------------
\* Status words.

Status == [Words -> SUBSET AllOnes]
Bits   == 0..(W * NW - 1)

\* A bit lies in a word, at a position of the word.
LEMMA BitPlace ==
  ASSUME NEW i \in Bits
  PROVE  /\ i \in Nat
         /\ i \div W \in Words
         /\ i % W \in AllOnes
         /\ i = W * (i \div W) + (i % W)
<1>1. W \in Nat \ {0} /\ NW \in Nat /\ W * NW \in Nat
  BY SlabAssumption
<1>2. i \in Nat /\ i < W * NW
  BY <1>1 DEF Bits
<1>3. i \div W < NW
  BY <1>1, <1>2, DivBound
<1>4. i \div W \in Nat /\ i % W \in 0..(W - 1) /\ i = W * (i \div W) + (i % W)
  BY <1>1, <1>2, DivMod
<1>5. i \div W \in Words
  BY <1>1, <1>3, <1>4 DEF Words
<1> QED
  BY <1>2, <1>4, <1>5 DEF AllOnes

\* Every position of every word is a bit.
LEMMA PlaceIsBit ==
  ASSUME NEW w \in Words, NEW j \in AllOnes
  PROVE  /\ W * w + j \in Bits
         /\ (W * w + j) \div W = w
         /\ (W * w + j) % W = j
<1>1. W \in Nat \ {0} /\ NW \in Nat \ {0} /\ w \in Nat /\ w <= NW - 1 /\ j \in 0..(W - 1)
  BY SlabAssumption DEF Words, AllOnes
<1>2. W * w <= W * (NW - 1)
  BY <1>1
<1>3. W * (NW - 1) = W * NW - W
  BY <1>1
<1>4. W * w \in Nat /\ W * NW \in Nat
  BY <1>1
<1>5. W * w + j \in Bits
  BY <1>1, <1>2, <1>3, <1>4 DEF Bits
<1> QED
  BY <1>1, <1>5, DivModUnique

\* toggle_bit flips its bit and no other.
LEMMA ToggleFlips ==
  ASSUME NEW status \in Status, NEW bit \in Bits
  PROVE  /\ toggle_bit(status, bit) \in Status
         /\ \A i \in Bits : BitSet(toggle_bit(status, bit), i) <=>
                              IF i = bit THEN ~BitSet(status, i) ELSE BitSet(status, i)
<1>1. bit \div W \in Words /\ bit % W \in AllOnes
  BY BitPlace
<1>2. toggle_bit(status, bit) \in Status
  BY <1>1 DEF toggle_bit, SymDiff, Status
<1>3. ASSUME NEW i \in Bits
      PROVE  BitSet(toggle_bit(status, bit), i) <=>
               IF i = bit THEN ~BitSet(status, i) ELSE BitSet(status, i)
  <2>1. i \div W \in Words /\ i % W \in AllOnes /\ i \in Nat /\ bit \in Nat /\ W \in Nat \ {0}
    BY BitPlace, SlabAssumption
  <2>2. i # bit => i \div W # bit \div W \/ i % W # bit % W
    BY <2>1, SameDivMod
  <2>3. CASE i = bit
    BY <1>1, <2>1, <2>3 DEF toggle_bit, SymDiff, Status, BitSet
  <2>4. CASE i # bit /\ i \div W # bit \div W
    BY <1>1, <2>1, <2>4 DEF toggle_bit, SymDiff, Status, BitSet
  <2>5. CASE i # bit /\ i \div W = bit \div W
    BY <1>1, <2>1, <2>2, <2>5 DEF toggle_bit, SymDiff, Status, BitSet
  <2> QED
    BY <2>3, <2>4, <2>5
<1> QED
  BY <1>2, <1>3

\* get_free_index finds a clear bit if there is one, and answers 0 otherwise.
LEMMA FreeIndex ==
  ASSUME NEW status \in Status
  PROVE  /\ get_free_index(status) \in 0..(W * NW)
         /\ get_free_index(status) = 0 <=> \A i \in Bits : BitSet(status, i)
         /\ get_free_index(status) # 0 =>
              /\ get_free_index(status) - 1 \in Bits
              /\ ~BitSet(status, get_free_index(status) - 1)
<1> DEFINE open == {i \in Words : status[i] # AllOnes}
           i == Min(open)
           j == Min(AllOnes \ status[i])
<1>0. W \in Nat \ {0} /\ NW \in Nat /\ W * NW \in Nat /\ Words \subseteq Nat /\ AllOnes \subseteq Nat
      /\ 0 \in AllOnes
  BY SlabAssumption DEF Words, AllOnes
<1>1. CASE open = {}
  <2>1. get_free_index(status) = 0
    BY <1>1 DEF get_free_index
  <2>2. \A k \in Bits : BitSet(status, k)
    BY <1>1, BitPlace DEF BitSet
  <2> QED
    BY <1>0, <2>1, <2>2
<1>2. CASE open # {}
  <2>1. i \in open
    BY <1>0, <1>2, MinIsLeast
  <2>2. i \in Words /\ status[i] # AllOnes /\ status[i] \subseteq AllOnes
    BY <2>1 DEF Status
  <2>3. AllOnes \ status[i] # {} /\ AllOnes \ status[i] \in SUBSET Nat
    BY <1>0, <2>2
  <2>4. j \in AllOnes \ status[i]
    BY <2>3, MinIsLeast
  <2>5. get_free_index(status) = IF status[i] = {} THEN W * i + 1 ELSE W * i + j + 1
    BY <1>2 DEF get_free_index
  <2> HIDE DEF i, j, open
  <2>a. W * i \in Nat
    <3>1. W \in Nat /\ i \in Nat
      BY <1>0, <2>2
    <3> QED
      BY <3>1
  <2>b. PICK f \in AllOnes \ status[i] : get_free_index(status) = W * i + f + 1
    <3>1. CASE status[i] = {}
      <4>1. 0 \in AllOnes \ status[i]
        BY <1>0, <3>1
      <4>2. get_free_index(status) = W * i + 0 + 1
        BY <2>5, <2>a, <3>1
      <4> QED
        BY <4>1, <4>2
    <3>2. CASE status[i] # {}
      BY <2>4, <2>5, <3>2
    <3> QED
      BY <3>1, <3>2
  <2>6. W * i + f \in Bits /\ (W * i + f) \div W = i /\ (W * i + f) % W = f
    BY <2>2, <2>b, PlaceIsBit
  <2>7. W * i + f \in Nat /\ W * i + f < W * NW
    BY <1>0, <2>6, BitPlace DEF Bits
  <2>8. get_free_index(status) = (W * i + f) + 1
    BY <2>b
  <2>9. get_free_index(status) - 1 = W * i + f /\ get_free_index(status) # 0
        /\ get_free_index(status) \in 0..(W * NW)
    BY <1>0, <2>7, <2>8
  <2>10. ~BitSet(status, W * i + f)
    BY <2>b, <2>6 DEF BitSet
  <2> QED
    BY <2>6, <2>9, <2>10
<1> QED
  BY <1>1, <1>2

-----------------------------------------------------------------------------
\* Classes and new slabs.

\* get_slab_class answers with a class, and with the class itself for a class.
LEMMA SlabClass ==
  /\ \A size \in Nat : get_slab_class(size) \in Classes
  /\ \A class \in Classes : get_slab_class(class) = class
<1>0. MEM \in Nat /\ Classes # {} /\ Classes \in SUBSET (0..MEM) /\ Classes \subseteq Nat
  BY SlabAssumption
<1>1. Max(Classes) \in Classes
  BY <1>0, MaxIsGreatest
<1>2. ASSUME NEW size \in Nat
      PROVE  get_slab_class(size) \in Classes
  <2> DEFINE fits == {class \in Classes : class >= size}
  <2>1. fits # {} => Min(fits) \in fits
    BY <1>0, MinIsLeast
  <2> QED
    BY <1>1, <2>1 DEF get_slab_class
<1>3. ASSUME NEW class \in Classes
      PROVE  get_slab_class(class) = class
  <2> DEFINE fits == {k \in Classes : k >= class}
  <2>0. class \in Nat /\ \A k \in fits : k \in Nat /\ k >= class
    BY <1>0
  <2>1. class \in fits /\ fits \in SUBSET Nat
    <3>1. class >= class
      BY <2>0
    <3>2. class \in fits
      BY <3>1, Zenon
    <3>3. fits \subseteq Nat
      BY <2>0, Zenon
    <3> QED
      BY <3>2, <3>3
  <2>2. Min(fits) \in fits /\ Min(fits) <= class
    BY <2>1, MinIsLeast
  <2>3. Min(fits) = class
    <3> HIDE DEF fits
    <3> QED
      BY <2>0, <2>2
  <2> QED
    BY <2>1, <2>3 DEF get_slab_class
<1> QED
  BY <1>2, <1>3

\* The arithmetic of allocate_slab: the words it clears and the entries left
\* over for the next word make up the entries of the slab, and fewer than W are
\* left over (the "Something happened" exit at slabs.c:116 is never taken).
LEMMA SlabArithmetic ==
  ASSUME NEW class \in Classes
  PROVE  LET q == MEM \div class IN
         /\ q \in Nat /\ q <= W * NW
         /\ q \div W \in Nat /\ q \div W <= NW
         /\ Remainder(class) \in AllOnes
         /\ q = W * (q \div W) + Remainder(class)
<1> DEFINE q == MEM \div class
           d == q \div W
           m == q % W
           r == MEM % class
<1>0. MEM \in Nat /\ class \in Nat \ {0} /\ W \in Nat \ {0} /\ NW \in Nat /\ q <= W * NW
  BY SlabAssumption
<1>1. q \in Nat /\ r \in 0..(class - 1) /\ MEM = class * q + r
  BY <1>0, DivMod
<1>2. d \in Nat /\ m \in 0..(W - 1) /\ q = W * d + m
  BY <1>0, <1>1, DivMod
<1>3. Remainder(class) = (MEM - d * W * class) \div class
  BY DEF Remainder
<1> HIDE DEF q, d, m, r
<1>4. MEM - d * W * class = class * m + r
  <2>1. class * q = class * (W * d) + class * m
    BY <1>0, <1>1, <1>2
  <2>2. class * (W * d) = d * W * class
    BY <1>0, <1>2
  <2>3. class * (W * d) \in Int /\ class * m \in Int /\ d * W * class \in Int
    BY <1>0, <1>2
  <2> QED
    BY <1>0, <1>1, <1>2, <2>1, <2>2, <2>3
<1>5. Remainder(class) = m
  BY <1>0, <1>1, <1>2, <1>3, <1>4, DivModUnique
<1>6. d <= NW
  <2>1. SUFFICES ASSUME NW + 1 <= d PROVE FALSE
    BY <1>0, <1>2
  <2>2. W * (NW + 1) <= W * d
    BY <1>0, <1>2, <2>1
  <2>3. W * (NW + 1) = W * NW + W
    BY <1>0
  <2>4. W * NW \in Nat /\ W * d \in Nat
    BY <1>0, <1>2
  <2> QED
    BY <1>0, <1>1, <1>2, <2>2, <2>3, <2>4
<1> QED
  BY <1>0, <1>1, <1>2, <1>5, <1>6 DEF AllOnes, q, d

\* A new slab is well-formed, its marked bits are those without an entry and
\* those malloc left marked, and it is not marked full.
LEMMA NewSlab ==
  ASSUME NEW class \in Classes, NEW dirt \in SUBSET AllOnes
  PROVE  LET s == allocate_slab(class, dirt) IN
         /\ s \in Slab
         /\ s.class = class /\ s.isFull = FALSE
         /\ s.junk \subseteq Entries(class)
         /\ \A i \in Bits : BitSet(s.status, i) <=> (i \notin Entries(class) \/ i \in s.junk)
<1> DEFINE q == MEM \div class
           d == q \div W
           rest == Remainder(class)
           kept == {j \in dirt : j < rest}
           status == [w \in Words |->
                        IF w < d THEN {}
                        ELSE IF w = d THEN kept \cup {j \in AllOnes : j >= rest}
                        ELSE AllOnes]
           junk == IF d \in Words THEN {d * W + j : j \in kept} ELSE {}
<1>1. allocate_slab(class, dirt) =
        [class |-> class, status |-> status, isFull |-> FALSE, junk |-> junk]
  BY DEF allocate_slab
<1>2. q \in Nat /\ d \in Nat /\ rest \in AllOnes /\ q = W * d + rest
      /\ W \in Nat \ {0} /\ NW \in Nat
  BY SlabArithmetic, SlabAssumption
<1>3. Entries(class) = 0..(q - 1)
  BY DEF Entries
<1>4. status \in Status
  BY DEF Status
<1>5. rest \in Nat /\ rest < W /\ AllOnes \subseteq Nat
  BY <1>2 DEF AllOnes
<1> HIDE DEF q, d, rest
<1>6. \A j \in kept : j \in AllOnes /\ j \in Nat /\ j < rest
  BY <1>5
<1>7. W * d \in Nat /\ d * W = W * d
  BY <1>2
<1>8. junk \subseteq Entries(class) /\ junk \subseteq Nat
  BY <1>2, <1>3, <1>5, <1>6, <1>7
<1>9. ASSUME NEW i \in Bits
      PROVE  BitSet(status, i) <=> (i \notin Entries(class) \/ i \in junk)
  <2> DEFINE w == i \div W
             j == i % W
  <2>1. i \in Nat /\ w \in Words /\ w \in Nat /\ j \in AllOnes /\ j \in Nat /\ j < W /\ i = W * w + j
    BY BitPlace, SlabAssumption DEF AllOnes, Words
  <2>2. BitSet(status, i) <=> j \in status[w]
    BY DEF BitSet
  <2>3. i \in Entries(class) <=> i < q
    BY <1>2, <1>3, <2>1
  <2>4. \A k \in AllOnes : i = W * d + k => w = d /\ j = k
    BY <1>2, DivModUnique DEF AllOnes
  <2> HIDE DEF w, j
  <2>5. W * w \in Nat
    BY <1>2, <2>1
  <2>6. CASE w < d
    <3>1. W * w + W <= W * d
      <4>1. W * (w + 1) <= W * d
        BY <1>2, <2>1, <2>6
      <4>2. W * (w + 1) = W * w + W
        BY <1>2, <2>1
      <4> QED
        BY <4>1, <4>2
    <3>2. i < q
      BY <1>2, <1>5, <1>7, <2>1, <2>5, <3>1
    <3>3. i \notin junk
      BY <1>2, <1>6, <1>7, <2>1, <2>4, <2>6
    <3>4. status[w] = {}
      BY <2>1, <2>6
    <3> QED
      BY <2>2, <2>3, <3>2, <3>3, <3>4
  <2>7. CASE w = d
    <3>1. status[w] = kept \cup {k \in AllOnes : k >= rest}
      BY <1>2, <2>1, <2>7
    <3>2. i = W * d + j
      BY <2>1, <2>7
    <3>3. i < q <=> j < rest
      BY <1>2, <1>5, <1>7, <2>1, <3>2
    <3>4. i \in junk <=> j \in kept
      <4>1. j \in kept => i \in junk
        BY <1>7, <2>1, <2>7, <3>2
      <4>2. i \in junk => j \in kept
        BY <1>6, <1>7, <2>4
      <4> QED
        BY <4>1, <4>2
    <3>5. j >= rest <=> ~(j < rest)
      BY <1>5, <2>1
    <3> QED
      BY <1>6, <2>1, <2>2, <2>3, <3>1, <3>3, <3>4, <3>5
  <2>8. CASE w > d
    <3>1. status[w] = AllOnes
      BY <1>2, <2>1, <2>8
    <3>2. W * d + W <= W * w
      <4>1. W * (d + 1) <= W * w
        BY <1>2, <2>1, <2>8
      <4>2. W * (d + 1) = W * d + W
        BY <1>2, <2>1
      <4> QED
        BY <4>1, <4>2
    <3>3. ~(i < q)
      BY <1>2, <1>5, <1>7, <2>1, <2>5, <3>2
    <3> QED
      BY <2>1, <2>2, <2>3, <3>1, <3>3
  <2> QED
    BY <1>2, <2>1, <2>6, <2>7, <2>8
<1> QED
  BY <1>1, <1>4, <1>8, <1>9 DEF Slab, Status

-----------------------------------------------------------------------------
\* What each operation does, slab by slab.

\* Entries have a status bit, lie within the slab's memory, and are told apart
\* by their offset; dividing the offset by the class gives the entry back.
LEMMA EntryFacts ==
  ASSUME NEW class \in Classes, NEW i \in Entries(class)
  PROVE  /\ class \in Nat \ {0} /\ i \in Nat /\ i \in Bits
         /\ class * i \in Nat /\ class * i + class <= MEM /\ class * i < SLABSIZE
         /\ (class * i) \div class = i
<1> DEFINE q == MEM \div class
<1>0. MEM \in Nat /\ SLABSIZE \in Nat /\ SLABSIZE > MEM /\ class \in Nat \ {0}
      /\ W * NW \in Nat
  BY SlabAssumption
<1>1. q \in Nat /\ q <= W * NW
  BY SlabArithmetic
<1>2. MEM % class \in 0..(class - 1) /\ MEM = class * q + (MEM % class)
  BY <1>0, DivMod
<1>3. i \in Nat /\ i + 1 <= q
  BY <1>1 DEF Entries
<1> HIDE DEF q
<1>4. i \in Bits
  BY <1>0, <1>1, <1>3 DEF Bits
<1>5. class * (i + 1) <= class * q /\ class * (i + 1) = class * i + class
  BY <1>0, <1>1, <1>3
<1>6. class * i \in Nat /\ class * q \in Nat
  BY <1>0, <1>1, <1>3
<1>7. class * i + class <= MEM
  BY <1>0, <1>2, <1>5, <1>6
<1>8. class * i < SLABSIZE
  BY <1>0, <1>6, <1>7
<1>9. (class * i + 0) \div class = i
  BY <1>0, <1>3, DivModUnique
<1> QED
  BY <1>0, <1>3, <1>4, <1>6, <1>7, <1>8, <1>9

\* The fields of a slab in a list.
LEMMA SlabFields ==
  ASSUME NEW slabs \in Seq(Slab), NEW n \in DOMAIN slabs
  PROVE  /\ n \in Nat \ {0}
         /\ slabs[n] \in Slab
         /\ slabs[n].class \in Classes
         /\ slabs[n].status \in Status
         /\ slabs[n].isFull \in BOOLEAN
         /\ slabs[n].junk \in SUBSET Nat
<1>1. n \in 1..Len(slabs) /\ Len(slabs) \in Nat
  BY LenProperties
<1>2. slabs[n] \in Slab
  BY <1>1, ElementOfSeq
<1> QED
  BY <1>1, <1>2 DEF Slab, Status

\* Marking a slab as full, or changing its status, leaves its other fields.
LEMMA SlabMarked ==
  ASSUME NEW s \in Slab
  PROVE  /\ [s EXCEPT !.isFull = TRUE] \in Slab
         /\ [s EXCEPT !.isFull = TRUE].class = s.class
         /\ [s EXCEPT !.isFull = TRUE].junk = s.junk
         /\ [s EXCEPT !.isFull = TRUE].status = s.status
  BY DEF Slab

\* A slab with its status words replaced, as get_address does.
LEMMA SlabWithStatus ==
  ASSUME NEW s \in Slab, NEW st \in Status
  PROVE  /\ [s EXCEPT !.status = st] \in Slab
         /\ [s EXCEPT !.status = st].class = s.class
         /\ [s EXCEPT !.status = st].junk = s.junk
         /\ [s EXCEPT !.status = st].isFull = s.isFull
         /\ [s EXCEPT !.status = st].status = st
  BY DEF Slab, Status

\* A slab with new status words and its full mark gone, as slab_delete leaves it.
LEMMA SlabFreed ==
  ASSUME NEW s \in Slab, NEW st \in Status
  PROVE  /\ [s EXCEPT !.status = st, !.isFull = FALSE] \in Slab
         /\ [s EXCEPT !.status = st, !.isFull = FALSE].class = s.class
         /\ [s EXCEPT !.status = st, !.isFull = FALSE].junk = s.junk
         /\ [s EXCEPT !.status = st, !.isFull = FALSE].isFull = FALSE
         /\ [s EXCEPT !.status = st, !.isFull = FALSE].status = st
  BY DEF Slab, Status

\* The shape of a list of slabs is kept: same slabs, classes and dirty entries.
SameShape(slabs, new) ==
  /\ new \in Seq(Slab)
  /\ DOMAIN new = DOMAIN slabs
  /\ \A n \in DOMAIN slabs : new[n].class = slabs[n].class /\ new[n].junk = slabs[n].junk

\* get_address either finds no clear bit in any slab of the class it has not
\* marked full, or flips one clear bit of one slab of the class and returns that
\* entry's address.  It marks as full only slabs without a clear bit.
LEMMA GetAddressEffect ==
  ASSUME NEW slabs \in Seq(Slab), NEW size \in Nat
  PROVE  LET r == get_address(slabs, size)
             class == get_slab_class(size) IN
         /\ SameShape(slabs, r.slabs)
         /\ \A n \in DOMAIN slabs : r.slabs[n].isFull =>
              slabs[n].isFull \/ (/\ get_free_index(slabs[n].status) = 0
                                  /\ r.slabs[n].status = slabs[n].status)
         /\ \/ /\ r.addr = NULL
               /\ \A n \in DOMAIN slabs : r.slabs[n].status = slabs[n].status
               /\ \A n \in DOMAIN slabs : slabs[n].class = class /\ ~slabs[n].isFull =>
                                            get_free_index(slabs[n].status) = 0
            \/ \E f \in DOMAIN slabs : \E e \in Bits :
                 /\ slabs[f].class = class /\ ~slabs[f].isFull
                 /\ ~BitSet(slabs[f].status, e)
                 /\ r.addr = EntryAddr(slabs, f, e)
                 /\ \A n \in DOMAIN slabs :
                      r.slabs[n].status = IF n = f THEN toggle_bit(slabs[n].status, e)
                                          ELSE slabs[n].status
<1> DEFINE class == get_slab_class(size)
           open  == {n \in DOMAIN slabs : slabs[n].class = class /\ ~slabs[n].isFull}
           roomy == {n \in open : get_free_index(slabs[n].status) # 0}
           found == LL_find(roomy)
           entry == get_free_index(slabs[found].status) - 1
           marked == [n \in DOMAIN slabs |->
                        IF n \in open /\ (roomy = {} \/ n < found)
                        THEN [slabs[n] EXCEPT !.isFull = TRUE] ELSE slabs[n]]
           r == get_address(slabs, size)
<1>0. DOMAIN slabs = 1..Len(slabs) /\ Len(slabs) \in Nat /\ DOMAIN slabs \subseteq Nat
  BY LenProperties
<1>1. \A n \in DOMAIN slabs :
        /\ marked[n] \in Slab
        /\ marked[n].class = slabs[n].class /\ marked[n].junk = slabs[n].junk
        /\ marked[n].status = slabs[n].status
        /\ marked[n].isFull => slabs[n].isFull \/ (n \in open /\ (roomy = {} \/ n < found))
  <2> TAKE n \in DOMAIN slabs
  <2> HIDE DEF open, roomy, found
  <2>1. marked[n] = IF n \in open /\ (roomy = {} \/ n < found)
                    THEN [slabs[n] EXCEPT !.isFull = TRUE] ELSE slabs[n]
    OBVIOUS
  <2>2. slabs[n] \in Slab /\ slabs[n].status \in Status
    BY SlabFields
  <2> HIDE DEF marked
  <2>3. CASE n \in open /\ (roomy = {} \/ n < found)
    <3>1. marked[n] = [slabs[n] EXCEPT !.isFull = TRUE]
      BY <2>1, <2>3
    <3>2. marked[n] \in Slab /\ marked[n].class = slabs[n].class
          /\ marked[n].junk = slabs[n].junk /\ marked[n].status = slabs[n].status
      BY <2>2, <3>1, SlabMarked
    <3> QED
      BY <2>3, <3>2
  <2>4. CASE ~(n \in open /\ (roomy = {} \/ n < found))
    <3>1. marked[n] = slabs[n]
      BY <2>1, <2>4
    <3> QED
      BY <2>2, <3>1
  <2> QED
    BY <2>3, <2>4
<1>2. marked \in Seq(Slab) /\ DOMAIN marked = DOMAIN slabs
  BY <1>0, <1>1, IsASeq
<1>3. CASE roomy = {}
  <2>1. r = [addr |-> NULL, slabs |-> marked]
    BY <1>3 DEF get_address
  <2>2. \A n \in open : get_free_index(slabs[n].status) = 0
    BY <1>3
  <2>3. r.addr = NULL /\ r.slabs = marked
    BY <2>1
  <2> HIDE DEF marked, r, roomy, found
  <2>4. SameShape(slabs, r.slabs)
    BY <1>1, <1>2, <2>3 DEF SameShape
  <2>5. \A n \in DOMAIN slabs :
          /\ r.slabs[n].status = slabs[n].status
          /\ r.slabs[n].isFull => slabs[n].isFull \/ get_free_index(slabs[n].status) = 0
    BY <1>1, <2>2, <2>3
  <2>6. \A n \in DOMAIN slabs : slabs[n].class = class /\ ~slabs[n].isFull =>
                                 get_free_index(slabs[n].status) = 0
    BY <2>2
  <2> QED
    BY <2>3, <2>4, <2>5, <2>6 DEF r
<1>4. CASE roomy # {}
  <2>1. found \in roomy /\ \A n \in roomy : found <= n
    BY <1>0, <1>4, MinIsLeast DEF LL_find
  <2>2. r = [addr |-> [slab |-> found, off |-> slabs[found].class * entry],
             slabs |-> [marked EXCEPT ![found].status = toggle_bit(@, entry)]]
    BY <1>4 DEF get_address
  <2>3. found \in DOMAIN slabs /\ get_free_index(slabs[found].status) # 0
        /\ slabs[found].class = class /\ ~slabs[found].isFull
    BY <2>1
  <2>4. entry \in Bits /\ ~BitSet(slabs[found].status, entry)
        /\ toggle_bit(slabs[found].status, entry) \in Status
    BY <2>3, SlabFields, FreeIndex, ToggleFlips
  <2>5. \A n \in open : n < found => get_free_index(slabs[n].status) = 0
    <3> SUFFICES ASSUME NEW n \in open, n < found, n \in roomy PROVE FALSE
      OBVIOUS
    <3>1. n \in Nat /\ found \in Nat /\ found <= n
      BY <1>0, <2>1, <2>3
    <3> QED
      BY <3>1
  <2> HIDE DEF marked, r, entry, found
  <2>6. r.slabs \in Seq(Slab) /\ DOMAIN r.slabs = DOMAIN slabs
        /\ \A n \in DOMAIN slabs :
             r.slabs[n] = IF n = found
                          THEN [marked[n] EXCEPT !.status = toggle_bit(slabs[n].status, entry)]
                          ELSE marked[n]
    <3>1. r.slabs = [marked EXCEPT ![found] =
                       [marked[found] EXCEPT !.status = toggle_bit(slabs[found].status, entry)]]
      BY <1>1, <1>2, <2>2, <2>3
    <3>2. [marked[found] EXCEPT !.status = toggle_bit(slabs[found].status, entry)] \in Slab
      BY <1>1, <2>3, <2>4, SlabWithStatus
    <3>3. r.slabs \in Seq(Slab)
      BY <1>0, <1>2, <2>3, <3>1, <3>2, ExceptSeq, LenProperties
    <3> QED
      BY <1>2, <3>1, <3>3
  <2>7. \A n \in DOMAIN slabs :
          /\ r.slabs[n].class = slabs[n].class /\ r.slabs[n].junk = slabs[n].junk
          /\ r.slabs[n].isFull = marked[n].isFull
          /\ r.slabs[n].status = IF n = found THEN toggle_bit(slabs[n].status, entry)
                                 ELSE slabs[n].status
    <3> TAKE n \in DOMAIN slabs
    <3>1. CASE n = found
      <4>1. r.slabs[n] = [marked[n] EXCEPT !.status = toggle_bit(slabs[n].status, entry)]
        BY <2>6, <3>1
      <4>2. marked[n] \in Slab /\ toggle_bit(slabs[n].status, entry) \in Status
        BY <1>1, <2>4, <3>1
      <4>3. r.slabs[n].class = marked[n].class /\ r.slabs[n].junk = marked[n].junk
            /\ r.slabs[n].isFull = marked[n].isFull
            /\ r.slabs[n].status = toggle_bit(slabs[n].status, entry)
        BY <4>1, <4>2, SlabWithStatus
      <4> QED
        BY <1>1, <3>1, <4>3
    <3>2. CASE n # found
      <4>1. r.slabs[n] = marked[n]
        BY <2>6, <3>2
      <4> QED
        BY <1>1, <3>2, <4>1
    <3> QED
      BY <3>1, <3>2
  <2>8. \A n \in DOMAIN slabs : r.slabs[n].isFull =>
          slabs[n].isFull \/ (n < found /\ n # found /\ get_free_index(slabs[n].status) = 0)
    BY <1>0, <1>1, <1>4, <2>3, <2>5, <2>7
  <2>9. SameShape(slabs, r.slabs)
    BY <2>6, <2>7 DEF SameShape
  <2>10. r.addr = EntryAddr(slabs, found, entry)
    BY <2>2 DEF EntryAddr
  <2> HIDE DEF open, roomy, class
  <2> QED
    BY <2>3, <2>4, <2>7, <2>8, <2>9, <2>10 DEF r, class
<1> QED
  BY <1>3, <1>4

-----------------------------------------------------------------------------
(***************************************************************************)
(* The invariant of the slab allocator and that its three operations keep  *)
(* it, whoever calls them.  The invariant speaks of the caller's addresses *)
(* (`held`): a status bit alone does not say who owns an entry, so neither *)
(* "no entry is handed out twice" nor "no entry is lost" is inductive      *)
(* without the bits and the caller's side being tied together.             *)
(***************************************************************************)
Sound(slabs, held) ==
  /\ slabs \in Seq(Slab)
  /\ held \in SUBSET Address
  /\ HeldAreEntries(slabs, held)
  /\ BitsMatch(slabs, held)
  /\ JunkApart(slabs, held)
  /\ FullSound(slabs)

\* The addresses of different entries differ.
LEMMA EntryAddrInjective ==
  ASSUME NEW slabs \in Seq(Slab),
         NEW m \in DOMAIN slabs, NEW n \in DOMAIN slabs,
         NEW i \in Nat, NEW j \in Nat,
         EntryAddr(slabs, m, i) = EntryAddr(slabs, n, j)
  PROVE  m = n /\ i = j
<1>1. m = n /\ slabs[m].class * i = slabs[n].class * j
  BY DEF EntryAddr
<1>2. slabs[m].class \in Nat \ {0}
  <2>1. slabs[m].class \in Classes
    BY SlabFields
  <2>2. \A c \in Classes : c \in Nat \ {0}
    BY SlabAssumption
  <2> QED
    BY <2>1, <2>2
<1>3. \A c \in Nat \ {0} : c * i = c * j => i = j
  BY SMT
<1> QED
  BY <1>1, <1>2, <1>3

\* Without slabs there is nothing to hold.
LEMMA SoundEmpty == Sound(LL_create, {})
<1>1. << >> \in Seq(Slab) /\ DOMAIN << >> = {}
  BY EmptySeq
<1> QED
  BY <1>1 DEF Sound, LL_create, HeldAreEntries, BitsMatch, JunkApart, FullSound

\* slab_add keeps the invariant: the new slab's marked bits are accounted for.
LEMMA SoundAdd ==
  ASSUME NEW slabs, NEW held, Sound(slabs, held),
         NEW class \in Classes, NEW dirt \in SUBSET AllOnes
  PROVE  Sound(slab_add(slabs, class, dirt), held)
<1> DEFINE s == allocate_slab(class, dirt)
           new == slab_add(slabs, class, dirt)
           k == Len(slabs) + 1
<1>0. slabs \in Seq(Slab) /\ held \in SUBSET Address /\ Len(slabs) \in Nat
      /\ DOMAIN slabs = 1..Len(slabs)
  BY LenProperties DEF Sound
<1>1. s \in Slab /\ s.class = class /\ ~s.isFull /\ s.junk \subseteq Entries(class)
      /\ \A i \in Bits : BitSet(s.status, i) <=> (i \notin Entries(class) \/ i \in s.junk)
  BY NewSlab
<1> HIDE DEF s
<1>2. /\ new \in Seq(Slab)
      /\ DOMAIN new = (DOMAIN slabs) \cup {k} /\ k \notin DOMAIN slabs
      /\ new[k] = s
      /\ \A n \in DOMAIN slabs : new[n] = slabs[n]
  BY <1>0, <1>1 DEF slab_add, LL_append, s
<1> HIDE DEF new, k
<1>3. \A n \in DOMAIN slabs : \A i : EntryAddr(new, n, i) = EntryAddr(slabs, n, i)
  BY <1>2 DEF EntryAddr
<1>4. \A i : EntryAddr(new, k, i) \notin held
  BY <1>2 DEF Sound, HeldAreEntries, EntryAddr
<1>5. HeldAreEntries(new, held)
  BY <1>2, <1>3 DEF Sound, HeldAreEntries
<1>6. BitsMatch(new, held)
  <2> SUFFICES ASSUME NEW n \in DOMAIN new, NEW i \in Bits
               PROVE  BitSet(new[n].status, i) <=>
                        \/ i \notin Entries(new[n].class)
                        \/ i \in new[n].junk
                        \/ EntryAddr(new, n, i) \in held
    BY DEF BitsMatch, Bits
  <2>1. CASE n \in DOMAIN slabs
    BY <1>2, <1>3, <2>1 DEF Sound, BitsMatch, Bits
  <2>2. CASE n = k
    BY <1>1, <1>2, <1>4, <2>2
  <2> QED
    BY <1>2, <2>1, <2>2
<1>7. JunkApart(new, held)
  BY <1>1, <1>2, <1>3, <1>4 DEF Sound, JunkApart
<1>8. FullSound(new)
  BY <1>1, <1>2 DEF Sound, FullSound
<1> QED
  BY <1>0, <1>2, <1>5, <1>6, <1>7, <1>8 DEF Sound, new

\* The answer r of get_address: no slab of the class has a clear bit, or entry e
\* of slab f was free and has been marked.
NoneLeft(slabs, class, r) ==
  /\ r.addr = NULL
  /\ \A n \in DOMAIN slabs : r.slabs[n].status = slabs[n].status
  /\ \A n \in DOMAIN slabs : slabs[n].class = class => get_free_index(slabs[n].status) = 0

Took(slabs, class, r, f, e) ==
  /\ slabs[f].class = class
  /\ ~BitSet(slabs[f].status, e)
  /\ r.addr = EntryAddr(slabs, f, e)
  /\ \A n \in DOMAIN slabs :
       r.slabs[n].status = IF n = f THEN toggle_bit(slabs[n].status, e) ELSE slabs[n].status

\* get_address keeps the invariant, with the address it returns now held.  The
\* address is that of an entry of the right class that nobody held; NULL means
\* that the class has no clear bit left in any slab.
LEMMA SoundTake ==
  ASSUME NEW slabs, NEW held, Sound(slabs, held), NEW size \in Nat
  PROVE  LET r == get_address(slabs, size)
             class == get_slab_class(size) IN
         /\ SameShape(slabs, r.slabs)
         /\ \/ NoneLeft(slabs, class, r) /\ r.addr = NULL /\ Sound(r.slabs, held)
            \/ /\ \E f \in DOMAIN slabs : \E e \in Entries(class) : Took(slabs, class, r, f, e)
               /\ r.addr # NULL /\ r.addr \notin held /\ r.addr \in Address
               /\ Sound(r.slabs, held \cup {r.addr})
<1> DEFINE r == get_address(slabs, size)
           class == get_slab_class(size)
           new == r.slabs
<1>0. slabs \in Seq(Slab) /\ held \in SUBSET Address /\ class \in Classes
  BY SlabClass DEF Sound
<1>1. SameShape(slabs, new)
  BY <1>0, GetAddressEffect
<1>2. \A n \in DOMAIN slabs : new[n].isFull =>
        slabs[n].isFull \/ (/\ get_free_index(slabs[n].status) = 0
                            /\ new[n].status = slabs[n].status)
  BY <1>0, GetAddressEffect
<1>3. \/ /\ r.addr = NULL
         /\ \A n \in DOMAIN slabs : new[n].status = slabs[n].status
         /\ \A n \in DOMAIN slabs : slabs[n].class = class /\ ~slabs[n].isFull =>
                                      get_free_index(slabs[n].status) = 0
      \/ \E f \in DOMAIN slabs : \E e \in Bits :
           /\ slabs[f].class = class /\ ~slabs[f].isFull
           /\ ~BitSet(slabs[f].status, e)
           /\ r.addr = EntryAddr(slabs, f, e)
           /\ \A n \in DOMAIN slabs :
                new[n].status = IF n = f THEN toggle_bit(slabs[n].status, e)
                                ELSE slabs[n].status
  BY <1>0, GetAddressEffect
<1> HIDE DEF r, class
<1>4. /\ new \in Seq(Slab) /\ DOMAIN new = DOMAIN slabs
      /\ \A n \in DOMAIN slabs : new[n].class = slabs[n].class /\ new[n].junk = slabs[n].junk
  BY <1>1 DEF SameShape
<1> HIDE DEF new
<1>5. \A n \in DOMAIN slabs : \A i : EntryAddr(new, n, i) = EntryAddr(slabs, n, i)
  BY <1>4 DEF EntryAddr
<1>6. CASE /\ r.addr = NULL
           /\ \A n \in DOMAIN slabs : new[n].status = slabs[n].status
           /\ \A n \in DOMAIN slabs : slabs[n].class = class /\ ~slabs[n].isFull =>
                                        get_free_index(slabs[n].status) = 0
  <2>1. HeldAreEntries(new, held) /\ JunkApart(new, held)
    BY <1>4, <1>5 DEF Sound, HeldAreEntries, JunkApart
  <2>2. BitsMatch(new, held)
    BY <1>4, <1>5, <1>6 DEF Sound, BitsMatch
  <2>3. FullSound(new)
    BY <1>2, <1>4, <1>6 DEF Sound, FullSound
  <2>4. Sound(new, held)
    BY <1>0, <1>4, <2>1, <2>2, <2>3 DEF Sound
  <2>5. \A n \in DOMAIN slabs : slabs[n].class = class => get_free_index(slabs[n].status) = 0
    BY <1>6 DEF Sound, FullSound
  <2> QED
    BY <1>1, <1>6, <2>4, <2>5 DEF new, r, class, NoneLeft
<1>7. ASSUME NEW f \in DOMAIN slabs, NEW e \in Bits,
             slabs[f].class = class, ~slabs[f].isFull,
             ~BitSet(slabs[f].status, e),
             r.addr = EntryAddr(slabs, f, e),
             \A n \in DOMAIN slabs :
               new[n].status = IF n = f THEN toggle_bit(slabs[n].status, e)
                               ELSE slabs[n].status
      PROVE  /\ e \in Entries(class)
             /\ r.addr # NULL /\ r.addr \notin held /\ r.addr \in Address
             /\ Sound(new, held \cup {r.addr})
             /\ Took(slabs, class, r, f, e)
  <2>1. e \in Entries(class) /\ e \notin slabs[f].junk /\ r.addr \notin held
    BY <1>7 DEF Sound, BitsMatch, Bits
  <2>2. class * e \in Nat /\ e \in Nat
    BY <1>0, <2>1, EntryFacts
  <2>3. f \in Nat \ {0} /\ r.addr = [slab |-> f, off |-> class * e]
    BY <1>0, <1>7, SlabFields DEF EntryAddr
  <2>4. r.addr # NULL /\ r.addr \in Address
    BY <2>2, <2>3 DEF NULL, Address
  <2>5. HeldAreEntries(new, held \cup {r.addr})
    BY <1>4, <1>5, <1>7, <2>1 DEF Sound, HeldAreEntries
  <2>6. BitsMatch(new, held \cup {r.addr})
    <3> SUFFICES ASSUME NEW n \in DOMAIN slabs, NEW i \in Bits
                 PROVE  BitSet(new[n].status, i) <=>
                          \/ i \notin Entries(slabs[n].class)
                          \/ i \in slabs[n].junk
                          \/ EntryAddr(slabs, n, i) \in held \cup {r.addr}
      BY <1>4, <1>5 DEF BitsMatch, Bits
    <3>1. BitSet(slabs[n].status, i) <=>
            \/ i \notin Entries(slabs[n].class)
            \/ i \in slabs[n].junk
            \/ EntryAddr(slabs, n, i) \in held
      BY DEF Sound, BitsMatch, Bits
    <3>2. i \in Nat /\ (EntryAddr(slabs, n, i) = r.addr => n = f /\ i = e)
      BY <1>0, <1>7, <2>2, BitPlace, EntryAddrInjective
    <3>3. CASE n = f /\ i = e
      <4>1. BitSet(new[n].status, i) <=> ~BitSet(slabs[n].status, i)
        BY <1>0, <1>7, <3>3, SlabFields, ToggleFlips
      <4> QED
        BY <1>7, <3>3, <4>1
    <3>4. CASE n = f /\ i # e
      <4>1. BitSet(new[n].status, i) <=> BitSet(slabs[n].status, i)
        BY <1>0, <1>7, <3>4, SlabFields, ToggleFlips
      <4> QED
        BY <3>1, <3>2, <3>4, <4>1
    <3>5. CASE n # f
      BY <1>7, <3>1, <3>2, <3>5
    <3> QED
      BY <3>3, <3>4, <3>5
  <2>7. JunkApart(new, held \cup {r.addr})
    <3> SUFFICES ASSUME NEW n \in DOMAIN slabs, NEW i \in slabs[n].junk
                 PROVE  i \in Entries(slabs[n].class) /\ EntryAddr(slabs, n, i) \notin held \cup {r.addr}
      BY <1>4, <1>5 DEF JunkApart
    <3>1. i \in Entries(slabs[n].class) /\ EntryAddr(slabs, n, i) \notin held
      BY DEF Sound, JunkApart
    <3>2. i \in Nat
      BY <1>0, SlabFields
    <3>3. EntryAddr(slabs, n, i) # r.addr
      BY <1>0, <1>7, <2>1, <2>2, <3>2, EntryAddrInjective
    <3> QED
      BY <3>1, <3>3
  <2>8. FullSound(new)
    BY <1>2, <1>4, <1>7 DEF Sound, FullSound
  <2>9. held \cup {r.addr} \in SUBSET Address
    BY <1>0, <2>4
  <2> QED
    BY <1>4, <1>7, <2>1, <2>4, <2>5, <2>6, <2>7, <2>8, <2>9 DEF Sound, Took, new
<1>8. CASE \E f \in DOMAIN slabs : \E e \in Bits :
             /\ slabs[f].class = class /\ ~slabs[f].isFull
             /\ ~BitSet(slabs[f].status, e)
             /\ r.addr = EntryAddr(slabs, f, e)
             /\ \A n \in DOMAIN slabs :
                  new[n].status = IF n = f THEN toggle_bit(slabs[n].status, e)
                                  ELSE slabs[n].status
  BY <1>1, <1>7, <1>8 DEF new, r, class
<1> QED
  BY <1>3, <1>6, <1>8

\* man_delete of a held address clears that entry's bit and its slab's full
\* mark, and leaves every other slab alone.
LEMMA ManDeleteEffect ==
  ASSUME NEW slabs \in Seq(Slab), NEW f \in DOMAIN slabs,
         NEW e \in Entries(slabs[f].class)
  PROVE  LET new == man_delete(slabs, EntryAddr(slabs, f, e)) IN
         /\ SameShape(slabs, new)
         /\ ~new[f].isFull
         /\ new[f].status = toggle_bit(slabs[f].status, e)
         /\ \A n \in DOMAIN slabs : n # f => new[n] = slabs[n]
<1> DEFINE addr == EntryAddr(slabs, f, e)
           new == man_delete(slabs, addr)
           st == toggle_bit(slabs[f].status, e)
           freed == [slabs[f] EXCEPT !.status = st, !.isFull = FALSE]
<1>0. f \in Nat \ {0} /\ slabs[f] \in Slab /\ slabs[f].class \in Classes
      /\ slabs[f].status \in Status
  BY SlabFields
<1>1. e \in Bits /\ slabs[f].class * e < SLABSIZE
      /\ (slabs[f].class * e) \div slabs[f].class = e
  BY <1>0, EntryFacts
<1>2. addr.slab = f /\ addr.off = slabs[f].class * e
  BY DEF EntryAddr
<1>3. find_val(slabs, addr) = {f}
  BY <1>1, <1>2 DEF find_val
<1>4. LL_find(find_val(slabs, addr)) = f
  <2>1. Min({f}) \in {f}
    BY <1>0, MinIsLeast
  <2> QED
    BY <1>3, <2>1 DEF LL_find
<1>5. st \in Status
  BY <1>0, <1>1, ToggleFlips
<1>6. new = [slabs EXCEPT ![f] = slab_delete(slabs[f], e)]
  BY <1>0, <1>1, <1>2, <1>4 DEF man_delete
<1>7. slab_delete(slabs[f], e) = freed
  BY DEF slab_delete
<1>8. /\ freed \in Slab /\ freed.class = slabs[f].class /\ freed.junk = slabs[f].junk
      /\ freed.isFull = FALSE /\ freed.status = st
  <2> HIDE DEF st
  <2> QED
    BY <1>0, <1>5, SlabFreed
<1> HIDE DEF freed, addr, new, st
<1>9. new = [slabs EXCEPT ![f] = freed]
  BY <1>6, <1>7
<1>10. new \in Seq(Slab)
  BY <1>0, <1>8, <1>9, ExceptSeq, LenProperties
<1>11. new[f] = freed /\ DOMAIN new = DOMAIN slabs
       /\ \A n \in DOMAIN slabs : n # f => new[n] = slabs[n]
  BY <1>9
<1>12. SameShape(slabs, new)
  BY <1>8, <1>10, <1>11 DEF SameShape
<1> QED
  BY <1>8, <1>11, <1>12 DEF new, addr, st

\* man_delete of a held address keeps the invariant, with the address no longer
\* held: the entry is back in the pool and its slab may be searched again.
LEMMA SoundGiveBack ==
  ASSUME NEW slabs, NEW held, Sound(slabs, held), NEW addr \in held
  PROVE  Sound(man_delete(slabs, addr), held \ {addr})
<1>0. slabs \in Seq(Slab) /\ held \in SUBSET Address
  BY DEF Sound
<1>f. PICK f \in DOMAIN slabs :
        \E i \in Entries(slabs[f].class) : addr = EntryAddr(slabs, f, i)
  BY DEF Sound, HeldAreEntries
<1>1. PICK e \in Entries(slabs[f].class) : addr = EntryAddr(slabs, f, e)
  BY <1>f
<1> DEFINE new == man_delete(slabs, addr)
           rest == held \ {addr}
<1>2. /\ SameShape(slabs, new) /\ ~new[f].isFull
      /\ new[f].status = toggle_bit(slabs[f].status, e)
      /\ \A n \in DOMAIN slabs : n # f => new[n] = slabs[n]
  BY <1>0, <1>1, ManDeleteEffect
<1> HIDE DEF new
<1>3. /\ new \in Seq(Slab) /\ DOMAIN new = DOMAIN slabs
      /\ \A n \in DOMAIN slabs : new[n].class = slabs[n].class /\ new[n].junk = slabs[n].junk
  BY <1>2 DEF SameShape
<1>4. \A n \in DOMAIN slabs : \A i : EntryAddr(new, n, i) = EntryAddr(slabs, n, i)
  BY <1>3 DEF EntryAddr
<1>5. slabs[f].class \in Classes /\ slabs[f].status \in Status
  BY <1>0, SlabFields
<1>6. e \in Bits /\ e \in Nat
  BY <1>5, EntryFacts
<1>7. HeldAreEntries(new, rest)
  BY <1>3, <1>4 DEF Sound, HeldAreEntries
<1>8. BitsMatch(new, rest)
  <2> SUFFICES ASSUME NEW n \in DOMAIN slabs, NEW i \in Bits
               PROVE  BitSet(new[n].status, i) <=>
                        \/ i \notin Entries(slabs[n].class)
                        \/ i \in slabs[n].junk
                        \/ EntryAddr(slabs, n, i) \in rest
    BY <1>3, <1>4 DEF BitsMatch, Bits
  <2>1. BitSet(slabs[n].status, i) <=>
          \/ i \notin Entries(slabs[n].class)
          \/ i \in slabs[n].junk
          \/ EntryAddr(slabs, n, i) \in held
    BY DEF Sound, BitsMatch, Bits
  <2>2. i \in Nat /\ (EntryAddr(slabs, n, i) = addr => n = f /\ i = e)
    BY <1>0, <1>1, <1>6, BitPlace, EntryAddrInjective
  <2>3. CASE n = f /\ i = e
    <3>1. BitSet(new[n].status, i) <=> ~BitSet(slabs[n].status, i)
      BY <1>2, <1>5, <1>6, <2>3, ToggleFlips
    <3>2. e \notin slabs[f].junk
      BY <1>1 DEF Sound, JunkApart
    <3> QED
      BY <1>1, <2>1, <2>3, <3>1, <3>2
  <2>4. CASE n = f /\ i # e
    <3>1. BitSet(new[n].status, i) <=> BitSet(slabs[n].status, i)
      BY <1>2, <1>5, <1>6, <2>4, ToggleFlips
    <3> QED
      BY <2>1, <2>2, <2>4, <3>1
  <2>5. CASE n # f
    BY <1>2, <2>1, <2>2, <2>5
  <2> QED
    BY <2>3, <2>4, <2>5
<1>9. JunkApart(new, rest)
  BY <1>3, <1>4 DEF Sound, JunkApart
<1>10. FullSound(new)
  BY <1>2, <1>3 DEF Sound, FullSound
<1> QED
  BY <1>0, <1>3, <1>7, <1>8, <1>9, <1>10 DEF Sound, new

=============================================================================
