---------------------------- MODULE TimerProofs -----------------------------
(***************************************************************************)
(* NeverBad and OnTime of module Timer for any number of timers and any    *)
(* timeouts.  The inductive invariant follows each timer through the two   *)
(* queues, seen as one, and the timer set: a start task is pending exactly *)
(* as long as the timeout is not passed on, a stop task exactly in         *)
(* STOPPING and behind the start task, and at most one of start task,      *)
(* handle and expired handle exists.                                       *)
(***************************************************************************)
EXTENDS Timer, WellFoundedInduction, TLAPS

Handle == [tm : Timers, due : 0 .. MaxTimeout]
TaskObj == [src : {"START", "STOP"}, tm : Timers]

\* The tasks in the order in which they will run.
Q == local \o tasks
Has(src, t) == \E i \in 1 .. Len(Q) : Q[i] = Task(src, t)
Among(set, t) == \E i \in 1 .. Len(set) : set[i].tm = t
Armed(t) == Among(timeouts, t)

\* A timer set is ordered and has one handle of a timer.
SetOK(set) == \A i, j \in 1 .. Len(set) : i < j => set[i].due <= set[j].due /\ set[i].tm # set[j].tm

QueueInv == \A i, j \in 1 .. Len(Q) : i < j /\ Q[i].tm = Q[j].tm => Q[i].src = "START" /\ Q[j].src = "STOP"

-----------------------------------------------------------------------------
\* A nonempty set of naturals has a least element, and Min is it.
LEMMA Smallest ==
  ASSUME NEW A \in SUBSET Nat, A # {}
  PROVE  Min(A) \in A /\ \A j \in A : Min(A) <= j
<1> DEFINE R == {ss \in Nat \X Nat : ss[1] < ss[2]}
<1>1. IsWellFoundedOn(R, Nat)
  BY NatLessThanWellFounded, Zenon DEF OpToRel
<1>2. \A x, y \in Nat : <<y, x>> \in R <=> y < x
  OBVIOUS
<1> HIDE DEF R
<1>3. PICK x \in A : \A y \in A : ~ (<<y, x>> \in R)
  BY <1>1, WFMin
<1>4. \A y \in A : x <= y
  <2> TAKE y \in A
  <2>1. x \in Nat /\ y \in Nat
    OBVIOUS
  <2>2. ~(y < x)
    BY <1>2, <1>3, <2>1
  <2> QED
    BY <2>1, <2>2
<1> QED
  BY <1>4 DEF Min

\* The parts of a concatenation.
LEMMA Concat ==
  ASSUME NEW s \in Seq(Handle), NEW t \in Seq(Handle)
  PROVE  /\ s \o t \in Seq(Handle) /\ Len(s \o t) = Len(s) + Len(t) /\ Len(s) \in Nat /\ Len(t) \in Nat
         /\ \A k \in 1 .. Len(s) + Len(t) : (s \o t)[k] = IF k <= Len(s) THEN s[k] ELSE t[k - Len(s)]
OBVIOUS

\* The same for queues of tasks.
LEMMA Joined ==
  ASSUME NEW s \in Seq(TaskObj), NEW t \in Seq(TaskObj)
  PROVE  /\ s \o t \in Seq(TaskObj) /\ Len(s \o t) = Len(s) + Len(t) /\ Len(s) \in Nat /\ Len(t) \in Nat
         /\ \A k \in 1 .. Len(s) + Len(t) : (s \o t)[k] = IF k <= Len(s) THEN s[k] ELSE t[k - Len(s)]
OBVIOUS

\* r is s with e in place n.
Insertion(r, s, n, e) ==
  /\ r \in Seq(Handle) /\ Len(r) = Len(s) + 1
  /\ \A k \in 1 .. Len(s) + 1 : r[k] = IF k < n THEN s[k] ELSE IF k = n THEN e ELSE s[k - 1]

\* What nn_list_insert does.
LEMMA Inserted ==
  ASSUME NEW s \in Seq(Handle), NEW n \in 1 .. Len(s) + 1, NEW e \in Handle
  PROVE  Insertion(nn_list_insert(s, n, e), s, n, e)
<1> DEFINE a == SubSeq(s, 1, n - 1)
           b == SubSeq(s, n, Len(s))
<1>1. a \in Seq(Handle) /\ Len(a) = n - 1 /\ \A k \in 1 .. n - 1 : a[k] = s[k]
  OBVIOUS
<1>2. b \in Seq(Handle) /\ Len(b) = Len(s) + 1 - n /\ \A k \in 1 .. Len(s) + 1 - n : b[k] = s[k + n - 1]
  OBVIOUS
<1> HIDE DEF a, b
<1>3. /\ a \o <<e>> \in Seq(Handle) /\ Len(a \o <<e>>) = n
      /\ \A k \in 1 .. n : (a \o <<e>>)[k] = IF k < n THEN s[k] ELSE e
  BY <1>1
<1>4. /\ (a \o <<e>>) \o b \in Seq(Handle) /\ Len((a \o <<e>>) \o b) = Len(s) + 1
      /\ \A k \in 1 .. Len(s) + 1 : ((a \o <<e>>) \o b)[k] = IF k <= n THEN (a \o <<e>>)[k] ELSE b[k - n]
  <2>1. PICK x \in Seq(Handle) : x = a \o <<e>>
    BY <1>3
  <2>2. /\ x \o b \in Seq(Handle) /\ Len(x \o b) = Len(x) + Len(b)
        /\ \A k \in 1 .. Len(x) + Len(b) : (x \o b)[k] = IF k <= Len(x) THEN x[k] ELSE b[k - Len(x)]
    BY <1>2, Concat
  <2>3. Len(x) = n /\ Len(x) + Len(b) = Len(s) + 1
    BY <1>2, <1>3, <2>1
  <2>4. /\ x \o b \in Seq(Handle) /\ Len(x \o b) = Len(s) + 1
        /\ \A k \in 1 .. Len(s) + 1 : (x \o b)[k] = IF k <= n THEN x[k] ELSE b[k - n]
    BY <2>2, <2>3
  <2> QED
    BY <2>1, <2>4
<1>5. nn_list_insert(s, n, e) = (a \o <<e>>) \o b
  BY DEF nn_list_insert, a, b
<1>6. ASSUME NEW k \in 1 .. Len(s) + 1
      PROVE  nn_list_insert(s, n, e)[k] = IF k < n THEN s[k] ELSE IF k = n THEN e ELSE s[k - 1]
  <2>1. CASE k <= n
    BY <1>3, <1>4, <1>5, <2>1
  <2>2. CASE k > n
    <3>1. k - n \in 1 .. Len(s) + 1 - n /\ k - n + n - 1 = k - 1 /\ ~(k < n) /\ k # n
      BY <2>2
    <3>2. nn_list_insert(s, n, e)[k] = b[k - n]
      BY <1>4, <1>5, <2>2
    <3> QED
      BY <1>2, <3>1, <3>2
  <2> QED
    BY <2>1, <2>2
<1> QED
  BY <1>4, <1>5, <1>6 DEF Insertion

\* What nn_list_erase does.
LEMMA Removed ==
  ASSUME NEW s \in Seq(Handle), NEW n \in 1 .. Len(s)
  PROVE  /\ nn_list_erase(s, n) \in Seq(Handle) /\ Len(nn_list_erase(s, n)) = Len(s) - 1
         /\ \A k \in 1 .. Len(s) - 1 : nn_list_erase(s, n)[k] = IF k < n THEN s[k] ELSE s[k + 1]
<1> DEFINE a == SubSeq(s, 1, n - 1)
           b == SubSeq(s, n + 1, Len(s))
<1>1. a \in Seq(Handle) /\ Len(a) = n - 1 /\ \A k \in 1 .. n - 1 : a[k] = s[k]
  OBVIOUS
<1>2. b \in Seq(Handle) /\ Len(b) = Len(s) - n /\ \A k \in 1 .. Len(s) - n : b[k] = s[k + n]
  OBVIOUS
<1> HIDE DEF a, b
<1>3. /\ a \o b \in Seq(Handle) /\ Len(a \o b) = Len(s) - 1
      /\ \A k \in 1 .. Len(s) - 1 : (a \o b)[k] = IF k <= n - 1 THEN a[k] ELSE b[k - (n - 1)]
  <2>1. Len(a) + Len(b) = Len(s) - 1 /\ Len(a) = n - 1
    BY <1>1, <1>2
  <2>2. /\ a \o b \in Seq(Handle) /\ Len(a \o b) = Len(a) + Len(b)
        /\ \A k \in 1 .. Len(a) + Len(b) : (a \o b)[k] = IF k <= Len(a) THEN a[k] ELSE b[k - Len(a)]
    BY <1>1, <1>2, Concat
  <2> QED
    BY <2>1, <2>2
<1>4. nn_list_erase(s, n) = a \o b
  BY DEF nn_list_erase, a, b
<1>5. ASSUME NEW k \in 1 .. Len(s) - 1
      PROVE  (a \o b)[k] = IF k < n THEN s[k] ELSE s[k + 1]
  <2>1. CASE k < n
    BY <1>1, <1>3, <2>1
  <2>2. CASE ~(k < n)
    <3>1. k - (n - 1) \in 1 .. Len(s) - n /\ (k - (n - 1)) + n = k + 1
      BY <2>2
    <3> QED
      BY <1>2, <1>3, <2>2, <3>1
  <2> QED
    BY <2>1, <2>2
<1> QED
  BY <1>3, <1>4, <1>5
-----------------------------------------------------------------------------
\* Adding a handle keeps the set ordered and adds nothing else.
LEMMA Added ==
  ASSUME NEW set \in Seq(Handle), SetOK(set), NEW t \in Timers, NEW due \in 0 .. MaxTimeout, ~Among(set, t)
  PROVE  LET r == nn_timerset_add(set, t, due)
         IN  /\ r \in Seq(Handle) /\ SetOK(r)
             /\ \A u : Among(r, u) <=> Among(set, u) \/ u = t
             /\ \A k \in 1 .. Len(r) : r[k] = [tm |-> t, due |-> due] \/ \E i \in 1 .. Len(set) : r[k] = set[i]
<1> DEFINE later == {i \in 1 .. Len(set) : due < set[i].due}
           at == IF later = {} THEN Len(set) + 1 ELSE Min(later)
           e == [tm |-> t, due |-> due]
           r == nn_list_insert(set, at, e)
<1>1. \A i \in 1 .. Len(set) : set[i] \in Handle /\ set[i].due \in Nat /\ set[i].tm \in Timers
  <2>1. \A h \in Handle : h.due \in Nat /\ h.tm \in Timers
    BY TimerAssumption DEF Handle
  <2>2. \A i \in 1 .. Len(set) : set[i] \in Handle
    OBVIOUS
  <2> QED
    BY <2>1, <2>2
<1>2. /\ at \in 1 .. Len(set) + 1
      /\ \A i \in 1 .. Len(set) : i < at => set[i].due <= due
      /\ \A i \in 1 .. Len(set) : i >= at => due < set[i].due
  <2>1. CASE later = {}
    <3>1. at = Len(set) + 1 /\ Len(set) \in Nat
      BY <2>1
    <3>2. \A i \in 1 .. Len(set) : set[i].due <= due
      BY <1>1, <2>1, TimerAssumption
    <3> HIDE DEF at, later
    <3> QED
      BY <3>1, <3>2
  <2>2. CASE later # {}
    <3>1. later \subseteq Nat /\ later \subseteq 1 .. Len(set)
      OBVIOUS
    <3>2. Min(later) \in later /\ \A j \in later : Min(later) <= j
      BY <2>2, <3>1, Smallest
    <3>3. at \in later /\ \A j \in later : at <= j
      BY <2>2, <3>2
    <3> HIDE DEF at
    <3>4. \A i \in 1 .. Len(set) : i < at => set[i].due <= due
      BY <1>1, <3>1, <3>3, TimerAssumption
    <3>5. due < set[at].due /\ at \in 1 .. Len(set)
      BY <3>3
    <3>6. \A i \in 1 .. Len(set) : i >= at => set[at].due <= set[i].due
      BY <1>1, <3>5 DEF SetOK
    <3> QED
      BY <1>1, <3>4, <3>5, <3>6, TimerAssumption
  <2> QED
    BY <2>1, <2>2
<1>3. nn_timerset_add(set, t, due) = r
  BY DEF nn_timerset_add
<1>4. e \in Handle /\ e.tm = t /\ e.due = due
  BY DEF Handle
<1> HIDE DEF e, at, later
<1>5. /\ r \in Seq(Handle) /\ Len(r) = Len(set) + 1
      /\ \A k \in 1 .. Len(set) + 1 : r[k] = IF k < at THEN set[k] ELSE IF k = at THEN e ELSE set[k - 1]
  <2>1. at \in 1 .. Len(set) + 1 /\ e \in Handle
    BY <1>2, <1>4
  <2>2. Insertion(r, set, at, e)
    BY <2>1, Inserted
  <2> HIDE DEF r
  <2> QED
    BY <2>2 DEF Insertion
<1> HIDE DEF r
<1>6. \A k \in 1 .. Len(r) : \/ k < at /\ k \in 1 .. Len(set) /\ r[k] = set[k]
                             \/ k = at /\ r[k] = e
                             \/ k > at /\ k - 1 \in 1 .. Len(set) /\ k - 1 >= at /\ r[k] = set[k - 1]
  BY <1>2, <1>5
<1>7. \A k \in 1 .. Len(r) : r[k] = e \/ \E i \in 1 .. Len(set) : r[k] = set[i]
  BY <1>6
<1>8. SetOK(r)
  <2>1. SUFFICES ASSUME NEW k \in 1 .. Len(r), NEW l \in 1 .. Len(r), k < l
                 PROVE  r[k].due <= r[l].due /\ r[k].tm # r[l].tm
    BY DEF SetOK
  <2>2. CASE l < at
    <3>1. l \in 1 .. Len(set) /\ r[l] = set[l] /\ k \in 1 .. Len(set) /\ r[k] = set[k]
      BY <1>2, <1>6, <2>1, <2>2
    <3> QED
      BY <2>1, <3>1 DEF SetOK
  <2>3. CASE l = at
    BY <1>2, <1>4, <1>6, <2>1, <2>3 DEF Among
  <2>4. CASE l > at /\ k = at
    <3>1. l - 1 \in 1 .. Len(set) /\ l - 1 >= at /\ r[l] = set[l - 1] /\ r[k] = e
      BY <1>2, <1>6, <2>4
    <3> QED
      BY <1>1, <1>2, <1>4, <3>1, TimerAssumption DEF Among
  <2>5. CASE l > at /\ k < at
    <3>1. l - 1 \in 1 .. Len(set) /\ l - 1 >= at /\ r[l] = set[l - 1] /\ k \in 1 .. Len(set) /\ r[k] = set[k] /\ k < l - 1
      BY <1>2, <1>6, <2>1, <2>5
    <3> QED
      BY <3>1 DEF SetOK
  <2>6. CASE l > at /\ k > at
    <3>1. l - 1 \in 1 .. Len(set) /\ r[l] = set[l - 1] /\ k - 1 \in 1 .. Len(set) /\ r[k] = set[k - 1] /\ k - 1 < l - 1
      BY <1>2, <1>6, <2>1, <2>6
    <3> QED
      BY <3>1 DEF SetOK
  <2> QED
    BY <1>2, <2>1, <2>2, <2>3, <2>4, <2>5, <2>6
<1>9. \A u : Among(r, u) <=> Among(set, u) \/ u = t
  <2>1. \A u : Among(r, u) => Among(set, u) \/ u = t
    BY <1>4, <1>7 DEF Among
  <2>2. Among(r, t)
    BY <1>2, <1>4, <1>5 DEF Among
  <2>3. ASSUME NEW i \in 1 .. Len(set)
        PROVE  \E k \in 1 .. Len(r) : r[k] = set[i]
    <3>1. CASE i < at
      BY <1>2, <1>5, <3>1
    <3>2. CASE i >= at
      <4>1. i + 1 \in 1 .. Len(r) /\ r[i + 1] = set[i]
        BY <1>2, <1>5, <3>2
      <4> QED
        BY <4>1
    <3> QED
      BY <1>2, <3>1, <3>2
  <2> QED
    BY <2>1, <2>2, <2>3 DEF Among
<1> QED
  BY <1>3, <1>5, <1>7, <1>8, <1>9 DEF e

\* Removing a timer's handle keeps the others.
LEMMA RemovedHandle ==
  ASSUME NEW set \in Seq(Handle), SetOK(set), NEW t \in Timers
  PROVE  LET r == nn_timerset_rm(set, t)
         IN  /\ r \in Seq(Handle) /\ SetOK(r)
             /\ \A u : Among(r, u) <=> Among(set, u) /\ u # t
             /\ \A k \in 1 .. Len(r) : \E i \in 1 .. Len(set) : r[k] = set[i]
<1> DEFINE at == {i \in 1 .. Len(set) : set[i].tm = t}
           r == nn_timerset_rm(set, t)
<1>1. CASE at = {}
  <2>1. r = set
    BY <1>1 DEF nn_timerset_rm
  <2>2. ~Among(set, t)
    BY <1>1 DEF Among
  <2> QED
    BY <2>1, <2>2
<1>2. CASE at # {}
  <2> DEFINE n == CHOOSE i \in at : TRUE
  <2>1. n \in 1 .. Len(set) /\ set[n].tm = t
    BY <1>2
  <2>2. r = nn_list_erase(set, n)
    BY <1>2 DEF nn_timerset_rm
  <2> HIDE DEF n, r
  <2>3. /\ r \in Seq(Handle) /\ Len(r) = Len(set) - 1
        /\ \A k \in 1 .. Len(set) - 1 : r[k] = IF k < n THEN set[k] ELSE set[k + 1]
    BY <2>1, <2>2, Removed
  <2>4. \A k \in 1 .. Len(r) : \/ k < n /\ k \in 1 .. Len(set) /\ r[k] = set[k]
                               \/ k >= n /\ k + 1 \in 1 .. Len(set) /\ r[k] = set[k + 1]
    <3> SUFFICES ASSUME NEW k \in 1 .. Len(r)
                 PROVE  \/ k < n /\ k \in 1 .. Len(set) /\ r[k] = set[k]
                        \/ k >= n /\ k + 1 \in 1 .. Len(set) /\ r[k] = set[k + 1]
      OBVIOUS
    <3>1. Len(set) \in Nat /\ n \in Nat /\ k \in 1 .. Len(set) - 1
      BY <2>1, <2>3
    <3>2. r[k] = IF k < n THEN set[k] ELSE set[k + 1]
      BY <2>3, <3>1
    <3> QED
      BY <3>1, <3>2
  <2>5. SetOK(r)
    <3>1. SUFFICES ASSUME NEW k \in 1 .. Len(r), NEW l \in 1 .. Len(r), k < l
                   PROVE  r[k].due <= r[l].due /\ r[k].tm # r[l].tm
      BY DEF SetOK
    <3>2. CASE l < n
      BY <2>1, <2>4, <3>1, <3>2 DEF SetOK
    <3>3. CASE l >= n /\ k < n
      <4>1. l + 1 \in 1 .. Len(set) /\ r[l] = set[l + 1] /\ k \in 1 .. Len(set) /\ r[k] = set[k] /\ k < l + 1
        BY <2>1, <2>4, <3>1, <3>3
      <4> QED
        BY <4>1 DEF SetOK
    <3>4. CASE k >= n
      <4>1. l + 1 \in 1 .. Len(set) /\ r[l] = set[l + 1] /\ k + 1 \in 1 .. Len(set) /\ r[k] = set[k + 1] /\ k + 1 < l + 1
        BY <2>1, <2>4, <3>1, <3>4
      <4> QED
        BY <4>1 DEF SetOK
    <3> QED
      BY <2>1, <3>1, <3>2, <3>3, <3>4
  <2>6. \A k \in 1 .. Len(r) : \E i \in 1 .. Len(set) : i # n /\ r[k] = set[i]
    BY <2>1, <2>4
  <2>7. \A i \in 1 .. Len(set) : i # n => set[i].tm # t
    BY <2>1 DEF SetOK
  <2>8. ASSUME NEW i \in 1 .. Len(set), i # n
        PROVE  \E k \in 1 .. Len(r) : r[k] = set[i]
    <3>1. CASE i < n
      BY <2>1, <2>3, <3>1
    <3>2. CASE i > n
      <4>1. i - 1 \in 1 .. Len(r) /\ r[i - 1] = set[i]
        BY <2>1, <2>3, <3>2
      <4> QED
        BY <4>1
    <3> QED
      BY <2>1, <2>8, <3>1, <3>2
  <2>9. ASSUME NEW u
        PROVE  Among(r, u) <=> Among(set, u) /\ u # t
    <3>1. Among(r, u) => Among(set, u) /\ u # t
      BY <2>6, <2>7 DEF Among
    <3>2. Among(set, u) /\ u # t => Among(r, u)
      BY <2>1, <2>8 DEF Among
    <3> QED
      BY <3>1, <3>2
  <2> QED
    BY <2>3, <2>5, <2>6, <2>9 DEF r
<1> QED
  BY <1>1, <1>2
-----------------------------------------------------------------------------
\* A posted task is the last of the queue.
LEMMA Posted ==
  ASSUME TypeOK, QueueInv, NEW x \in TaskObj, nn_worker_execute(x), local' = local,
         \A i \in 1 .. Len(Q) : Q[i].tm = x.tm => Q[i].src = "START" /\ x.src = "STOP"
  PROVE  /\ tasks' \in Seq(TaskObj) /\ QueueInv'
         /\ \A src, t : Has(src, t)' <=> Has(src, t) \/ x = Task(src, t)
<1>1. local \in Seq(TaskObj) /\ tasks \in Seq(TaskObj) /\ tasks' = Append(tasks, x)
  BY DEF TypeOK, TaskObj, nn_worker_execute
<1>2. /\ tasks' \in Seq(TaskObj) /\ Len(tasks') = Len(tasks) + 1 /\ tasks'[Len(tasks) + 1] = x
      /\ \A i \in 1 .. Len(tasks) : tasks'[i] = tasks[i]
  BY <1>1
<1>3. /\ Q \in Seq(TaskObj) /\ Len(Q) = Len(local) + Len(tasks) /\ Len(local) \in Nat /\ Len(tasks) \in Nat
      /\ \A k \in 1 .. Len(local) + Len(tasks) : Q[k] = IF k <= Len(local) THEN local[k] ELSE tasks[k - Len(local)]
  BY <1>1, Joined DEF Q
<1>4. /\ Q' \in Seq(TaskObj) /\ Len(Q') = Len(local) + (Len(tasks) + 1)
      /\ \A k \in 1 .. Len(local) + (Len(tasks) + 1) : Q'[k] = IF k <= Len(local) THEN local[k] ELSE tasks'[k - Len(local)]
  <2>1. Q' = local \o tasks'
    BY DEF Q
  <2>2. /\ local \o tasks' \in Seq(TaskObj) /\ Len(local \o tasks') = Len(local) + Len(tasks')
        /\ \A k \in 1 .. Len(local) + Len(tasks') : (local \o tasks')[k] = IF k <= Len(local) THEN local[k] ELSE tasks'[k - Len(local)]
    BY <1>1, <1>2, Joined
  <2> QED
    BY <1>2, <2>1, <2>2
<1>5. Len(Q') = Len(Q) + 1 /\ Q'[Len(Q) + 1] = x
  <2>1. Len(Q) + 1 - Len(local) = Len(tasks) + 1 /\ Len(Q) + 1 > Len(local) /\ Len(Q) + 1 \in 1 .. Len(local) + (Len(tasks) + 1)
    BY <1>3
  <2> QED
    BY <1>2, <1>3, <1>4, <2>1
<1>6. ASSUME NEW k \in 1 .. Len(Q)
      PROVE  Q'[k] = Q[k]
  <2>1. CASE k <= Len(local)
    BY <1>3, <1>4, <2>1
  <2>2. CASE k > Len(local)
    <3>1. k - Len(local) \in 1 .. Len(tasks) /\ ~(k <= Len(local)) /\ k \in 1 .. Len(local) + (Len(tasks) + 1)
      BY <1>3, <2>2
    <3>2. Q'[k] = tasks'[k - Len(local)] /\ Q[k] = tasks[k - Len(local)]
      BY <1>3, <1>4, <3>1
    <3> QED
      BY <1>2, <3>1, <3>2
  <2> QED
    BY <1>3, <2>1, <2>2
<1>7. \A k \in 1 .. Len(Q') : k \in 1 .. Len(Q) \/ k = Len(Q) + 1
  <2>1. Len(Q) \in Nat /\ Len(Q') = Len(Q) + 1
    BY <1>3, <1>5
  <2> QED
    BY <2>1
<1>8. QueueInv'
  <2>1. SUFFICES ASSUME NEW i \in 1 .. Len(Q'), NEW j \in 1 .. Len(Q'), i < j, Q'[i].tm = Q'[j].tm
                 PROVE  Q'[i].src = "START" /\ Q'[j].src = "STOP"
    BY DEF QueueInv
  <2>2. i \in 1 .. Len(Q)
    BY <1>3, <1>5, <2>1
  <2>3. CASE j \in 1 .. Len(Q)
    BY <1>6, <2>1, <2>2, <2>3 DEF QueueInv
  <2>4. CASE j = Len(Q) + 1
    BY <1>5, <1>6, <2>1, <2>2, <2>4
  <2> QED
    BY <1>7, <2>3, <2>4
<1>9. ASSUME NEW src, NEW t
      PROVE  Has(src, t)' <=> Has(src, t) \/ x = Task(src, t)
  <2>1. Has(src, t)' <=> \E k \in 1 .. Len(Q') : Q'[k] = Task(src, t)
    BY DEF Has, Task
  <2>2. \A k : k \in 1 .. Len(Q') <=> k \in 1 .. Len(Q) \/ k = Len(Q) + 1
    <3>1. Len(Q) \in Nat /\ Len(Q') = Len(Q) + 1
      BY <1>3, <1>5
    <3> QED
      BY <3>1
  <2> QED
    BY <1>5, <1>6, <2>1, <2>2 DEF Has
<1> QED
  BY <1>2, <1>8, <1>9

\* A task that runs is the first of the queue; behind it no other of its kind,
\* and behind a stop task nothing of its timer is left.
LEMMA Ran ==
  ASSUME TypeOK, QueueInv, local # <<>>, local' = Tail(local), tasks' = tasks
  PROVE  LET x == Head(local)
         IN  /\ x \in TaskObj /\ x = Task(x.src, x.tm) /\ Has(x.src, x.tm) /\ local' \in Seq(TaskObj) /\ QueueInv'
             /\ \A src, t : Has(src, t)' <=> Has(src, t) /\ Task(src, t) # x
             /\ x.src = "STOP" => ~Has("START", x.tm)
<1> DEFINE x == Head(local)
<1>1. local \in Seq(TaskObj) /\ tasks \in Seq(TaskObj) /\ Len(local) \in Nat /\ Len(local) > 0
  BY DEF TypeOK, TaskObj
<1>2. /\ local' \in Seq(TaskObj) /\ Len(local') = Len(local) - 1
      /\ \A i \in 1 .. Len(local) - 1 : local'[i] = local[i + 1]
  BY <1>1
<1>3. /\ Q \in Seq(TaskObj) /\ Len(Q) = Len(local) + Len(tasks) /\ Len(tasks) \in Nat
      /\ \A k \in 1 .. Len(local) + Len(tasks) : Q[k] = IF k <= Len(local) THEN local[k] ELSE tasks[k - Len(local)]
  BY <1>1, Joined DEF Q
<1>4. /\ Len(Q') = (Len(local) - 1) + Len(tasks)
      /\ \A k \in 1 .. (Len(local) - 1) + Len(tasks) : Q'[k] = IF k <= Len(local) - 1 THEN local'[k] ELSE tasks[k - (Len(local) - 1)]
  <2>1. Q' = local' \o tasks
    BY DEF Q
  <2> QED
    BY <1>1, <1>2, <2>1, Joined
<1>5. x \in TaskObj /\ x = Q[1] /\ 1 \in 1 .. Len(Q) /\ Len(Q) \in Nat
  BY <1>1, <1>3
<1>6. x = Task(x.src, x.tm)
  BY <1>5 DEF TaskObj, Task
<1> HIDE DEF x
<1>7. Len(Q') = Len(Q) - 1
  BY <1>1, <1>3, <1>4
<1>8. ASSUME NEW k \in 1 .. Len(Q')
      PROVE  k + 1 \in 1 .. Len(Q) /\ Q'[k] = Q[k + 1]
  <2>1. k + 1 \in 1 .. Len(Q)
    BY <1>5, <1>7
  <2>2. CASE k <= Len(local) - 1
    BY <1>1, <1>2, <1>3, <1>4, <2>1, <2>2
  <2>3. CASE k > Len(local) - 1
    <3>1. k - (Len(local) - 1) = k + 1 - Len(local) /\ ~(k + 1 <= Len(local))
      BY <1>1, <2>3
    <3>2. Q[k + 1] = tasks[k + 1 - Len(local)]
      BY <1>3, <2>1, <3>1
    <3>3. k \in 1 .. (Len(local) - 1) + Len(tasks) /\ ~(k <= Len(local) - 1)
      BY <1>1, <1>4, <2>3
    <3>4. Q'[k] = tasks[k - (Len(local) - 1)]
      BY <1>4, <3>3
    <3> QED
      BY <2>1, <3>1, <3>2, <3>4
  <2> QED
    BY <1>1, <2>1, <2>2, <2>3
<1>9. QueueInv'
  <2>1. SUFFICES ASSUME NEW i \in 1 .. Len(Q'), NEW j \in 1 .. Len(Q'), i < j, Q'[i].tm = Q'[j].tm
                 PROVE  Q'[i].src = "START" /\ Q'[j].src = "STOP"
    BY DEF QueueInv
  <2>2. i + 1 \in 1 .. Len(Q) /\ j + 1 \in 1 .. Len(Q) /\ i + 1 < j + 1 /\ Q[i + 1].tm = Q[j + 1].tm
    BY <1>8, <2>1
  <2> QED
    BY <1>8, <2>2 DEF QueueInv
<1>10. \A k \in 1 .. Len(Q) : k # 1 => Q[k] # x /\ (Q[k].tm = x.tm => x.src = "START")
  BY <1>5 DEF QueueInv
<1>11. ASSUME NEW src, NEW t
       PROVE  Has(src, t)' <=> Has(src, t) /\ Task(src, t) # x
  <2>1. Has(src, t)' <=> \E k \in 1 .. Len(Q') : Q'[k] = Task(src, t)
    BY DEF Has, Task
  <2>2. Has(src, t)' => Has(src, t) /\ Task(src, t) # x
    <3>1. SUFFICES ASSUME NEW k \in 1 .. Len(Q'), Q'[k] = Task(src, t)
                   PROVE  Has(src, t) /\ Task(src, t) # x
      BY <2>1
    <3>2. k + 1 \in 1 .. Len(Q) /\ Q[k + 1] = Task(src, t) /\ k + 1 # 1
      BY <1>8, <3>1
    <3> QED
      BY <1>10, <3>2 DEF Has
  <2>3. Has(src, t) /\ Task(src, t) # x => Has(src, t)'
    <3>1. SUFFICES ASSUME NEW k \in 1 .. Len(Q), Q[k] = Task(src, t), Task(src, t) # x
                   PROVE  \E l \in 1 .. Len(Q') : Q'[l] = Task(src, t)
      BY <2>1 DEF Has
    <3>2. k - 1 \in 1 .. Len(Q') /\ (k - 1) + 1 = k
      BY <1>5, <1>7, <3>1
    <3> QED
      BY <1>8, <3>1, <3>2
  <2> QED
    BY <2>2, <2>3
<1>12. x.src = "STOP" => ~Has("START", x.tm)
  <2>1. SUFFICES ASSUME x.src = "STOP", NEW k \in 1 .. Len(Q), Q[k] = Task("START", x.tm)
                 PROVE  FALSE
    BY DEF Has
  <2>2. Task("START", x.tm).src = "START" /\ Task("START", x.tm).tm = x.tm
    BY DEF Task
  <2> QED
    BY <1>5, <1>10, <2>1, <2>2
<1> QED
  BY <1>2, <1>5, <1>6, <1>9, <1>11, <1>12 DEF Has, x

\* The worker takes the posted tasks over, or nothing happens to the queues.
LEMMA Taken ==
  ASSUME TypeOK, QueueInv, \/ local = <<>> /\ local' = tasks /\ tasks' = <<>>
                           \/ local' = local /\ tasks' = tasks
  PROVE  QueueInv' /\ \A src, t : Has(src, t)' <=> Has(src, t)
<1>1. Q' = Q
  <2>1. CASE local = <<>> /\ local' = tasks /\ tasks' = <<>>
    BY <2>1 DEF Q, TypeOK
  <2>2. CASE local' = local /\ tasks' = tasks
    BY <2>2 DEF Q
  <2> QED
    BY <2>1, <2>2
<1> QED
  BY <1>1 DEF QueueInv, Has, Task

\* Appending to a sequence of one element.
LEMMA Two ==
  ASSUME NEW S, NEW a \in S, NEW b \in S
  PROVE  Append(<<a>>, b) = <<a, b>>
<1> DEFINE s == Append(<<a>>, b)
           t == <<a, b>>
<1>1. s \in Seq(S) /\ Len(s) = 2 /\ s[1] = a /\ s[2] = b
  OBVIOUS
<1>2. t \in Seq(S) /\ Len(t) = 2 /\ t[1] = a /\ t[2] = b
  OBVIOUS
<1> HIDE DEF s, t
<1>3. \A i \in 1 .. 2 : s[i] = t[i]
  BY <1>1, <1>2
<1>4. s = [i \in 1 .. 2 |-> s[i]] /\ t = [i \in 1 .. 2 |-> t[i]]
  BY <1>1, <1>2
<1>5. s = t
  BY <1>3, <1>4
<1> QED
  BY <1>5 DEF s, t
-----------------------------------------------------------------------------

SetInv == SetOK(timeouts) /\ \A i \in 1 .. Len(timeouts) : left[timeouts[i].tm] <= timeouts[i].due

Untold == {<<>>, <<"TIMEOUT">>}
Told == Untold \cup {<<"STOPPED">>, <<"TIMEOUT", "STOPPED">>}

TimerInv(t) ==
  /\ Has("STOP", t) <=> timer[t].state = "STOPPING"
  /\ timer[t].state = "IDLE" => ~Has("START", t) /\ ~Armed(t) /\ popped # t
  /\ timer[t].state = "ACTIVE" => (Has("START", t) <=> timer[t].timeout # -1)
  /\ timer[t].state = "ACTIVE" /\ timer[t].timeout # -1 => left[t] <= timer[t].timeout
  /\ Has("START", t) => ~Armed(t) /\ popped # t
  /\ popped = t => left[t] = 0 /\ ~Armed(t)
  /\ Has("START", t) \/ Armed(t) \/ popped = t => told[t] = <<>>
  /\ told[t] \in Told /\ (timer[t].state # "IDLE" => told[t] \in Untold)

IInv == TypeOK /\ QueueInv /\ SetInv /\ (popped # None => pc = "timers") /\ ~bad /\ \A t \in Timers : TimerInv(t)
-----------------------------------------------------------------------------
\* The tasks of a timer in the queue are the ones TimerInv speaks of.
LEMMA TaskOf ==
  ASSUME TypeOK, NEW i \in 1 .. Len(Q)
  PROVE  /\ Q \in Seq(TaskObj) /\ Q[i].tm \in Timers /\ Q[i].src \in {"START", "STOP"}
         /\ Has(Q[i].src, Q[i].tm)
<1>1. Q \in Seq(TaskObj)
  <2>1. local \in Seq(TaskObj) /\ tasks \in Seq(TaskObj)
    BY DEF TypeOK, TaskObj
  <2> QED
    BY <2>1, Joined DEF Q
<1>2. Q[i] \in TaskObj
  BY <1>1
<1>3. Q[i] = Task(Q[i].src, Q[i].tm)
  BY <1>2 DEF TaskObj, Task
<1> QED
  BY <1>1, <1>2, <1>3 DEF Has, TaskObj

\* The handles of the timer set.
LEMMA HandleOf ==
  ASSUME TypeOK
  PROVE  /\ timeouts \in Seq(Handle)
         /\ \A i \in 1 .. Len(timeouts) : timeouts[i] \in Handle /\ timeouts[i].tm \in Timers /\ timeouts[i].due \in 0 .. MaxTimeout
<1>1. timeouts \in Seq(Handle)
  BY DEF TypeOK, Handle
<1>2. \A i \in 1 .. Len(timeouts) : timeouts[i] \in Handle
  BY <1>1
<1> QED
  BY <1>1, <1>2 DEF Handle

\* A timer that a step does not touch keeps its invariant.
LEMMA Frame ==
  ASSUME NEW u \in Timers, TimerInv(u), timer'[u] = timer[u], told'[u] = told[u], left'[u] = left[u],
         popped' = u <=> popped = u, \A src : Has(src, u)' <=> Has(src, u), Armed(u)' <=> Armed(u)
  PROVE  TimerInv(u)'
<1>1. (Has("START", u)' <=> Has("START", u)) /\ (Has("STOP", u)' <=> Has("STOP", u))
  OBVIOUS
<1> QED
  BY <1>1 DEF TimerInv

\* Time passes for a timer that the step does not touch otherwise.
LEMMA Nearer ==
  ASSUME NEW u \in Timers, TimerInv(u), timer'[u] = timer[u], told'[u] = told[u], popped' = popped,
         Has("START", u)' <=> Has("START", u), Has("STOP", u)' <=> Has("STOP", u), Armed(u)' <=> Armed(u),
         left[u] = 0 => left'[u] = 0, left[u] <= timer[u].timeout => left'[u] <= timer[u].timeout
  PROVE  TimerInv(u)'
BY DEF TimerInv

\* nn_timer_start
LEMMA StartStep ==
  ASSUME IInv, NEW t \in Timers, NEW n \in 0 .. MaxTimeout, Start(t, n)
  PROVE  IInv'
<1> USE DEF IInv
<1>1. Task("START", t) \in TaskObj /\ Task("START", t).tm = t
  BY DEF Task, TaskObj
<1>2. \A i \in 1 .. Len(Q) : Q[i].tm # t
  BY TaskOf DEF TimerInv, Start
<1>3. /\ tasks' \in Seq(TaskObj) /\ QueueInv'
      /\ \A src, u : Has(src, u)' <=> Has(src, u) \/ Task("START", t) = Task(src, u)
  <2>1. nn_worker_execute(Task("START", t)) /\ local' = local
    BY DEF Start
  <2> QED
    BY <1>1, <1>2, <2>1, Posted
<1>4. \A u \in Timers : Armed(u)' <=> Armed(u)
  BY DEF Start, Armed, Among
<1>5. TypeOK'
  <2>1. timer' \in [Timers -> [state : States, timeout : -1 .. MaxTimeout]] /\ left' \in [Timers -> 0 .. MaxTimeout]
    BY TimerAssumption DEF TypeOK, Start, States
  <2>2. told' \in [Timers -> Seq({"TIMEOUT", "STOPPED"})]
    BY DEF TypeOK, Start
  <2> QED
    BY <1>3, <2>1, <2>2 DEF TypeOK, Start, TaskObj
<1>6. ASSUME NEW u \in Timers, u # t
      PROVE  TimerInv(u)'
  <2>1. \A src : Task("START", t) # Task(src, u)
    BY <1>6 DEF Task
  <2>2. timer'[u] = timer[u] /\ told'[u] = told[u] /\ left'[u] = left[u] /\ popped' = popped
    BY <1>6 DEF Start, TypeOK
  <2> QED
    BY <1>3, <1>4, <2>1, <2>2, Frame
<1>7. TimerInv(t)'
  <2>1. /\ timer'[t] = [state |-> "ACTIVE", timeout |-> n] /\ told'[t] = <<>> /\ left'[t] = n /\ popped' = popped
        /\ timer[t].state = "IDLE" /\ n # -1 /\ n \in Nat
    BY TimerAssumption DEF Start, TypeOK
  <2>2. Has("START", t)' /\ ~Has("STOP", t)'
    <3>1. Task("START", t) # Task("STOP", t)
      BY DEF Task
    <3>2. ~Has("STOP", t)
      BY <2>1 DEF TimerInv
    <3> QED
      BY <1>3, <3>1, <3>2
  <2>3. ~Armed(t)' /\ popped' # t
    BY <1>4, <2>1 DEF TimerInv
  <2>4. timer'[t].state = "ACTIVE" /\ timer'[t].timeout # -1 /\ left'[t] <= timer'[t].timeout
    BY <2>1
  <2>5. told'[t] = <<>> /\ told'[t] \in Told /\ told'[t] \in Untold
    BY <2>1 DEF Told, Untold
  <2> QED
    BY <2>2, <2>3, <2>4, <2>5 DEF TimerInv
<1>8. SetInv'
  <2>1. \A i \in 1 .. Len(timeouts) : timeouts[i].tm \in Timers /\ timeouts[i].tm # t
    <3>1. ~Armed(t)
      BY DEF TimerInv, Start
    <3> QED
      BY <3>1, HandleOf DEF Armed, Among
  <2>2. \A u \in Timers : u # t => left'[u] = left[u]
    BY DEF Start, TypeOK
  <2> QED
    BY <2>1, <2>2 DEF SetInv, Start
<1> QED
  BY <1>3, <1>5, <1>6, <1>7, <1>8 DEF Start

\* nn_timer_stop
LEMMA StopStep ==
  ASSUME IInv, NEW t \in Timers, Stop(t)
  PROVE  IInv'
<1> USE DEF IInv
<1>1. Task("STOP", t) \in TaskObj /\ Task("STOP", t).tm = t /\ Task("STOP", t).src = "STOP"
  BY DEF Task, TaskObj
<1>2. \A i \in 1 .. Len(Q) : Q[i].tm = t => Q[i].src = "START"
  BY TaskOf DEF TimerInv, Stop
<1>3. /\ tasks' \in Seq(TaskObj) /\ QueueInv'
      /\ \A src, u : Has(src, u)' <=> Has(src, u) \/ Task("STOP", t) = Task(src, u)
  <2>1. nn_worker_execute(Task("STOP", t)) /\ local' = local
    BY DEF Stop
  <2> QED
    BY <1>1, <1>2, <2>1, Posted
<1>4. \A u \in Timers : Armed(u)' <=> Armed(u)
  BY DEF Stop, Armed, Among
<1>5. /\ timer' \in [Timers -> [state : States, timeout : -1 .. MaxTimeout]]
      /\ timer'[t].state = "STOPPING" /\ \A u \in Timers : u # t => timer'[u] = timer[u]
  BY DEF TypeOK, Stop, States
<1>6. TypeOK'
  BY <1>3, <1>5 DEF TypeOK, Stop, TaskObj
<1>7. ASSUME NEW u \in Timers, u # t
      PROVE  TimerInv(u)'
  <2>1. \A src : Task("STOP", t) # Task(src, u)
    BY <1>7 DEF Task
  <2>2. timer'[u] = timer[u] /\ told'[u] = told[u] /\ left'[u] = left[u] /\ popped' = popped
    BY <1>5, <1>7 DEF Stop
  <2> QED
    BY <1>3, <1>4, <2>1, <2>2, Frame
<1>8. TimerInv(t)'
  <2>1. Has("STOP", t)' /\ (Has("START", t)' <=> Has("START", t))
    <3>1. Task("START", t) # Task("STOP", t)
      BY DEF Task
    <3> QED
      BY <1>3, <3>1
  <2> QED
    BY <1>4, <1>5, <2>1 DEF TimerInv, Stop
<1> QED
  BY <1>3, <1>6, <1>7, <1>8 DEF Stop, SetInv

\* Waiting, and taking the posted tasks.
LEMMA QueueStep ==
  ASSUME IInv, Wait \/ TakeTasks
  PROVE  IInv'
<1> USE DEF IInv
<1>1. /\ UNCHANGED <<timer, timeouts, popped, told, left, bad>>
      /\ \/ local = <<>> /\ local' = tasks /\ tasks' = <<>>
         \/ local' = local /\ tasks' = tasks
  BY DEF Wait, TakeTasks
<1>2. QueueInv' /\ \A src, t : Has(src, t)' <=> Has(src, t)
  BY <1>1, Taken
<1>3. TypeOK'
  <2>1. local' \in Seq([src : {"START", "STOP"}, tm : Timers]) /\ tasks' \in Seq([src : {"START", "STOP"}, tm : Timers])
    BY <1>1 DEF TypeOK
  <2>2. pc' \in {"wait", "timers", "poll"} /\ ready' \in BOOLEAN
    BY DEF TypeOK, Wait, TakeTasks
  <2> QED
    BY <1>1, <2>1, <2>2 DEF TypeOK
<1>4. \A u \in Timers : Armed(u)' <=> Armed(u)
  BY <1>1 DEF Armed, Among
<1>5. \A u \in Timers : TimerInv(u)'
  BY <1>1, <1>2, <1>4, Frame
<1>6. popped' # None => pc' = "timers"
  BY DEF Wait, TakeTasks
<1> QED
  BY <1>1, <1>2, <1>3, <1>5, <1>6 DEF SetInv

\* The first handle leaves the set when it is due.
LEMMA ExpireStep ==
  ASSUME IInv, Expire
  PROVE  IInv'
<1> USE DEF IInv
<1>1. UNCHANGED <<timer, tasks, local, told, left, bad, ready>>
  BY DEF Expire
<1>2. QueueInv' /\ \A src, t : Has(src, t)' <=> Has(src, t)
  BY <1>1, Taken
<1>3. CASE ~nn_timerset_event(timeouts)
  <2>1. pc' = "poll" /\ popped = None /\ UNCHANGED <<popped, timeouts>>
    BY <1>3 DEF Expire
  <2>2. \A u \in Timers : Armed(u)' <=> Armed(u)
    BY <2>1 DEF Armed, Among
  <2>3. \A u \in Timers : TimerInv(u)'
    BY <1>1, <1>2, <2>1, <2>2, Frame
  <2> QED
    BY <1>1, <1>2, <2>1, <2>3 DEF TypeOK, SetInv
<1>4. CASE nn_timerset_event(timeouts)
  <2>1. /\ popped = None /\ popped' = Head(timeouts).tm /\ timeouts' = Tail(timeouts) /\ pc = "timers" /\ pc' = pc
        /\ timeouts # <<>> /\ Head(timeouts).due = 0
    BY <1>4 DEF Expire, nn_timerset_event
  <2>2. timeouts \in Seq(Handle) /\ Len(timeouts) \in Nat /\ Len(timeouts) > 0 /\ 1 \in 1 .. Len(timeouts) /\ Head(timeouts) = timeouts[1]
    BY <2>1, HandleOf
  <2>3. PICK t \in Timers : t = timeouts[1].tm /\ popped' = t /\ timeouts[1].due = 0
    BY <2>1, <2>2, HandleOf
  <2>4. /\ timeouts' \in Seq(Handle) /\ Len(timeouts') = Len(timeouts) - 1
        /\ \A i \in 1 .. Len(timeouts') : i + 1 \in 1 .. Len(timeouts) /\ 1 < i + 1 /\ timeouts'[i] = timeouts[i + 1]
    BY <2>1, <2>2
  <2>5. TypeOK'
    BY <1>1, <2>1, <2>3, <2>4 DEF TypeOK, Handle
  <2>6. ~Armed(t)' /\ Armed(t)
    <3>1. ASSUME NEW i \in 1 .. Len(timeouts')
          PROVE  timeouts'[i].tm # t
      <4>1. i + 1 \in 1 .. Len(timeouts) /\ 1 < i + 1 /\ 1 \in 1 .. Len(timeouts) /\ timeouts'[i] = timeouts[i + 1]
        BY <2>4
      <4>2. timeouts[1].tm # timeouts[i + 1].tm
        BY <4>1 DEF SetInv, SetOK
      <4> QED
        BY <2>3, <4>1, <4>2
    <3> QED
      BY <2>2, <2>3, <3>1 DEF Armed, Among
  <2>7. SetInv'
    <3>1. SetOK(timeouts')
      <4>1. SUFFICES ASSUME NEW i \in 1 .. Len(timeouts'), NEW j \in 1 .. Len(timeouts'), i < j
                     PROVE  timeouts'[i].due <= timeouts'[j].due /\ timeouts'[i].tm # timeouts'[j].tm
        BY DEF SetOK
      <4>2. i + 1 \in 1 .. Len(timeouts) /\ j + 1 \in 1 .. Len(timeouts) /\ i + 1 < j + 1
        BY <2>4, <4>1
      <4>3. timeouts[i + 1].due <= timeouts[j + 1].due /\ timeouts[i + 1].tm # timeouts[j + 1].tm
        BY <4>2 DEF SetInv, SetOK
      <4> QED
        BY <2>4, <4>3
    <3>2. \A i \in 1 .. Len(timeouts') : left[timeouts'[i].tm] <= timeouts'[i].due
      BY <2>4 DEF SetInv
    <3> QED
      BY <1>1, <3>1, <3>2 DEF SetInv, SetOK
  <2>8. ASSUME NEW u \in Timers, u # t
        PROVE  TimerInv(u)'
    <3>1. Armed(u)' => Armed(u)
      BY <2>4 DEF Armed, Among
    <3>2. Armed(u) => Armed(u)'
      <4>1. SUFFICES ASSUME NEW i \in 1 .. Len(timeouts), timeouts[i].tm = u
                     PROVE  \E k \in 1 .. Len(timeouts') : timeouts'[k].tm = u
        BY DEF Armed, Among
      <4>2. i # 1
        BY <2>3, <2>8, <4>1
      <4>3. i - 1 \in 1 .. Len(timeouts') /\ (i - 1) + 1 = i
        BY <2>2, <2>4, <4>2
      <4> QED
        BY <2>4, <4>1, <4>3
    <3>3. popped' = u <=> popped = u
      BY <2>1, <2>3, <2>8, TimerAssumption
    <3> QED
      BY <1>1, <1>2, <3>1, <3>2, <3>3, Frame
  <2>9. TimerInv(t)'
    <3>1. left[t] = 0
      <4>1. left[t] <= 0 /\ left[t] \in 0 .. MaxTimeout
        BY <2>2, <2>3 DEF SetInv, TypeOK
      <4> QED
        BY <4>1, TimerAssumption
    <3>2. (Has("START", t)' <=> Has("START", t)) /\ (Has("STOP", t)' <=> Has("STOP", t))
      BY <1>2
    <3>3. TimerInv(t)
      BY <2>3
    <3> QED
      BY <1>1, <2>3, <2>6, <3>1, <3>2, <3>3 DEF TimerInv
  <2> QED
    BY <1>1, <1>2, <2>1, <2>5, <2>7, <2>8, <2>9
<1> QED
  BY <1>3, <1>4

\* An expired handle reaches its timer, which may be stopping by now.
LEMMA FeedStep ==
  ASSUME IInv, FeedExpired
  PROVE  IInv' /\ \A t \in Timers : told'[t] # told[t] => left[t] = 0
<1> USE DEF IInv
<1>1. PICK t \in Timers : t = popped
  BY DEF FeedExpired, TypeOK
<1>2. popped' = None /\ popped # None /\ nn_fsm_feed(t, "TIMER") /\ UNCHANGED <<tasks, local, pc, ready, left>>
  BY <1>1 DEF FeedExpired
<1>3. QueueInv' /\ \A src, u : Has(src, u)' <=> Has(src, u)
  BY <1>2, Taken
<1>4. TimerInv(t) /\ timer[t].state \in States /\ ~Has("START", t) /\ timer[t].state # "IDLE" /\ left[t] = 0 /\ ~Armed(t) /\ told[t] = <<>>
  BY <1>1 DEF TimerInv, TypeOK
<1>5. timer[t].state = "ACTIVE" => timer[t].timeout = -1
  BY <1>4 DEF TimerInv
<1>6. UNCHANGED <<timer, timeouts, bad>> /\ (told' = told \/ told' = [told EXCEPT ![t] = Append(told[t], "TIMEOUT")])
  BY <1>2, <1>4, <1>5 DEF nn_fsm_feed, nn_timer_shutdown, nn_timer_handler, States
<1>7. \A u \in Timers : Armed(u)' <=> Armed(u)
  BY <1>6 DEF Armed, Among
<1>8. told' \in [Timers -> Seq({"TIMEOUT", "STOPPED"})] /\ told'[t] \in Untold /\ \A u \in Timers : u # t => told'[u] = told[u]
  <2>1. CASE told' = told
    BY <1>4, <2>1 DEF TypeOK, Untold
  <2>2. CASE told' = [told EXCEPT ![t] = Append(told[t], "TIMEOUT")]
    <3>1. Append(told[t], "TIMEOUT") = <<"TIMEOUT">>
      BY <1>4
    <3> QED
      BY <2>2, <3>1 DEF TypeOK, Untold
  <2> QED
    BY <1>6, <2>1, <2>2
<1>9. ASSUME NEW u \in Timers, u # t
      PROVE  TimerInv(u)'
  <2>1. popped' = u <=> popped = u
    BY <1>1, <1>2, <1>9, TimerAssumption
  <2> QED
    BY <1>2, <1>3, <1>6, <1>7, <1>8, <1>9, <2>1, Frame
<1>10. TimerInv(t)'
  <2>1. (Has("START", t)' <=> Has("START", t)) /\ (Has("STOP", t)' <=> Has("STOP", t)) /\ popped' # t
    BY <1>2, <1>3, TimerAssumption
  <2> QED
    BY <1>2, <1>4, <1>5, <1>6, <1>7, <1>8, <2>1 DEF TimerInv, Told
<1>11. TypeOK'
  BY <1>2, <1>6, <1>8 DEF TypeOK
<1> QED
  BY <1>2, <1>3, <1>4, <1>6, <1>8, <1>9, <1>10, <1>11 DEF SetInv

\* A start or stop task reaches its timer.
LEMMA RunStep ==
  ASSUME IInv, RunTask
  PROVE  IInv' /\ \A t \in Timers : told'[t] # told[t] => told'[t][Len(told'[t])] = "STOPPED"
<1> USE DEF IInv
<1>1. PICK x \in TaskObj : x = Head(local)
  BY Ran DEF RunTask
<1>2. /\ pc = "poll" /\ local # <<>> /\ local' = Tail(local) /\ nn_fsm_feed(x.tm, x.src)
      /\ UNCHANGED <<tasks, pc, ready, popped, left>> /\ popped = None
  BY <1>1 DEF RunTask
<1>3. /\ x = Task(x.src, x.tm) /\ Has(x.src, x.tm) /\ local' \in Seq(TaskObj) /\ QueueInv'
      /\ \A src, u : Has(src, u)' <=> Has(src, u) /\ Task(src, u) # x
      /\ x.src = "STOP" => ~Has("START", x.tm)
  BY <1>1, <1>2, Ran
<1>4. PICK t \in Timers : t = x.tm
  BY DEF TaskObj
<1>5. ASSUME NEW u \in Timers, u # t, NEW src
      PROVE  Has(src, u)' <=> Has(src, u)
  <2>1. Task(src, u) # x
    BY <1>3, <1>4, <1>5 DEF Task
  <2> QED
    BY <1>3, <2>1
<1>6. TimerInv(t) /\ timer[t].state \in States /\ timer[t].timeout \in -1 .. MaxTimeout /\ popped # t /\ timeouts \in Seq(Handle) /\ SetOK(timeouts)
  BY <1>2, HandleOf, TimerAssumption DEF TypeOK, SetInv
<1>7. CASE x.src = "START"
  <2>1. ~Has("START", t)' /\ (Has("STOP", t)' <=> Has("STOP", t)) /\ Has("START", t)
    BY <1>3, <1>4, <1>7 DEF Task
  <2>2. ~Armed(t) /\ told[t] = <<>> /\ timer[t].state # "IDLE"
    BY <1>6, <2>1 DEF TimerInv
  <2>3. CASE timer[t].state = "STOPPING"
    <3>1. UNCHANGED <<timer, timeouts, told, bad>>
      BY <1>2, <1>4, <1>7, <2>3 DEF nn_fsm_feed, nn_timer_shutdown
    <3>2. \A u \in Timers : Armed(u)' <=> Armed(u)
      BY <3>1 DEF Armed, Among
    <3>3. ASSUME NEW u \in Timers, u # t
          PROVE  TimerInv(u)'
      BY <1>2, <1>5, <3>1, <3>2, <3>3, Frame
    <3>4. TimerInv(t)'
      BY <1>2, <1>6, <2>1, <2>3, <3>1, <3>2 DEF TimerInv
    <3>5. TypeOK'
      BY <1>2, <1>3, <3>1 DEF TypeOK, TaskObj
    <3> QED
      BY <1>2, <1>3, <3>1, <3>3, <3>4, <3>5 DEF SetInv
  <2>4. CASE timer[t].state = "ACTIVE"
    <3>1. timer[t].timeout # -1 /\ left[t] <= timer[t].timeout
      BY <1>6, <2>1, <2>4 DEF TimerInv
    <3>2. timer[t].timeout \in 0 .. MaxTimeout /\ timer[t].timeout >= 0
      BY <1>6, <3>1, TimerAssumption
    <3>3. /\ timeouts' = nn_timerset_add(timeouts, t, timer[t].timeout)
          /\ timer' = [timer EXCEPT ![t].timeout = -1] /\ UNCHANGED <<told, bad>>
      BY <1>2, <1>4, <1>7, <2>4, <3>2 DEF nn_fsm_feed, nn_timer_handler
    <3>4. /\ timeouts' \in Seq(Handle) /\ SetOK(timeouts')
          /\ \A u : Among(timeouts', u) <=> Among(timeouts, u) \/ u = t
          /\ \A k \in 1 .. Len(timeouts') : timeouts'[k] = [tm |-> t, due |-> timer[t].timeout]
                                        \/ \E i \in 1 .. Len(timeouts) : timeouts'[k] = timeouts[i]
      <4>1. ~Among(timeouts, t)
        BY <2>2 DEF Armed
      <4> QED
        BY <1>6, <3>2, <3>3, <4>1, Added
    <3>5. /\ timer' \in [Timers -> [state : States, timeout : -1 .. MaxTimeout]]
          /\ timer'[t].state = "ACTIVE" /\ timer'[t].timeout = -1 /\ \A u \in Timers : u # t => timer'[u] = timer[u]
      <4>1. -1 \in -1 .. MaxTimeout
        BY TimerAssumption
      <4>2. PICK v : v = [timer[t] EXCEPT !.timeout = -1]
        OBVIOUS
      <4>3. timer \in [Timers -> [state : States, timeout : -1 .. MaxTimeout]]
        BY DEF TypeOK
      <4>4. v \in [state : States, timeout : -1 .. MaxTimeout] /\ v.state = "ACTIVE" /\ v.timeout = -1
        BY <2>4, <4>1, <4>2, <4>3
      <4>5. timer' = [timer EXCEPT ![t] = v]
        BY <3>3, <4>2
      <4> QED
        BY <4>3, <4>4, <4>5
    <3>6. TypeOK'
      BY <1>2, <1>3, <3>3, <3>4, <3>5 DEF TypeOK, TaskObj, Handle
    <3>7. SetInv'
      <4>1. ASSUME NEW k \in 1 .. Len(timeouts')
            PROVE  left[timeouts'[k].tm] <= timeouts'[k].due
        <5>1. CASE timeouts'[k] = [tm |-> t, due |-> timer[t].timeout]
          <6>1. timeouts'[k].tm = t /\ timeouts'[k].due = timer[t].timeout
            BY <5>1
          <6> QED
            BY <3>1, <6>1
        <5>2. CASE \E i \in 1 .. Len(timeouts) : timeouts'[k] = timeouts[i]
          BY <5>2 DEF SetInv
        <5> QED
          BY <3>4, <5>1, <5>2
      <4> QED
        BY <1>2, <3>4, <4>1 DEF SetInv, SetOK
    <3>8. \A u \in Timers : Armed(u)' <=> Armed(u) \/ u = t
      BY <3>4 DEF Armed, Among
    <3>9. ASSUME NEW u \in Timers, u # t
          PROVE  TimerInv(u)'
      BY <1>2, <1>5, <3>3, <3>5, <3>8, <3>9, Frame
    <3>10. TimerInv(t)'
      BY <1>2, <1>6, <2>1, <2>2, <2>4, <3>3, <3>5, <3>8 DEF TimerInv
    <3> QED
      BY <1>2, <1>3, <3>3, <3>6, <3>7, <3>9, <3>10
  <2> QED
    BY <1>6, <2>2, <2>3, <2>4 DEF States
<1>8. CASE x.src = "STOP"
  <2>1. ~Has("STOP", t)' /\ ~Has("START", t)' /\ Has("STOP", t) /\ timer[t].state = "STOPPING"
    BY <1>3, <1>4, <1>6, <1>8 DEF Task, TimerInv
  <2>2. /\ timeouts' = nn_timerset_rm(timeouts, t) /\ timer' = [timer EXCEPT ![t].state = "IDLE"]
        /\ told' = [told EXCEPT ![t] = Append(told[t], "STOPPED")] /\ UNCHANGED bad
    BY <1>2, <1>4, <1>8, <2>1 DEF nn_fsm_feed, nn_timer_shutdown
  <2>3. /\ timeouts' \in Seq(Handle) /\ SetOK(timeouts')
        /\ \A u : Among(timeouts', u) <=> Among(timeouts, u) /\ u # t
        /\ \A k \in 1 .. Len(timeouts') : \E i \in 1 .. Len(timeouts) : timeouts'[k] = timeouts[i]
    <3>1. timeouts' = nn_timerset_rm(timeouts, t)
      BY <2>2
    <3>2. LET r == nn_timerset_rm(timeouts, t)
          IN  /\ r \in Seq(Handle) /\ SetOK(r)
              /\ \A u : Among(r, u) <=> Among(timeouts, u) /\ u # t
              /\ \A k \in 1 .. Len(r) : \E i \in 1 .. Len(timeouts) : r[k] = timeouts[i]
      BY <1>6, RemovedHandle
    <3> QED
      BY <3>1, <3>2
  <2>4. /\ timer' \in [Timers -> [state : States, timeout : -1 .. MaxTimeout]]
        /\ timer'[t].state = "IDLE" /\ \A u \in Timers : u # t => timer'[u] = timer[u]
    BY <2>2 DEF TypeOK, States
  <2>5. /\ told'[t] \in Told /\ told'[t][Len(told'[t])] = "STOPPED" /\ told' \in [Timers -> Seq({"TIMEOUT", "STOPPED"})]
        /\ \A u \in Timers : u # t => told'[u] = told[u]
    <3>1. told[t] \in Untold /\ told'[t] = Append(told[t], "STOPPED")
      BY <1>6, <2>1, <2>2 DEF TimerInv, TypeOK
    <3>2. Append(told[t], "STOPPED") \in {<<"STOPPED">>, <<"TIMEOUT", "STOPPED">>}
      <4>1. CASE told[t] = <<>>
        BY <4>1
      <4>2. CASE told[t] = <<"TIMEOUT">>
        BY <4>2, Two, "TIMEOUT" \in {"TIMEOUT", "STOPPED"}, "STOPPED" \in {"TIMEOUT", "STOPPED"}
      <4> QED
        BY <3>1, <4>1, <4>2 DEF Untold
    <3> QED
      BY <2>2, <3>1, <3>2 DEF TypeOK, Told
  <2>6. TypeOK'
    BY <1>2, <1>3, <2>2, <2>3, <2>4, <2>5 DEF TypeOK, TaskObj, Handle
  <2>7. SetInv'
    <3>1. \A k \in 1 .. Len(timeouts') : left[timeouts'[k].tm] <= timeouts'[k].due
      BY <2>3 DEF SetInv
    <3> QED
      BY <1>2, <2>3, <3>1 DEF SetInv, SetOK
  <2>8. \A u \in Timers : Armed(u)' <=> Armed(u) /\ u # t
    BY <2>3 DEF Armed, Among
  <2>9. ASSUME NEW u \in Timers, u # t
        PROVE  TimerInv(u)'
    BY <1>2, <1>5, <2>4, <2>5, <2>8, <2>9, Frame
  <2>10. TimerInv(t)'
    BY <1>2, <1>6, <2>1, <2>4, <2>5, <2>8 DEF TimerInv
  <2> QED
    BY <1>2, <1>3, <2>2, <2>5, <2>6, <2>7, <2>9, <2>10
<1> QED
  BY <1>7, <1>8 DEF TaskObj

\* A tick brings every instant nearer and keeps the order of the set.
LEMMA TickStep ==
  ASSUME IInv, Tick
  PROVE  IInv'
<1> USE DEF IInv
<1>1. /\ timeouts' = [i \in 1 .. Len(timeouts) |-> [timeouts[i] EXCEPT !.due = Less(timeouts[i].due)]]
      /\ left' = [t \in Timers |-> Less(left[t])]
      /\ UNCHANGED <<timer, tasks, local, pc, ready, popped, told, bad>>
  BY DEF Tick
<1>2. timeouts \in Seq(Handle) /\ SetOK(timeouts) /\ left \in [Timers -> 0 .. MaxTimeout]
  BY HandleOf DEF TypeOK, SetInv
<1>3. \A m, n \in 0 .. MaxTimeout : Less(m) \in 0 .. MaxTimeout /\ (m <= n => Less(m) <= Less(n)) /\ (m = 0 => Less(m) = 0)
  BY TimerAssumption DEF Less
<1>4. \A h \in Handle : LET g == [h EXCEPT !.due = Less(h.due)]
                         IN  g \in Handle /\ g.tm = h.tm /\ g.due = Less(h.due)
  BY <1>3 DEF Handle
<1>5. \A i \in 1 .. Len(timeouts) : timeouts[i] \in Handle
  BY <1>2
<1>6. timeouts' \in Seq(Handle) /\ Len(timeouts') = Len(timeouts)
      /\ \A i \in 1 .. Len(timeouts) : timeouts'[i].tm = timeouts[i].tm /\ timeouts'[i].due = Less(timeouts[i].due)
  <2> DEFINE H(i) == [timeouts[i] EXCEPT !.due = Less(timeouts[i].due)]
  <2>1. \A i \in 1 .. Len(timeouts) : H(i) \in Handle /\ H(i).tm = timeouts[i].tm /\ H(i).due = Less(timeouts[i].due)
    BY <1>4, <1>5
  <2>2. timeouts' = [i \in 1 .. Len(timeouts) |-> H(i)] /\ Len(timeouts) \in Nat
    BY <1>1, <1>2
  <2> HIDE DEF H
  <2>3. timeouts' \in Seq(Handle)
    BY <2>1, <2>2
  <2>4. Len(timeouts') = Len(timeouts)
    BY <2>2
  <2>5. \A i \in 1 .. Len(timeouts) : timeouts'[i] = H(i)
    BY <2>2
  <2> QED
    BY <2>1, <2>3, <2>4, <2>5
<1>7. QueueInv' /\ \A src, u : Has(src, u)' <=> Has(src, u)
  BY <1>1, Taken
<1>8. \A u \in Timers : Armed(u)' <=> Armed(u)
  BY <1>6 DEF Armed, Among
<1>9. TypeOK'
  <2>1. left' \in [Timers -> 0 .. MaxTimeout]
    BY <1>1, <1>2, <1>3
  <2> QED
    BY <1>1, <1>6, <2>1 DEF TypeOK, Handle
<1>10. SetInv'
  <2>1. \A i \in 1 .. Len(timeouts) : timeouts[i].due \in 0 .. MaxTimeout /\ timeouts[i].tm \in Timers
    BY <1>5 DEF Handle
  <2>2. SetOK(timeouts')
    <3>1. ASSUME NEW i \in 1 .. Len(timeouts), NEW j \in 1 .. Len(timeouts), i < j
          PROVE  timeouts'[i].due <= timeouts'[j].due /\ timeouts'[i].tm # timeouts'[j].tm
      <4>1. timeouts[i].due <= timeouts[j].due /\ timeouts[i].tm # timeouts[j].tm
        BY <1>2, <3>1 DEF SetOK
      <4>2. Less(timeouts[i].due) <= Less(timeouts[j].due)
        BY <1>3, <2>1, <4>1
      <4> QED
        BY <1>6, <4>1, <4>2
    <3>2. Len(timeouts') = Len(timeouts)
      BY <1>6
    <3> QED
      BY <3>1, <3>2 DEF SetOK
  <2>3. \A i \in 1 .. Len(timeouts) : left'[timeouts[i].tm] <= Less(timeouts[i].due)
    BY <1>1, <1>2, <1>3, <2>1 DEF SetInv
  <2> QED
    BY <1>6, <2>2, <2>3 DEF SetInv
<1>11. ASSUME NEW u \in Timers
       PROVE  TimerInv(u)'
  <2>1. timer'[u] = timer[u] /\ told'[u] = told[u] /\ left'[u] = Less(left[u]) /\ popped' = popped
        /\ left[u] \in 0 .. MaxTimeout /\ timer[u].timeout \in -1 .. MaxTimeout
    BY <1>1, <1>2 DEF TypeOK
  <2>2. left'[u] <= left[u] /\ (left[u] = 0 => left'[u] = 0) /\ left'[u] \in 0 .. MaxTimeout
    BY <2>1, TimerAssumption DEF Less
  <2>3. left[u] <= timer[u].timeout => left'[u] <= timer[u].timeout
    <3>1. left[u] \in Int /\ left'[u] \in Int /\ timer[u].timeout \in Int /\ left'[u] <= left[u]
      BY <2>1, <2>2, TimerAssumption
    <3> QED
      BY <3>1
  <2>4. (Has("START", u)' <=> Has("START", u)) /\ (Has("STOP", u)' <=> Has("STOP", u)) /\ (Armed(u)' <=> Armed(u))
    BY <1>7, <1>8
  <2>5. TimerInv(u)
    OBVIOUS
  <2> QED
    BY <2>1, <2>2, <2>3, <2>4, <2>5, Nearer
<1> QED
  BY <1>1, <1>7, <1>9, <1>10, <1>11
-----------------------------------------------------------------------------
LEMMA InitIInv == Init => IInv
<1> SUFFICES ASSUME Init PROVE IInv
  OBVIOUS
<1>1. Q = <<>> /\ timeouts = <<>>
  BY DEF Init, Q
<1>2. TypeOK
  <2>1. -1 \in -1 .. MaxTimeout /\ 0 \in 0 .. MaxTimeout
    BY TimerAssumption
  <2>2. nn_timer_init \in [state : States, timeout : -1 .. MaxTimeout]
    BY <2>1 DEF nn_timer_init, States
  <2>3. timer \in [Timers -> [state : States, timeout : -1 .. MaxTimeout]] /\ left \in [Timers -> 0 .. MaxTimeout]
    BY <2>1, <2>2 DEF Init
  <2>4. told \in [Timers -> Seq({"TIMEOUT", "STOPPED"})]
    BY DEF Init
  <2>5. timeouts \in Seq([tm : Timers, due : 0 .. MaxTimeout])
    BY DEF Init
  <2>6. tasks \in Seq([src : {"START", "STOP"}, tm : Timers]) /\ local \in Seq([src : {"START", "STOP"}, tm : Timers])
    BY DEF Init
  <2> QED
    BY <2>3, <2>4, <2>5, <2>6 DEF Init, TypeOK
<1>3. QueueInv /\ SetInv
  BY <1>1 DEF QueueInv, SetInv, SetOK
<1>4. \A t \in Timers : ~Has("START", t) /\ ~Has("STOP", t) /\ ~Armed(t)
  BY <1>1 DEF Has, Armed, Among
<1>5. \A t \in Timers : TimerInv(t)
  BY <1>4, TimerAssumption DEF Init, TimerInv, nn_timer_init, Told, Untold
<1> QED
  BY <1>2, <1>3, <1>5 DEF Init, IInv

\* What a step may tell an owner: a timeout only when it is due.
DueOnly ==
  \A t \in Timers : told'[t] # told[t] /\ told'[t] # <<>> /\ told'[t][Len(told'[t])] = "TIMEOUT" => left[t] = 0

\* Every step keeps the invariant and tells no owner of an early timeout.
LEMMA Inductive == IInv /\ [Next]_vars => IInv' /\ [DueOnly]_vars
<1> SUFFICES ASSUME IInv, [Next]_vars PROVE IInv' /\ [DueOnly]_vars
  OBVIOUS
<1>1. CASE UNCHANGED vars
  <2>1. QueueInv' /\ \A src, u : Has(src, u)' <=> Has(src, u)
    BY <1>1, Taken DEF IInv, vars
  <2>2. \A u \in Timers : Armed(u)' <=> Armed(u)
    BY <1>1 DEF Armed, Among, vars
  <2>3. ASSUME NEW u \in Timers PROVE TimerInv(u)'
    BY <1>1, <2>1, <2>2, <2>3, Frame DEF IInv, vars
  <2> QED
    BY <1>1, <2>1, <2>3 DEF IInv, TypeOK, SetInv, SetOK, vars
<1>2. CASE \E t \in Timers : Stop(t)
  <2>1. told' = told
    BY <1>2 DEF Stop
  <2> QED
    BY <1>2, <2>1, StopStep DEF DueOnly
<1>3. CASE \E t \in Timers : \E n \in 0 .. MaxTimeout : Start(t, n)
  <2>1. \A u \in Timers : told'[u] = told[u] \/ told'[u] = <<>>
    BY <1>3 DEF Start, IInv, TypeOK
  <2> QED
    BY <1>3, <2>1, StartStep DEF DueOnly
<1>4. CASE Wait \/ TakeTasks
  <2>1. told' = told
    BY <1>4 DEF Wait, TakeTasks
  <2> QED
    BY <1>4, <2>1, QueueStep DEF DueOnly
<1>5. CASE Expire
  <2>1. told' = told
    BY <1>5 DEF Expire
  <2> QED
    BY <1>5, <2>1, ExpireStep DEF DueOnly
<1>6. CASE FeedExpired
  BY <1>6, FeedStep DEF DueOnly
<1>7. CASE RunTask
  BY <1>7, RunStep DEF DueOnly
<1>8. CASE Tick
  <2>1. told' = told
    BY <1>8 DEF Tick
  <2> QED
    BY <1>8, <2>1, TickStep DEF DueOnly
<1> QED
  BY <1>1, <1>2, <1>3, <1>4, <1>5, <1>6, <1>7, <1>8 DEF Next, Worker

\* The invariant gives what the model promises of every state.
LEMMA Consequences == IInv => NeverBad /\ AtMostOneTimeout /\ NoneOverlooked
<1> SUFFICES ASSUME IInv PROVE NeverBad /\ AtMostOneTimeout /\ NoneOverlooked
  OBVIOUS
<1>1. QuietWhenIdle
  <2> SUFFICES ASSUME NEW t \in Timers, timer[t].state = "IDLE"
               PROVE  popped # t /\ \A h \in Range(timeouts) \cup Range(tasks) \cup Range(local) : h.tm # t
    BY DEF QuietWhenIdle
  <2>1. ~Has("START", t) /\ ~Has("STOP", t) /\ ~Armed(t) /\ popped # t
    BY DEF IInv, TimerInv
  <2>2. \A i \in 1 .. Len(timeouts) : timeouts[i].tm # t
    BY <2>1 DEF Armed, Among
  <2>3. tasks \in Seq(TaskObj) /\ local \in Seq(TaskObj)
    BY DEF IInv, TypeOK, TaskObj
  <2>4. \A i \in 1 .. Len(Q) : Q[i].tm # t
    BY <2>1, TaskOf DEF IInv
  <2>5. /\ Len(Q) = Len(local) + Len(tasks)
        /\ \A i \in 1 .. Len(local) : Q[i] = local[i]
        /\ \A i \in 1 .. Len(tasks) : Q[Len(local) + i] = tasks[i]
    BY <2>3 DEF Q
  <2>6. \A i \in 1 .. Len(local) : local[i].tm # t
    BY <2>3, <2>4, <2>5
  <2>7. \A i \in 1 .. Len(tasks) : tasks[i].tm # t
    <3>1. \A i \in 1 .. Len(tasks) : Len(local) + i \in 1 .. Len(Q)
      BY <2>3, <2>5
    <3> QED
      BY <2>4, <2>5, <3>1
  <2>8. /\ DOMAIN timeouts = 1 .. Len(timeouts) /\ DOMAIN tasks = 1 .. Len(tasks)
        /\ DOMAIN local = 1 .. Len(local)
    BY <2>3 DEF IInv, TypeOK
  <2>9. (\A h \in Range(timeouts) : h.tm # t) /\ (\A h \in Range(tasks) : h.tm # t)
        /\ (\A h \in Range(local) : h.tm # t)
    BY <2>2, <2>6, <2>7, <2>8, Zenon DEF Range
  <2> QED
    BY <2>1, <2>9
<1>2. AtMostOneTimeout
  BY DEF IInv, TimerInv, Told, Untold, AtMostOneTimeout
<1>3. NoneOverlooked
  <2> SUFFICES ASSUME NEW i \in 1 .. Len(timeouts), timeouts[i].due = 0
               PROVE  timeouts # <<>> /\ timeouts[1].due = 0 /\ Head(timeouts) = timeouts[1]
    BY DEF NoneOverlooked, Range, nn_timerset_timeout
  <2>1. timeouts \in Seq(Handle) /\ SetOK(timeouts)
    BY HandleOf DEF IInv, SetInv
  <2>2. 1 \in 1 .. Len(timeouts) /\ timeouts # <<>> /\ Head(timeouts) = timeouts[1]
    BY <2>1
  <2>3. timeouts[1].due \in 0 .. MaxTimeout
    <3>1. timeouts[1] \in Handle
      BY <2>1, <2>2
    <3> QED
      BY <3>1 DEF Handle
  <2>4. 1 < i => timeouts[1].due <= timeouts[i].due
    BY <2>1, <2>2 DEF SetOK
  <2> QED
    BY <2>2, <2>3, <2>4, TimerAssumption
<1> QED
  BY <1>1, <1>2, <1>3 DEF IInv, NeverBad

\* With any number of timers and any timeouts, nothing the worker holds
\* reaches a timer in a state that does not expect it, and a stopped timer is
\* left alone (timer.c's handlers, timer.c:60).
THEOREM TimersNeverBad == Spec => []NeverBad
<1>1. Init => IInv
  BY InitIInv
<1>2. IInv /\ [Next]_vars => IInv'
  BY Inductive
<1>3. IInv => NeverBad
  BY Consequences
<1> QED
  BY <1>1, <1>2, <1>3, PTL DEF Spec

\* A start is followed by at most one timeout, never an early one, and the
\* worker never waits past the first of the set (timerset.c:83).
THEOREM TimersOnTime == Spec => OnTime
<1>1. Init => IInv
  BY InitIInv
<1>2. IInv /\ [Next]_vars => IInv' /\ [DueOnly]_vars
  BY Inductive
<1>3. IInv => AtMostOneTimeout /\ NoneOverlooked
  BY Consequences
<1> QED
  BY <1>1, <1>2, <1>3, PTL DEF Spec, OnTime, NeverEarly, DueOnly
=============================================================================
