-------------------------------- MODULE Trie --------------------------------
(***************************************************************************)
(* The subscriptions of a SUB socket (protocols/pubsub/trie.c): a patricia *)
(* trie whose nodes hold a prefix of at most PrefixMax characters and have *)
(* a sparse array of at most SparseMax children or, beyond that, a dense   *)
(* one for a range of characters.                                          *)
(*                                                                         *)
(* A pointer is <<>> or <<node>>.  A node is [ref, prefix, dense, min,     *)
(* nbr, chars, kids]: a sparse one has the child kids[k] for the character *)
(* chars[k]; a dense one has kids[k] for the character min + k - 1, <<>>   *)
(* where there is none, and counts the others in nbr.                      *)
(***************************************************************************)
EXTENDS Integers, Sequences, FiniteSets, SequencesExt

CONSTANTS PrefixMax,   \* NN_TRIE_PREFIX_MAX, 10 in the code
          SparseMax,   \* NN_TRIE_SPARSE_MAX, 8 in the code
          Topics,      \* the strings to subscribe to
          Data,        \* the messages to match
          MaxRef       \* bound on the subscriptions to one string

VARIABLES trie,   \* the root pointer
          subs,   \* the subscriptions made: how often each topic is subscribed
          slip,   \* a call was made that the trie is known not to handle
          crash   \* a null pointer was followed

vars == <<trie, subs, slip, crash>>

Null == <<>>
Drop(s, n) == SubSeq(s, n + 1, Len(s))
Take(s, n) == SubSeq(s, 1, n)

Sparse(ref, prefix, chars, kids) ==
  [ref |-> ref, prefix |-> prefix, dense |-> FALSE, min |-> 0, nbr |-> 0, chars |-> chars, kids |-> kids]
Dense(prefix, min, kids) ==
  [ref |-> 0, prefix |-> prefix, dense |-> TRUE, min |-> min,
   nbr |-> Cardinality({k \in DOMAIN kids : kids[k] # Null}), chars |-> <<>>, kids |-> kids]

nn_node_has_subscribers(n) == n.ref > 0

\* How many characters of the prefix the data starts with.
nn_node_check_prefix(n, data) == Len(LongestCommonPrefix({n.prefix, data}))

\* The index of the child for character c, 0 if there is no place for it.
nn_node_next(n, c) ==
  IF n.dense THEN (IF c - n.min + 1 \in DOMAIN n.kids THEN c - n.min + 1 ELSE 0)
  ELSE IF \E k \in DOMAIN n.chars : n.chars[k] = c
       THEN CHOOSE k \in DOMAIN n.chars : n.chars[k] = c ELSE 0

\* A node with one child that is no subscription itself is merged with the
\* child if the prefixes fit into one node.
nn_node_compact(n) ==
  IF nn_node_has_subscribers(n) \/ n.dense \/ Len(n.kids) # 1 THEN n
  ELSE LET ch == n.kids[1][1] IN
       IF Len(n.prefix) + Len(ch.prefix) + 1 > PrefixMax THEN n
       ELSE [ch EXCEPT !.prefix = n.prefix \o n.chars \o ch.prefix]
-----------------------------------------------------------------------------
\* Step 4 (and 5): the nodes for the rest of the subscription.
RECURSIVE NewNodes(_)
NewNodes(data) ==
  IF Len(data) > PrefixMax
  THEN <<Sparse(0, Take(data, PrefixMax), <<data[PrefixMax + 1]>>, <<NewNodes(Drop(data, PrefixMax + 1))>>)>>
  ELSE <<Sparse(1, data, <<>>, <<>>)>>

\* Step 2: the node is split behind the first pos characters of its prefix.
Split(n, pos) ==
  LET ch == nn_node_compact([n EXCEPT !.prefix = Drop(@, pos + 1)])
  IN Sparse(0, Take(n.prefix, pos), <<n.prefix[pos + 1]>>, <<<<ch>>>>)

\* Variant: the children stay where they are when the array grows to the left.
Widen_unmoved(n, c) ==
  LET max == n.min + Len(n.kids) - 1
      lo == IF c < n.min THEN c ELSE n.min
      hi == IF c > max THEN c ELSE max
  IN [n EXCEPT !.min = lo, !.kids = [k \in 1 .. hi - lo + 1 |-> IF k \in DOMAIN n.kids THEN n.kids[k] ELSE Null]]

\* The dense array of a node grown to cover c.
Widen(n, c) ==
  LET max == n.min + Len(n.kids) - 1
      lo == IF c < n.min THEN c ELSE n.min
      hi == IF c > max THEN c ELSE max
  IN [n EXCEPT !.min = lo,
               !.kids = [k \in 1 .. hi - lo + 1 |->
                           IF lo + k - 1 \in n.min .. max THEN n.kids[lo + k - n.min] ELSE Null]]

\* A sparse array that is full becomes a dense one that covers c, too.  The
\* new node starts without subscriptions.
ToDense(n, c) ==
  LET all == Range(n.chars) \cup {c}
      lo == CHOOSE a \in all : \A b \in all : a <= b
      hi == CHOOSE a \in all : \A b \in all : a >= b
  IN Dense(n.prefix, lo, [k \in 1 .. hi - lo + 1 |->
       IF lo + k - 1 \in Range(n.chars) THEN n.kids[nn_node_next(n, lo + k - 1)] ELSE Null])

\* Step 3: a new child for the first character of data.
AddBranch(n, data) ==
  LET c == Head(data)
      new == NewNodes(Tail(data))
      m == IF n.dense THEN Widen(n, c) ELSE ToDense(n, c)
  IN IF ~n.dense /\ Len(n.kids) < SparseMax
     THEN [n EXCEPT !.chars = Append(@, c), !.kids = Append(@, new)]
     ELSE [m EXCEPT !.nbr = @ + 1, !.kids[c - m.min + 1] = new]

Subscribed(n) == [n EXCEPT !.ref = @ + 1]

\* Step 1, and the steps it leads to.
RECURSIVE nn_trie_subscribe(_, _)
nn_trie_subscribe(p, data) ==
  IF p = Null THEN NewNodes(data)
  ELSE LET n == p[1]
           pos == nn_node_check_prefix(n, data)
           rest == Drop(data, pos)
           next == IF rest = <<>> THEN 0 ELSE nn_node_next(n, Head(rest))
       IN CASE pos < Len(n.prefix) ->
                 <<IF rest = <<>> THEN Subscribed(Split(n, pos)) ELSE AddBranch(Split(n, pos), rest)>>
            [] pos = Len(n.prefix) /\ rest = <<>> -> <<Subscribed(n)>>
            [] pos = Len(n.prefix) /\ rest # <<>> /\ (next = 0 \/ (next # 0 /\ n.kids[next] = Null)) ->
                 <<AddBranch(n, rest)>>
            [] OTHER -> <<[n EXCEPT !.kids[next] = nn_trie_subscribe(@, Tail(rest))]>>
-----------------------------------------------------------------------------
\* Some string leads from the node to a subscription.
RECURSIVE Leads(_)
Leads(p) == p # Null /\ (nn_node_has_subscribers(p[1]) \/ \E k \in DOMAIN p[1].kids : Leads(p[1].kids[k]))

\* The possible answers.  Where the data ends at a node without subscription,
\* the code goes on with what follows the data in memory.
RECURSIVE nn_trie_match(_, _)
nn_trie_match(p, data) ==
  IF p = Null THEN {FALSE}
  ELSE LET n == p[1]
           rest == Drop(data, Len(n.prefix))
           next == nn_node_next(n, Head(rest))
       IN CASE nn_node_check_prefix(n, data) # Len(n.prefix) -> {FALSE}
            [] nn_node_check_prefix(n, data) = Len(n.prefix) /\ nn_node_has_subscribers(n) -> {TRUE}
            [] nn_node_check_prefix(n, data) = Len(n.prefix) /\ ~nn_node_has_subscribers(n) /\ rest = <<>> ->
                 {FALSE, Leads(p)}
            [] OTHER -> IF next = 0 THEN {FALSE} ELSE nn_trie_match(n.kids[next], Tail(rest))
-----------------------------------------------------------------------------
\* The array without the empty places at the given end.
RECURSIVE TrimLeft(_)
TrimLeft(n) == IF n.kids[1] # Null THEN n ELSE TrimLeft([n EXCEPT !.kids = Tail(@), !.min = @ + 1])
RECURSIVE TrimRight(_)
TrimRight(n) == IF Last(n.kids) # Null \/ Len(n.kids) = 1 THEN n ELSE TrimRight([n EXCEPT !.kids = Front(@)])

\* A dense array with SparseMax children left becomes sparse, again in a node
\* that starts without subscriptions.
ToSparse(n) ==
  LET used == SetToSortSeq({k \in DOMAIN n.kids : n.kids[k] # Null}, <)
  IN Sparse(0, n.prefix, [j \in DOMAIN used |-> n.min + used[j] - 1], [j \in DOMAIN used |-> n.kids[used[j]]])

\* Child k, for character c, is gone.
RemoveBranch(n, k, c) ==
  IF ~n.dense
  THEN LET m == [n EXCEPT !.chars = RemoveAt(@, k), !.kids = RemoveAt(@, k)] IN
       IF m.kids = <<>> /\ ~nn_node_has_subscribers(m) THEN Null ELSE <<nn_node_compact(m)>>
  ELSE IF n.nbr > SparseMax + 1
  THEN LET m == [n EXCEPT !.nbr = @ - 1] IN
       <<IF k = 1 THEN TrimLeft(m) ELSE IF k = Len(n.kids) THEN TrimRight(m) ELSE m>>
  ELSE <<ToSparse(n)>>

\* The end of the subscription is reached, wherever in a prefix that is.
Unsubscribed(p) ==
  LET n == p[1]
      m == [n EXCEPT !.ref = @ - 1]
  IN CASE p = Null \/ (p # Null /\ ~nn_node_has_subscribers(n)) -> [rc |-> "EINVAL", p |-> p]
       [] p # Null /\ nn_node_has_subscribers(n) /\ m.ref > 0 -> [rc |-> "0", p |-> <<m>>]
       [] OTHER -> [rc |-> "1", p |-> IF m.kids = <<>> THEN Null ELSE <<nn_node_compact(m)>>]

\* Any answer but 0 of the recursive call counts as a removal.
RECURSIVE nn_node_unsubscribe(_, _)
nn_node_unsubscribe(p, data) ==
  CASE data = <<>> -> Unsubscribed(p)
    [] data # <<>> /\ p = Null -> [rc |-> "crash", p |-> p]
    [] OTHER ->
      LET n == p[1]
          rest == Drop(data, Len(n.prefix))
          next == nn_node_next(n, Head(rest))
          sub == nn_node_unsubscribe(n.kids[next], Tail(rest))
          m == [n EXCEPT !.kids[next] = sub.p]
      IN CASE nn_node_check_prefix(n, data) # Len(n.prefix) -> [rc |-> "0", p |-> p]
           [] nn_node_check_prefix(n, data) = Len(n.prefix) /\ rest = <<>> -> Unsubscribed(p)
           [] nn_node_check_prefix(n, data) = Len(n.prefix) /\ rest # <<>> ->
                IF next = 0 THEN [rc |-> "0", p |-> p]
                ELSE IF sub.rc \in {"0", "crash"} THEN [rc |-> sub.rc, p |-> <<m>>]
                ELSE [rc |-> "1", p |-> IF sub.p # Null THEN <<m>> ELSE RemoveBranch(m, next, Head(rest))]
-----------------------------------------------------------------------------
Init == trie = Null /\ subs = [t \in Topics |-> 0] /\ slip = FALSE /\ crash = FALSE

\* A topic is subscribed and the topics that continue it do so with more
\* characters than a sparse array has room for.
Crowded(sub) ==
  \E t \in Topics : sub[t] > 0 /\
    Cardinality({u[Len(t) + 1] : u \in {v \in Topics : sub[v] > 0 /\ IsStrictPrefix(t, v)}}) > SparseMax

\* The calls are followed up to the first one the trie does not handle.
Subscribe(t) ==
  /\ ~slip /\ subs[t] < MaxRef
  /\ trie' = nn_trie_subscribe(trie, t)
  /\ subs' = [subs EXCEPT ![t] = @ + 1]
  /\ slip' = (slip \/ Crowded(subs'))
  /\ UNCHANGED crash

Unsubscribe(t) ==
  /\ ~slip
  /\ LET r == nn_node_unsubscribe(trie, t) IN
       /\ trie' = r.p /\ crash' = (r.rc = "crash")
       /\ subs' = [subs EXCEPT ![t] = IF @ = 0 THEN 0 ELSE @ - 1]
       /\ slip' = (slip \/ subs[t] = 0)

Next == \E t \in Topics : Subscribe(t) \/ Unsubscribe(t)

Spec == Init /\ [][Next]_vars
-----------------------------------------------------------------------------
Wanted(d) == \E t \in Topics : subs[t] > 0 /\ IsPrefix(t, d)

\* The shape of a node: nothing is kept that is not needed for a subscription,
\* and the arrays are what their mode says.
Child(n) == {n.kids[k] : k \in DOMAIN n.kids} \ {Null}
RECURSIVE WellFormed(_)
WellFormed(n) ==
  /\ Len(n.prefix) <= PrefixMax
  /\ IF n.dense
     THEN n.nbr = Cardinality({k \in DOMAIN n.kids : n.kids[k] # Null}) /\ n.nbr > SparseMax
          /\ n.kids[1] # Null /\ Last(n.kids) # Null
     ELSE Len(n.chars) = Len(n.kids) /\ Len(n.kids) <= SparseMax /\ Null \notin Range(n.kids)
          /\ IsInjective(n.chars)
  /\ n.kids = <<>> => nn_node_has_subscribers(n)
  /\ \A p \in Child(n) : WellFormed(p[1])

\* Whatever sequence of subscriptions led there, every node leads to a
\* subscription, its arrays are in order and following its pointers is safe.
Tidy == ~slip => ~crash /\ (trie # Null => WellFormed(trie[1]))

\* nn_trie_match says that a message matches exactly when it starts with a
\* topic that was subscribed more often than unsubscribed, as long as only
\* subscribed topics are unsubscribed and no subscribed one is crowded.  A
\* message that is the beginning of a longer topic only is either not matched or,
\* if a node ends with it, left to chance; it is never sure to match.
Matches ==
  /\ Tidy
  /\ ~slip => \A d \in Data :
       \/ nn_trie_match(trie, d) = {Wanted(d)}
       \/ ~Wanted(d) /\ FALSE \in nn_trie_match(trie, d)
          /\ \E t \in Topics : subs[t] > 0 /\ IsStrictPrefix(d, t)
=============================================================================
