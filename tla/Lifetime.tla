------------------------------ MODULE Lifetime ------------------------------
(***************************************************************************)
(* What the holds on a socket promise (nn_sock_hold, nn_sock_rele and      *)
(* nn_close): the memory of a socket is there as long as somebody refers   *)
(* to it.  refs are the references that exist, <<who, n>>; the table of    *)
(* sockets has one of its own, which nn_close takes over.  The counter     *)
(* holds is decremented in two halves, a read and a write, and those of    *)
(* nn_close are not protected by the lock the others take: decrements may  *)
(* overwrite each other.                                                   *)
(***************************************************************************)
EXTENDS Integers, FiniteSets

CONSTANTS Threads, Table

VARIABLES
  st,        \* "new", "open", "closing" or "freed"
  holds,     \* nn_sock.holds
  refs,
  reg,       \* what a thread in the middle of a decrement has read, or -1
  relesem    \* times the semaphore was posted and not yet waited for

vars == <<st, holds, refs, reg, relesem>>

Between == {t \in Threads : reg[t] # -1}

Init ==
  /\ st = "new" /\ holds = 1 /\ refs = {} /\ relesem = 0
  /\ reg = [t \in Threads |-> -1]

Create == st = "new" /\ st' = "open" /\ refs' = {<<Table, 1>>} /\ UNCHANGED <<holds, reg, relesem>>

\* Only an open socket is held, and the lock keeps other decrements away.
Hold(t) ==
  /\ st = "open" /\ Between = {}
  /\ <<t, 1>> \notin refs
  /\ holds' = holds + 1 /\ refs' = refs \cup {<<t, 1>>}
  /\ UNCHANGED <<st, reg, relesem>>

\* nn_close: the reference of the table becomes the second one of the caller.
Close(t) ==
  /\ st = "open" /\ <<t, 1>> \in refs
  /\ st' = "closing" /\ refs' = (refs \ {<<Table, 1>>}) \cup {<<t, 2>>}
  /\ UNCHANGED <<holds, reg, relesem>>

\* The first half of nn_sock_rele.
Read(t) ==
  /\ \E n \in 1 .. 2 : <<t, n>> \in refs
  /\ reg[t] = -1 /\ reg' = [reg EXCEPT ![t] = holds]
  /\ UNCHANGED <<st, holds, refs, relesem>>

\* The second half; the one who comes to zero posts the semaphore.
Write(t) ==
  /\ reg[t] # -1
  /\ \E n \in 1 .. 2 : <<t, n>> \in refs /\ refs' = refs \ {<<t, n>>}
  /\ holds' = reg[t] - 1
  /\ reg' = [reg EXCEPT ![t] = -1]
  /\ relesem' = IF reg[t] = 1 THEN relesem + 1 ELSE relesem
  /\ UNCHANGED st

\* nn_sock_term has waited for the semaphore ...
Wait == relesem > 0 /\ relesem' = relesem - 1 /\ st = "closing" /\ st' = "ending" /\ UNCHANGED <<holds, refs, reg>>

\* ... and nn_close gives the memory back.
Free == st = "ending" /\ st' = "freed" /\ UNCHANGED <<holds, refs, reg, relesem>>

Next == Create \/ Wait \/ Free \/ \E t \in Threads : Hold(t) \/ Close(t) \/ Read(t) \/ Write(t)

Spec == Init /\ [][Next]_vars
-----------------------------------------------------------------------------
\* Nobody refers to a socket whose end has begun, whatever decrements were lost.
NoneLeft == st \in {"ending", "freed"} => refs = {}
=============================================================================
