-------------------------------- MODULE Xsub --------------------------------
(***************************************************************************)
(* The SUB socket (protocols/pubsub/xsub.c): messages come through the     *)
(* fair queue, and those that match no subscription are dropped.  The trie *)
(* is modelled in Trie; here a subscription is a topic and a message has   *)
(* one.  sk is [fq, data, topics, got]: got is the topic of the message    *)
(* the last nn_recv returned, "EAGAIN" if it found none.                   *)
(***************************************************************************)
EXTENDS Priolist

CONSTANT Topics

TypeOK ==
  PipesTypeOK /\ sk \in [fq : PriolistType, data : SUBSET Pipes, topics : SUBSET Topics,
                         got : Topics \cup {"EAGAIN"}]

Init ==
  PipesInit /\ sk = [fq |-> nn_priolist_init, data |-> {}, topics |-> {}, got |-> "EAGAIN"]

nn_xsub_add(p) == sk' = [sk EXCEPT !.data = @ \cup {p}] /\ UNCHANGED bad

nn_xsub_rm(p) ==
  /\ bad' = (p \notin sk.data)
  /\ sk' = [sk EXCEPT !.fq = nn_fq_rm(@, p), !.data = @ \ {p}]

nn_xsub_in(p) ==
  IF p \in sk.data /\ p \notin Ready(sk.fq)
  THEN sk' = [sk EXCEPT !.fq = nn_fq_in(@, p)] /\ UNCHANGED bad
  ELSE bad' = TRUE /\ UNCHANGED sk

nn_xsub_out(p) == UNCHANGED <<sk, bad>>

\* Messages that match nothing are skipped until one matches or none is left.
nn_xsub_recv ==
  /\ Quiet /\ nn_fq_can_recv(sk.fq)
  /\ \E s \in IF sk.topics = Topics THEN {[pipe |-> pipe, fq |-> sk.fq, evq |-> evq, bad |-> bad]}
              ELSE Skips({[pipe |-> pipe, fq |-> sk.fq, evq |-> evq, bad |-> bad]}) :
     \E got \in IF nn_fq_can_recv(s.fq) THEN sk.topics ELSE {"EAGAIN"} :
     \E t \in IF nn_fq_can_recv(s.fq) THEN FqRecv(s) ELSE {s} :
       /\ pipe' = t.pipe /\ evq' = t.evq /\ bad' = t.bad
       /\ sk' = [sk EXCEPT !.fq = t.fq, !.got = got]

nn_xsub_setopt(t) ==
  /\ Quiet
  /\ \/ sk' = [sk EXCEPT !.topics = @ \cup {t}]
     \/ sk' = [sk EXCEPT !.topics = @ \ {t}]
  /\ UNCHANGED <<pipe, evq, bad>>

\* What the connections do.
Transport(p) ==
  \/ nn_pipebase_start(p, FALSE) /\ nn_xsub_add(p)
  \/ (nn_pipebase_received(p) \/ nn_pipebase_sent(p)) /\ UNCHANGED <<sk, bad>>
  \/ nn_pipebase_stop(p, "ACTIVE") /\ nn_xsub_rm(p)
  \/ nn_sock_handler(p, "IN") /\ nn_xsub_in(p)
  \/ nn_sock_handler(p, "OUT") /\ nn_xsub_out(p)

Next ==
  \/ \E p \in Pipes : Transport(p)
  \/ nn_xsub_recv
  \/ \E t \in Topics : nn_xsub_setopt(t)
-----------------------------------------------------------------------------
OffersTrue == Ready(sk.fq) = {p \in Pipes : pipe[p].state = "ACTIVE" /\ Receivable(p)}

InOrder == Ordered(sk.fq)

\* When nn_recv finds nothing, nothing is left in any pipe: no matching
\* message stays behind one that does not match, for which the application
\* would wait although the socket has told it to (xsub.c:168).
NothingLeft == \A p \in Pipes :
  sk.got # "EAGAIN" /\ sk'.got = "EAGAIN" => ~(pipe'[p].state = "ACTIVE" /\ pipe'[p].in = "IDLE")
=============================================================================
