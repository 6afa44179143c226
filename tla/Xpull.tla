------------------------------- MODULE Xpull --------------------------------
(***************************************************************************)
(* The PULL socket (protocols/pipeline/xpull.c): messages come from the    *)
(* pipes through the fair queue.  sk is [fq, data].                        *)
(***************************************************************************)
EXTENDS Priolist

TypeOK == PipesTypeOK /\ sk \in [fq : PriolistType, data : SUBSET Pipes]

Init == PipesInit /\ sk = [fq |-> nn_priolist_init, data |-> {}]

nn_xpull_add(p) == sk' = [sk EXCEPT !.data = @ \cup {p}] /\ UNCHANGED bad

nn_xpull_rm(p) ==
  /\ bad' = (p \notin sk.data)
  /\ sk' = [fq |-> nn_fq_rm(sk.fq, p), data |-> sk.data \ {p}]

nn_xpull_in(p) ==
  IF p \in sk.data /\ p \notin Ready(sk.fq)
  THEN sk' = [sk EXCEPT !.fq = nn_fq_in(@, p)] /\ UNCHANGED bad
  ELSE bad' = TRUE /\ UNCHANGED sk

nn_xpull_out(p) == UNCHANGED <<sk, bad>>

nn_xpull_recv ==
  /\ Quiet /\ nn_fq_can_recv(sk.fq)
  /\ \E s \in FqRecv([pipe |-> pipe, fq |-> sk.fq, evq |-> evq, bad |-> bad]) :
       /\ pipe' = s.pipe /\ evq' = s.evq /\ bad' = s.bad
       /\ sk' = [sk EXCEPT !.fq = s.fq]

\* What the connections do.
Transport(p) ==
  \/ nn_pipebase_start(p, FALSE) /\ nn_xpull_add(p)
  \/ (nn_pipebase_received(p) \/ nn_pipebase_sent(p)) /\ UNCHANGED <<sk, bad>>
  \/ nn_pipebase_stop(p, "ACTIVE") /\ nn_xpull_rm(p)
  \/ nn_sock_handler(p, "IN") /\ nn_xpull_in(p)
  \/ nn_sock_handler(p, "OUT") /\ nn_xpull_out(p)

Next ==
  \/ \E p \in Pipes : Transport(p)
  \/ nn_xpull_recv
-----------------------------------------------------------------------------
\* The fair queue holds exactly the pipes with a message.
OffersTrue == Ready(sk.fq) = {p \in Pipes : pipe[p].state = "ACTIVE" /\ Receivable(p)}

InOrder == Ordered(sk.fq)
=============================================================================
