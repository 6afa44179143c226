------------------------------- MODULE Xpush --------------------------------
(***************************************************************************)
(* The PUSH socket (protocols/pipeline/xpush.c): each message goes to one  *)
(* pipe, which the load balancer chooses.  sk is [lb, data, waited]: the   *)
(* load balancer, the pipes with a nn_xpush_data, and, for each pipe, those *)
(* that were sent to since it became ready or was sent to itself.          *)
(***************************************************************************)
EXTENDS Priolist

TypeOK ==
  /\ PipesTypeOK
  /\ sk \in [lb : PriolistType, data : SUBSET Pipes, waited : [Pipes -> SUBSET Pipes]]

Init ==
  /\ PipesInit
  /\ sk = [lb |-> nn_priolist_init, data |-> {}, waited |-> [p \in Pipes |-> {}]]

nn_xpush_add(p) == sk' = [sk EXCEPT !.data = @ \cup {p}] /\ UNCHANGED bad

\* Fault: the pipe stays with the load balancer.
nn_xpush_rm_keeps(p) == bad' = (p \notin sk.data) /\ sk' = [sk EXCEPT !.data = @ \ {p}]

nn_xpush_rm(p) ==
  /\ bad' = (p \notin sk.data)
  /\ sk' = [sk EXCEPT !.data = @ \ {p}, !.lb = nn_lb_rm(@, p)]

nn_xpush_in(p) == UNCHANGED <<sk, bad>>

\* An item that is in a list already must not be inserted again.
nn_xpush_out(p) ==
  IF p \in sk.data /\ p \notin Ready(sk.lb)
  THEN sk' = [sk EXCEPT !.lb = nn_lb_out(@, p), !.waited[p] = {}] /\ UNCHANGED bad
  ELSE bad' = TRUE /\ UNCHANGED sk

Served(p) == [q \in Pipes |-> IF q = p THEN {} ELSE sk.waited[q] \cup {p}]

nn_xpush_send ==
  LET p == nn_priolist_getpipe(sk.lb)
  IN  /\ Quiet /\ nn_lb_can_send(sk.lb)
      /\ \E release \in SendReleases(p) :
           /\ pipe' = [pipe EXCEPT ![p] = nn_pipe_send(p, release)]
           /\ sk' = [sk EXCEPT !.lb = nn_lb_send(@, release), !.waited = Served(p)]
      /\ evq' \in MayBreak(evq, p)
      /\ bad' = ~Sendable(p)

\* What the connections do.
Transport(p) ==
  \/ nn_pipebase_start(p, FALSE) /\ nn_xpush_add(p)
  \/ (nn_pipebase_received(p) \/ nn_pipebase_sent(p)) /\ UNCHANGED <<sk, bad>>
  \/ nn_pipebase_stop(p, "ACTIVE") /\ nn_xpush_rm(p)
  \/ nn_sock_handler(p, "IN") /\ nn_xpush_in(p)
  \/ nn_sock_handler(p, "OUT") /\ nn_xpush_out(p)

Next ==
  \/ \E p \in Pipes : Transport(p)
  \/ nn_xpush_send
-----------------------------------------------------------------------------
\* The load balancer offers exactly the pipes that can take a message.
OffersTrue == Ready(sk.lb) = {p \in Pipes : pipe[p].state = "ACTIVE" /\ Sendable(p)}

InOrder == Ordered(sk.lb)

\* The pipe that is sent to has not been sent to since another one of its
\* priority, which was ready all along, was sent to.
InTurn ==
  \A p \in Pipes : pipe[p].out = "IDLE" /\ pipe'[p].out = "ASYNC" /\ pipe'[p].state = "ACTIVE" =>
    \A q \in Ready(sk.lb) \ {p} : Prio[q] = Prio[p] => p \notin sk.waited[q]
=============================================================================
