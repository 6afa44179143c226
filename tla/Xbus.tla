-------------------------------- MODULE Xbus --------------------------------
(***************************************************************************)
(* The BUS socket, raw and not (protocols/bus/xbus.c, bus.c).  A message   *)
(* goes to all pipes, in a raw socket to all but the one in its header;    *)
(* the header of a received message is the pipe it came from.  sk is [fq,  *)
(* dist, data, raw, from]: from is the header of the last message the      *)
(* application got, which it may send on at any later time.                *)
(***************************************************************************)
EXTENDS Priolist, Dist

TypeOK ==
  PipesTypeOK /\ sk \in [fq : PriolistType, dist : DistType, data : SUBSET Pipes,
                         raw : BOOLEAN, from : Pipes \cup {NoPipe}]

Init ==
  /\ PipesInit
  /\ \E raw \in BOOLEAN : sk = [fq |-> nn_priolist_init, dist |-> nn_dist_init, data |-> {},
                                raw |-> raw, from |-> NoPipe]

nn_xbus_add(p) == sk' = [sk EXCEPT !.data = @ \cup {p}] /\ UNCHANGED bad

nn_xbus_rm(p) ==
  /\ bad' = (p \notin sk.data)
  /\ sk' = [sk EXCEPT !.fq = nn_fq_rm(@, p), !.dist = nn_dist_rm(@, p), !.data = @ \ {p}]

nn_xbus_in(p) ==
  IF p \in sk.data /\ p \notin Ready(sk.fq)
  THEN sk' = [sk EXCEPT !.fq = nn_fq_in(@, p)] /\ UNCHANGED bad
  ELSE bad' = TRUE /\ UNCHANGED sk

nn_xbus_out(p) ==
  IF p \in sk.data /\ p \notin Out(sk.dist)
  THEN sk' = [sk EXCEPT !.dist = nn_dist_out(@, p)] /\ UNCHANGED bad
  ELSE bad' = TRUE /\ UNCHANGED sk

\* A header of another size is -EINVAL and changes nothing.
nn_xbus_send(exclude) ==
  /\ Quiet /\ sk.dist.count # 0
  /\ SendTo(Copied(sk.dist, exclude))
  /\ sk' = [sk EXCEPT !.dist = nn_dist_send(@, exclude)]

\* Messages that come with a header are dropped.
nn_xbus_recv ==
  /\ Quiet /\ nn_fq_can_recv(sk.fq)
  /\ \E s \in Skips({[pipe |-> pipe, fq |-> sk.fq, evq |-> evq, bad |-> bad]}) :
     \E t \in IF nn_fq_can_recv(s.fq) THEN FqRecv(s) ELSE {s} :
       /\ pipe' = t.pipe /\ evq' = t.evq /\ bad' = t.bad
       /\ sk' = [sk EXCEPT !.fq = t.fq,
                           !.from = IF sk.raw THEN nn_priolist_getpipe(s.fq) ELSE NoPipe]

\* What the connections do.
Transport(p) ==
  \/ nn_pipebase_start(p, FALSE) /\ nn_xbus_add(p)
  \/ (nn_pipebase_received(p) \/ nn_pipebase_sent(p)) /\ UNCHANGED <<sk, bad>>
  \/ nn_pipebase_stop(p, "ACTIVE") /\ nn_xbus_rm(p)
  \/ nn_sock_handler(p, "IN") /\ nn_xbus_in(p)
  \/ nn_sock_handler(p, "OUT") /\ nn_xbus_out(p)

\* A socket that is not raw refuses a header and strips the one it gets.
Next ==
  \/ \E p \in Pipes : Transport(p)
  \/ nn_xbus_send(sk.from)
  \/ nn_xbus_recv
-----------------------------------------------------------------------------
\* The socket deals exactly with the pipes that have a message, and that can
\* take one.
OffersTrue ==
  /\ Ready(sk.fq) = {p \in Pipes : pipe[p].state = "ACTIVE" /\ Receivable(p)}
  /\ DistTrue(sk.dist)

InOrder == Ordered(sk.fq)
=============================================================================
