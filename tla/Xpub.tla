-------------------------------- MODULE Xpub --------------------------------
(***************************************************************************)
(* The PUB socket (protocols/pubsub/xpub.c): every message goes to every   *)
(* pipe that can take it.  sk is [dist, data].                             *)
(***************************************************************************)
EXTENDS Dist

TypeOK == PipesTypeOK /\ sk \in [dist : DistType, data : SUBSET Pipes]

Init == PipesInit /\ sk = [dist |-> nn_dist_init, data |-> {}]

nn_xpub_add(p) == sk' = [sk EXCEPT !.data = @ \cup {p}] /\ UNCHANGED bad

nn_xpub_rm(p) ==
  /\ bad' = (p \notin sk.data)
  /\ sk' = [dist |-> nn_dist_rm(sk.dist, p), data |-> sk.data \ {p}]

nn_xpub_out(p) ==
  IF p \in sk.data /\ p \notin Out(sk.dist)
  THEN sk' = [sk EXCEPT !.dist = nn_dist_out(@, p)] /\ UNCHANGED bad
  ELSE bad' = TRUE /\ UNCHANGED sk

\* With no pipe ready the message is dropped: a publisher never waits.
nn_xpub_send ==
  /\ Quiet /\ sk.dist.count # 0
  /\ SendTo(Copied(sk.dist, NoPipe))
  /\ sk' = [sk EXCEPT !.dist = nn_dist_send(@, NoPipe)]

\* What the connections do.  Subscribers send nothing, so no pipe of a
\* publisher ever has a message: nn_xpub_in, nn_assert (0), is not reached.
Transport(p) ==
  \/ nn_pipebase_start(p, FALSE) /\ nn_xpub_add(p)
  \/ nn_pipebase_sent(p) /\ UNCHANGED <<sk, bad>>
  \/ nn_pipebase_stop(p, "ACTIVE") /\ nn_xpub_rm(p)
  \/ nn_sock_handler(p, "OUT") /\ nn_xpub_out(p)

Next == (\E p \in Pipes : Transport(p)) \/ nn_xpub_send
-----------------------------------------------------------------------------
\* A message is copied for exactly the subscribers that can take it.
OffersTrue == DistTrue(sk.dist)
=============================================================================
