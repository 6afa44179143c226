------------------------------- MODULE Xpair --------------------------------
(***************************************************************************)
(* The PAIR socket (protocols/pair/xpair.c) and nn_excl, which holds its   *)
(* one pipe: the socket of both the cache server and its client.  sk is    *)
(* the nn_excl, [pipe, inpipe, outpipe].                                   *)
(***************************************************************************)
EXTENDS PipeBase

OrNone == Pipes \cup {NoPipe}
TypeOK == PipesTypeOK /\ sk \in [pipe : OrNone, inpipe : OrNone, outpipe : OrNone]

nn_excl_init == [pipe |-> NoPipe, inpipe |-> NoPipe, outpipe |-> NoPipe]

Init == PipesInit /\ sk = nn_excl_init

Refuses(p) == sk.pipe # NoPipe

\* -EISCONN leaves the pipe that is there.
nn_excl_add(p) ==
  /\ sk' = IF Refuses(p) THEN sk ELSE [sk EXCEPT !.pipe = p]
  /\ UNCHANGED bad

nn_excl_rm(p) == bad' = (sk.pipe = NoPipe) /\ sk' = nn_excl_init

nn_excl_in(p) ==
  /\ bad' = (sk.inpipe # NoPipe \/ p # sk.pipe)
  /\ sk' = [sk EXCEPT !.inpipe = p]

nn_excl_out(p) ==
  /\ bad' = (sk.outpipe # NoPipe \/ p # sk.pipe)
  /\ sk' = [sk EXCEPT !.outpipe = p]

\* Without a pipe that is ready both calls return -EAGAIN.
nn_excl_send ==
  LET p == sk.outpipe
  IN  /\ Quiet /\ p # NoPipe
      /\ \E release \in SendReleases(p) :
           /\ pipe' = [pipe EXCEPT ![p] = nn_pipe_send(p, release)]
           /\ sk' = IF release THEN [sk EXCEPT !.outpipe = NoPipe] ELSE sk
      /\ evq' \in MayBreak(evq, p)
      /\ bad' = ~Sendable(p)

nn_excl_recv ==
  LET p == sk.inpipe
  IN  /\ Quiet /\ p # NoPipe
      /\ \E release \in RecvReleases(p) :
           /\ pipe' = [pipe EXCEPT ![p] = nn_pipe_recv(p, release)]
           /\ sk' = IF release THEN [sk EXCEPT !.inpipe = NoPipe] ELSE sk
      /\ evq' \in MayBreak(evq, p)
      /\ bad' = ~Receivable(p)

nn_xpair_events == {e \in {"IN", "OUT"} : IF e = "IN" THEN sk.inpipe # NoPipe
                                                      ELSE sk.outpipe # NoPipe}

\* What the connections do.
Transport(p) ==
  \/ nn_pipebase_start(p, Refuses(p)) /\ nn_excl_add(p)
  \/ (nn_pipebase_received(p) \/ nn_pipebase_sent(p)) /\ UNCHANGED <<sk, bad>>
  \/ nn_pipebase_stop(p, "ACTIVE") /\ nn_excl_rm(p)
  \/ nn_pipebase_stop(p, "FAILED") /\ UNCHANGED <<sk, bad>>
  \/ nn_sock_handler(p, "IN") /\ nn_excl_in(p)
  \/ nn_sock_handler(p, "OUT") /\ nn_excl_out(p)

Next ==
  \/ \E p \in Pipes : Transport(p)
  \/ nn_excl_send
  \/ nn_excl_recv

-----------------------------------------------------------------------------
\* What the socket says it can do is what the transport of its peer can do.
OffersTrue ==
  nn_xpair_events = {e \in {"IN", "OUT"} : \E p \in Pipes : pipe[p].state = "ACTIVE"
                                      /\ IF e = "IN" THEN Receivable(p) ELSE Sendable(p)}
=============================================================================
