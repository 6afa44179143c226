-------------------------------- MODULE Dist --------------------------------
(***************************************************************************)
(* nn_dist (protocols/utils/dist.c): the pipes that can take a message,    *)
(* each of which gets a copy of it.  A distributor is [count, pipes].      *)
(***************************************************************************)
EXTENDS PipeBase

DistType == [count : Int, pipes : Seq(Pipes)]

nn_dist_init == [count |-> 0, pipes |-> <<>>]

Out(d) == ToSet(d.pipes)

\* Fault: the count is not taken back.
nn_dist_rm_uncounted(d, p) == [d EXCEPT !.pipes = SelectSeq(@, LAMBDA q : q # p)]

nn_dist_rm(d, p) ==
  IF p \in Out(d) THEN [count |-> d.count - 1, pipes |-> SelectSeq(d.pipes, LAMBDA q : q # p)]
  ELSE d

nn_dist_out(d, p) == [count |-> d.count + 1, pipes |-> Append(d.pipes, p)]

\* The pipes that get a copy, and the list after: a pipe that took one is
\* released, the excluded one stays.
Copied(d, exclude) == SelectSeq(d.pipes, LAMBDA q : q # exclude)

nn_dist_send(d, exclude) ==
  LET kept == SelectSeq(d.pipes, LAMBDA q : q = exclude)
  IN  [count |-> d.count - Len(Copied(d, exclude)), pipes |-> kept]

\* The calls of nn_pipe_send; any of the connections may turn out broken.
SendTo(list) ==
  /\ pipe' = [p \in Pipes |-> IF p \in ToSet(list) THEN nn_pipe_send(p, TRUE) ELSE pipe[p]]
  /\ \E broken \in SUBSET ToSet(list) :
       evq' = evq \o LET s == SelectSeq(list, LAMBDA p : p \in broken)
                     IN  [i \in DOMAIN s |-> Event(s[i], "ERROR")]
  /\ bad' = \E p \in ToSet(list) : ~Sendable(p)
-----------------------------------------------------------------------------
\* As many copies are made as were announced to nn_msg_bulkcopy_start, one
\* for each pipe that can take it.
DistTrue(d) ==
  /\ d.count = Len(d.pipes)
  /\ Out(d) = {p \in Pipes : pipe[p].state = "ACTIVE" /\ Sendable(p)}
=============================================================================
