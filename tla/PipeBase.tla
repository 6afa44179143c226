------------------------------ MODULE PipeBase ------------------------------
(***************************************************************************)
(* nn_pipebase (core/pipe.c): the pipes between the transports and one     *)
(* socket, and the queue of events in the socket's context.  A thread that *)
(* enters the context finds the queue empty and processes it to the end    *)
(* before it leaves (aio/ctx.c), so a step that comes from outside starts  *)
(* with an empty queue.  The transport is external: it completes a send or *)
(* a receive at once or later, and a connection may break at any moment,   *)
(* even during the call that uses it; the session learns of that by an     *)
(* event of its own, ERROR, behind the ones already queued.                *)
(***************************************************************************)
EXTENDS Integers, Sequences, SequencesExt

CONSTANTS
  Pipes,
  AtOnce   \* pipes whose transport may hold the next message already (inproc, ws)

VARIABLES
  pipe,   \* [state, in, out] of each nn_pipebase
  evq,    \* nn_ctx.events
  sk,     \* the socket type's own structure
  bad     \* an assertion failed or a freed object was used

socket == <<pipe, evq, sk, bad>>

\* Handlers of many steps take and return whole states.
Now == [pipe |-> pipe, evq |-> evq, bad |-> bad, sk |-> sk]
Becomes(W) == \E w \in W : pipe' = w.pipe /\ evq' = w.evq /\ bad' = w.bad /\ sk' = w.sk

NoPipe == "NULL"

PipeState == [state : {"IDLE", "ACTIVE", "FAILED"},
              in    : {"DEACTIVATED", "IDLE", "ASYNC"},
              out   : {"DEACTIVATED", "IDLE", "ASYNC"}]

PipesTypeOK ==
  /\ pipe \in [Pipes -> PipeState]
  /\ evq \in Seq([pipe : Pipes, type : {"IN", "OUT", "ERROR"}])
  /\ bad \in BOOLEAN

nn_pipebase_init == [state |-> "IDLE", in |-> "DEACTIVATED", out |-> "DEACTIVATED"]

PipesInit == pipe = [p \in Pipes |-> nn_pipebase_init] /\ evq = <<>> /\ bad = FALSE

Event(p, type) == [pipe |-> p, type |-> type]
Quiet == evq = <<>> /\ ~bad

nn_fsm_raise(q, p, type) == Append(q, Event(p, type))

\* The connection may turn out broken while it is used; that is told once.
MayBreak(q, p) ==
  IF Event(p, "ERROR") \in ToSet(q) THEN {q} ELSE {q, nn_fsm_raise(q, p, "ERROR")}

\* A session is up; the socket type may have refused the pipe.
nn_pipebase_start(p, refused) ==
  /\ Quiet /\ pipe[p].state = "IDLE"
  /\ pipe' = [pipe EXCEPT ![p] = [state |-> IF refused THEN "FAILED" ELSE "ACTIVE",
                                  in |-> "ASYNC", out |-> "IDLE"]]
  /\ IF refused THEN UNCHANGED evq ELSE evq' \in MayBreak(nn_fsm_raise(evq, p, "OUT"), p)

\* The next event of the queue is this one.
Occurs(p, type) ==
  /\ evq # <<>> /\ ~bad /\ Head(evq) = Event(p, type)
  /\ evq' = Tail(evq)

\* The session ends, because it learns of an error, or because the peer closes
\* or the endpoint is shut down.  Only a pipe that was accepted is removed
\* from the socket.
nn_pipebase_stop(p, state) ==
  /\ pipe[p].state = state
  /\ pipe' = [pipe EXCEPT ![p].state = "IDLE"]
  /\ Occurs(p, "ERROR") \/ (Quiet /\ UNCHANGED evq)

\* nn_sock_handler in ACTIVE hands the events of the pipes to the socket type.
nn_sock_handler(p, type) == Occurs(p, type) /\ UNCHANGED pipe

\* The transport has a message, or room for the next one, after it made the
\* socket wait for it.
nn_pipebase_received(p) ==
  /\ Quiet /\ pipe[p].state = "ACTIVE" /\ pipe[p].in = "ASYNC"
  /\ pipe' = [pipe EXCEPT ![p].in = "IDLE"]
  /\ evq' = nn_fsm_raise(evq, p, "IN")

nn_pipebase_sent(p) ==
  /\ Quiet /\ pipe[p].state = "ACTIVE" /\ pipe[p].out = "ASYNC"
  /\ pipe' = [pipe EXCEPT ![p].out = "IDLE"]
  /\ evq' = nn_fsm_raise(evq, p, "OUT")

\* A message goes to or comes from the transport.  The pipe is released when
\* the transport is not ready for the next one as the call returns: every
\* transport reports a finished send by a later event.
SendReleases(p) == {TRUE}
RecvReleases(p) == IF p \in AtOnce THEN BOOLEAN ELSE {TRUE}
nn_pipe_send(p, release) == [pipe[p] EXCEPT !.out = IF release THEN "ASYNC" ELSE "IDLE"]
nn_pipe_recv(p, release) == [pipe[p] EXCEPT !.in = IF release THEN "ASYNC" ELSE "IDLE"]
Sendable(p) == pipe[p].out = "IDLE"
Receivable(p) == pipe[p].in = "IDLE"
=============================================================================
