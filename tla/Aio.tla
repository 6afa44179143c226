-------------------------------- MODULE Aio ---------------------------------
(***************************************************************************)
(* What the stream transports are built on: the state machines of aio/     *)
(* fsm.c with their queue of events, the sockets of the operating system   *)
(* (usock), timers, name resolution and the pipe each session offers to    *)
(* its nanomsg socket (core/pipe.c).                                       *)
(*                                                                         *)
(* One endpoint is a tree of machines: the endpoint E; for a bound one the *)
(* listening usock L and, in every slot i, the accepted connection A(i);   *)
(* a usock U(i), a session S(i), its handshake H(i) and the handshake's    *)
(* timer T(i).  A connecting endpoint uses slot 1 without A(1).            *)
(*                                                                         *)
(* All of it lives in one context (aio/ctx.c): a thread that enters finds  *)
(* the queue empty and processes every event before it leaves.  Operators  *)
(* take the state w of the endpoint and return the next one, or the set of *)
(* the next ones when the operating system or the peer decides.            *)
(***************************************************************************)
EXTENDS Integers, Sequences, FiniteSets, SequencesExt

CONSTANTS
  Slots,   \* slots for connections: one for each, and one for the next to be accepted
  Busy     \* the transports whose bound endpoints fill them; others have one connection at a time

E == <<"e", 0>>       \* the endpoint: nn_ctcp, nn_btcp, nn_cipc ...
L == <<"l", 0>>       \* the usock of a bound endpoint
Retry == <<"r", 0>>   \* nn_backoff
Dns == <<"d", 0>>     \* nn_dns
Sock == <<"k", 0>>    \* the nanomsg socket
A(i) == <<"a", i>>    \* nn_atcp ...
U(i) == <<"u", i>>    \* nn_usock
S(i) == <<"s", i>>    \* nn_stcp ...
H(i) == <<"h", i>>    \* nn_streamhdr or nn_ws_handshake
T(i) == <<"t", i>>    \* its nn_timer
P(i) == <<"p", i>>    \* nn_pipebase

Objects == {E, L, Retry, Dns} \cup ({"a", "u", "s", "h", "t"} \X Slots)
Usocks == {L} \cup ({"u"} \X Slots)

NoSlot == 0

\* The machine that owns another one; a usock has the owner it was given last.
Parent(w, o) ==
  CASE o[1] = "t" -> H(o[2])
    [] o[1] = "h" -> S(o[2])
    [] o[1] \in {"s", "u"} -> IF w.role = "bind" THEN A(o[2]) ELSE E
    [] o[1] = "p" -> Sock
    [] OTHER -> E

Owner(w, o) == IF o \in Usocks THEN w.own[o] ELSE Parent(w, o)

Set(w, o, state) == [w EXCEPT !.st[o] = state]

\* An assertion fails or nn_fsm_bad_* is reached: the process aborts.
Bad(w, what) == IF w.bad = <<>> THEN [w EXCEPT !.bad = what] ELSE w
nn_fsm_bad(w, e) == Bad(w, <<e.to[1], w.st[e.to], e.from[1], e.type>>)

\* The owner of a machine gets its event, after those raised before.
nn_fsm_raise(w, o, type) ==
  [w EXCEPT !.q = Append(@, [to |-> Owner(w, o), from |-> o, type |-> type])]

\* A machine is idle once its owner has seen that it stopped.
nn_fsm_isidle(w, o) ==
  /\ w.st[o] = "IDLE"
  /\ \A k \in DOMAIN w.q : w.q[k].from # o \/ w.q[k].type # "STOPPED"

nn_fsm_stopped(w, o) ==
  nn_fsm_raise([w EXCEPT !.st[o] = "IDLE", !.stop = @ \ {o}], o, "STOPPED")

\* nn_fsm_stop does nothing unless the machine is started and not stopping.
Stoppable(w, o) == w.st[o] # "IDLE" /\ o \notin w.stop

Stopping(w, o) == [w EXCEPT !.stop = @ \cup {o}]

\* A machine that raises its last event; its owner will stop it.
Done(w, o, type) == nn_fsm_raise(Set(w, o, "DONE"), o, type)
-----------------------------------------------------------------------------
\* Timers: started once, they time out at most once; stopping one takes a
\* task of the worker thread (module Timer).
nn_timer_start(w, t) ==
  IF nn_fsm_isidle(w, t) THEN Set(w, t, "ACTIVE") ELSE Bad(w, <<"assert", "nn_timer_start">>)

nn_timer_stop(w, t) == IF w.st[t] \in {"ACTIVE", "FIRED"} THEN Set(w, t, "STOPPING") ELSE w

nn_timer_isidle(w, t) == nn_fsm_isidle(w, t)

\* The worker thread runs the timer or its stop task.
TimerEvent(w, t) ==
  (IF w.st[t] = "ACTIVE" THEN {nn_fsm_raise(Set(w, t, "FIRED"), t, "TIMEOUT")} ELSE {})
    \cup (IF w.st[t] = "STOPPING" THEN {nn_fsm_stopped(w, t)} ELSE {})

\* The delay grows from one start to the next; how long it is does not matter here.
nn_backoff_start(w) == nn_timer_start(w, Retry)
nn_backoff_stop(w) == nn_timer_stop(w, Retry)
nn_backoff_isidle(w) == nn_timer_isidle(w, Retry)

\* A literal address is resolved at once, a name by a thread of the C library
\* that cannot always be cancelled.
nn_dns_start(w) ==
  IF ~nn_fsm_isidle(w, Dns) THEN {Bad(w, <<"assert", "nn_dns_start">>)}
  ELSE {Done(w, Dns, "DONE"), Set(w, Dns, "RESOLVING")}

nn_dns_stop(w) ==
  CASE w.st[Dns] = "RESOLVING" -> {nn_fsm_stopped(w, Dns), Set(w, Dns, "STOPPING")}
    [] w.st[Dns] = "DONE" -> {nn_fsm_stopped(w, Dns)}
    [] OTHER -> {w}

DnsEvent(w) ==
  CASE w.st[Dns] = "RESOLVING" -> {Done(w, Dns, "DONE")}
    [] w.st[Dns] = "STOPPING" -> {nn_fsm_stopped(w, Dns)}
    [] OTHER -> {}
-----------------------------------------------------------------------------
\* nn_usock (aio/usock_posix.inc).
nn_usock_swap_owner(w, u, o) == [w EXCEPT !.own[u] = o]

nn_usock_isidle(w, u) == nn_fsm_isidle(w, u)

\* socket() succeeded; the object must not hold another file descriptor.
nn_usock_start(w, u) ==
  IF w.st[u] = "IDLE" THEN Set(w, u, "STARTING") ELSE Bad(w, <<"assert", "nn_usock_start">>)

nn_usock_start_fd(w, u) ==
  LET x == nn_usock_start(w, u) IN Set(x, u, "ACTIVE")

nn_usock_connect(w, u) ==
  {nn_fsm_raise(Set(w, u, "ACTIVE"), u, "CONNECTED"),
   nn_fsm_raise(Set(w, u, "DONE"), u, "ERROR"),
   Set(w, u, "CONNECTING")}

nn_usock_activate(w, u) ==
  IF w.st[u] = "ACCEPTED" THEN Set(w, u, "ACTIVE") ELSE Bad(w, <<"assert", "nn_usock_activate">>)

\* The file descriptor is taken from the poller; the owner is warned.
nn_usock_async_stop(w, u) == nn_fsm_raise([w EXCEPT !.op[u] = {}], u, "SHUTDOWN")

\* A send or receive completes at once, later, or finds the connection reset.
Transfer(w, u, dir, done) ==
  IF w.st[u] # "ACTIVE" THEN {Bad(w, <<"assert", "nn_usock_" \o dir>>)}
  ELSE IF dir \in w.op[u] THEN {Bad(w, <<"twice", "nn_usock_" \o dir>>)}
  ELSE {nn_fsm_raise(w, u, done),
        [w EXCEPT !.op[u] = @ \cup {dir}],
        nn_usock_async_stop(Set(w, u, "REMOVING_FD"), u)}

nn_usock_send(w, u) == Transfer(w, u, "send", "SENT")
nn_usock_recv(w, u) == Transfer(w, u, "recv", "RECEIVED")

\* Room for the connection and for the one accepted next.
CanAccept(w) == Cardinality(w.list) + 1 < (IF w.tr \in Busy THEN Cardinality(Slots) ELSE 2)

Accepted(w, i) == nn_fsm_raise([w EXCEPT !.st[U(i)] = "ACCEPTED", !.st[L] = "LISTENING"], U(i), "ACCEPTED")

\* The listener reports an error of accept() once, until it is stopped.
AcceptError(w) ==
  nn_fsm_raise([w EXCEPT !.st[L] = "ACCEPTING_ERROR", !.errnum = TRUE], L, "ACCEPT_ERROR")

nn_usock_accept(w, i) ==
  IF w.st[L] \notin {"LISTENING", "ACCEPTING_ERROR"} THEN {Bad(w, <<"assert", "nn_usock_accept">>)}
  ELSE LET x == [w EXCEPT !.st[U(i)] = "BEING_ACCEPTED", !.st[L] = "ACCEPTING"] IN
       {x} \cup (IF CanAccept(w) THEN {Accepted(x, i)} ELSE {})
           \cup (IF w.errnum THEN {} ELSE {AcceptError(x)})

nn_usock_stop(w, u) ==
  CASE ~Stoppable(w, u) -> w
    [] w.st[u] \in {"DONE", "STARTING", "ACCEPTED", "ACCEPTING_ERROR", "LISTENING"} ->
         nn_fsm_stopped(IF u = L THEN [w EXCEPT !.errnum = FALSE] ELSE w, u)
    [] w.st[u] = "BEING_ACCEPTED" ->
         IF w.st[L] = "ACCEPTING"
         THEN Stopping([w EXCEPT !.st[u] = "STOPPING_ACCEPT", !.st[L] = "CANCELLING"], u)
         ELSE Bad(w, <<"assert", "nn_usock_stop">>)
    [] w.st[u] = "REMOVING_FD" -> Stopping(Set(w, u, "STOPPING"), u)
    [] w.st[u] \in {"ACTIVE", "CONNECTING"} ->
         Stopping(Set(nn_usock_async_stop(w, u), u, "STOPPING"), u)
    [] OTHER -> Bad(w, <<"assert", "nn_usock_stop">>)

\* What the worker thread tells a usock: a connect ends, the data is through,
\* the peer is gone (which is noticed whether or not data is awaited), or the
\* task that removes the file descriptor has run.
UsockTask(w, u) ==
  CASE w.st[u] = "CONNECTING" ->
         {nn_fsm_raise(Set(w, u, "ACTIVE"), u, "CONNECTED"), nn_fsm_raise(Set(w, u, "DONE"), u, "ERROR")}
    [] w.st[u] = "REMOVING_FD" -> {nn_fsm_raise(Set(w, u, "DONE"), u, "ERROR")}
    [] w.st[u] = "STOPPING" -> {nn_fsm_stopped(w, u)}
    [] OTHER -> {}

UsockFd(w, u) ==
  IF w.st[u] # "ACTIVE" THEN {}
  ELSE {nn_fsm_raise([w EXCEPT !.op[u] = {}, !.st[u] = "DONE"], u, "ERROR")}
         \cup {nn_fsm_raise([w EXCEPT !.op[u] = @ \ {dir}], u,
                            IF dir = "send" THEN "SENT" ELSE "RECEIVED") : dir \in w.op[u]}

\* A peer connects, or accept() fails; w.acc is the slot being filled.
ListenerFd(w) ==
  IF w.st[L] # "ACCEPTING" THEN {}
  ELSE {AcceptError(w)} \cup (IF CanAccept(w) THEN {Accepted(w, w.acc)} ELSE {})

\* The accept is cancelled; the usock that was being accepted stops.
ListenerTask(w) ==
  IF w.st[L] # "CANCELLING" THEN {}
  ELSE {nn_fsm_stopped(Set(w, L, "LISTENING"), U(w.acc))}
-----------------------------------------------------------------------------
NoFrame == [op |-> "NONE", fin |-> TRUE, len |-> "none"]

\* nn_pipebase (core/pipe.c).  The socket type may refuse the pipe.  FIRST_OUT is
\* the NN_PIPE_OUT that tells it of a new pipe.
nn_pipebase_start(w, i) ==
  LET x(state) == [w EXCEPT !.pipe[i] = [st |-> state, in |-> "ASYNC", out |-> "IDLE"]] IN
  IF w.pipe[i].st # "IDLE" THEN {Bad(w, <<"assert", "nn_pipebase_start">>)}
  ELSE {x("FAILED"), nn_fsm_raise(x("ACTIVE"), P(i), "FIRST_OUT")}

\* What the pipe and the session were at is not looked at again; both are set
\* anew when they start.
nn_pipebase_stop(w, i) ==
  [w EXCEPT !.pipe[i] = [st |-> "IDLE", in |-> "IDLE", out |-> "IDLE"], !.ins[i] = "NEW", !.frame[i] = NoFrame]

nn_pipebase_received(w, i) ==
  CASE w.pipe[i].in = "RECEIVING" -> [w EXCEPT !.pipe[i].in = "RECEIVED"]
    [] w.pipe[i].in = "ASYNC" -> nn_fsm_raise([w EXCEPT !.pipe[i].in = "IDLE"], P(i), "IN")
    [] OTHER -> Bad(w, <<"assert", "nn_pipebase_received">>)

nn_pipebase_sent(w, i) ==
  CASE w.pipe[i].out = "SENDING" -> [w EXCEPT !.pipe[i].out = "SENT"]
    [] w.pipe[i].out = "ASYNC" -> nn_fsm_raise([w EXCEPT !.pipe[i].out = "IDLE"], P(i), "OUT")
    [] OTHER -> Bad(w, <<"assert", "nn_pipebase_sent">>)

\* The end of nn_pipe_send and nn_pipe_recv, which call the session between
\* these two: it may have completed, or will call back.
PipeSending(w, i) ==
  IF w.pipe[i].out = "IDLE" THEN [w EXCEPT !.pipe[i].out = "SENDING"]
  ELSE Bad(w, <<"assert", "nn_pipe_send">>)
nn_pipe_send(w, i) == [w EXCEPT !.pipe[i].out = IF @ = "SENT" THEN "IDLE" ELSE "ASYNC"]

PipeReceiving(w, i) ==
  IF w.pipe[i].in = "IDLE" THEN [w EXCEPT !.pipe[i].in = "RECEIVING"]
  ELSE Bad(w, <<"assert", "nn_pipe_recv">>)
nn_pipe_recv(w, i) == [w EXCEPT !.pipe[i].in = IF @ = "RECEIVED" THEN "IDLE" ELSE "ASYNC"]
-----------------------------------------------------------------------------
\* The list of accepted connections of a bound endpoint.
FreeSlots(w) == Slots \ (w.list \cup {w.acc})

\* The connection is over and its session is not started again.
Forget(w, i) ==
  [w EXCEPT !.ins[i] = "NEW", !.outs[i] = "NEW", !.frame[i] = NoFrame, !.cont[i] = "NONE",
            !.frags[i] = FALSE, !.split[i] = FALSE, !.agreed[i] = FALSE]

\* The termination functions of a connection and of all it is made of insist
\* that everything is idle.
Term(w, i) ==
  IF /\ \A o \in {A(i), U(i), S(i), H(i), T(i)} : nn_fsm_isidle(w, o)
     /\ w.pipe[i].st = "IDLE"
  THEN [Forget(w, i) EXCEPT !.held = @ \ {A(i), S(i), H(i)}, !.list = @ \ {i},
                            !.acc = IF @ = i THEN NoSlot ELSE @, !.own[U(i)] = A(i)]
  ELSE Bad(w, <<"assert", "term">>)

\* nn_epbase_stopped: the socket destroys the endpoint, whose parts must be idle.
Stopped(w) ==
  LET x == [w EXCEPT !.st[E] = "IDLE", !.stop = @ \ {E}, !.ep = "STOPPED"] IN
  IF \A o \in Objects : x.st[o] = "IDLE" THEN x ELSE Bad(x, <<"assert", "destroy">>)
=============================================================================
