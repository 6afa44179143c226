----------------------------- MODULE Transports -----------------------------
(***************************************************************************)
(* One endpoint of a stream transport, bound or connecting, from its       *)
(* creation to its end: the machines of modules Tcp, Ipc, Tcpmux and Ws,   *)
(* composed with the aio layer and the pipe.  Every step is one entry of a *)
(* thread into the context: the application's (Open, UserSend, UserRecv,   *)
(* Close) or the worker's (timers, tasks, file descriptors, resolver); the *)
(* events it raises are processed, one Process step each, before the next  *)
(* thread enters.                                                          *)
(***************************************************************************)
EXTENDS Tcp, Ipc, Tcpmux, Ws

CONSTANT Transport   \* the transports to look at, out of "tcp", "ipc", "tcpmux" and "ws"

VARIABLE w

\* tr and role: what the endpoint is; ep: its life; st: the states of the
\* machines; stop: those told to stop; held: those that have a usock; own: the
\* owners of the usocks; op: their pending operations; q: the queue of events;
\* bad: why the process aborted; list, acc: the connections of a bound endpoint;
\* prog: its contribution to the statistic of connections in progress.
Endpoint(tr, role) ==
  [tr |-> tr, role |-> role, ep |-> "NEW",
   st |-> [o \in Objects |-> "IDLE"], stop |-> {}, held |-> {},
   own |-> [u \in Usocks |-> IF role = "bind" /\ u # L THEN A(u[2]) ELSE E],
   op |-> [u \in Usocks |-> {}], q |-> <<>>, bad |-> <<>>,
   pipe |-> [i \in Slots |-> [st |-> "IDLE", in |-> "IDLE", out |-> "IDLE"]],
   ins |-> [i \in Slots |-> "NEW"], outs |-> [i \in Slots |-> "NEW"],
   list |-> {}, acc |-> NoSlot, errnum |-> FALSE, prog |-> 0,
   cont |-> [i \in Slots |-> "NONE"], frags |-> [i \in Slots |-> FALSE], split |-> [i \in Slots |-> FALSE],
   frame |-> [i \in Slots |-> NoFrame], agreed |-> [i \in Slots |-> FALSE], gone |-> FALSE]

Init == \E tr \in Transport, role \in {"bind", "connect"} : w = Endpoint(tr, role)

Create(x) ==
  CASE x.tr = "tcp" -> IF x.role = "bind" THEN nn_btcp_create(x) ELSE nn_ctcp_create(x)
    [] x.tr = "ipc" -> IF x.role = "bind" THEN nn_bipc_create(x) ELSE nn_cipc_create(x)
    [] x.tr = "tcpmux" -> IF x.role = "bind" THEN nn_btcpmux_create(x) ELSE nn_ctcpmux_create(x)
    [] x.tr = "ws" -> IF x.role = "bind" THEN nn_bws_create(x) ELSE nn_cws_create(x)

Stop(x) ==
  CASE x.tr = "tcp" -> IF x.role = "bind" THEN {nn_btcp_stop(x)} ELSE nn_ctcp_stop(x)
    [] x.tr = "ipc" -> {IF x.role = "bind" THEN nn_bipc_stop(x) ELSE nn_cipc_stop(x)}
    [] x.tr = "tcpmux" -> IF x.role = "bind" THEN {nn_btcpmux_stop(x)} ELSE nn_ctcpmux_stop(x)
    [] x.tr = "ws" -> IF x.role = "bind" THEN {nn_bws_stop(x)} ELSE nn_cws_stop(x)

SessionSend(x, i) ==
  CASE x.tr = "tcp" -> nn_stcp_send(x, i)
    [] x.tr = "ipc" -> nn_sipc_send(x, i)
    [] x.tr = "tcpmux" -> nn_stcpmux_send(x, i)
    [] x.tr = "ws" -> nn_sws_send(x, i)
SessionRecv(x, i) ==
  CASE x.tr = "tcp" -> nn_stcp_recv(x, i)
    [] x.tr = "ipc" -> nn_sipc_recv(x, i)
    [] x.tr = "tcpmux" -> nn_stcpmux_recv(x, i)
    [] x.tr = "ws" -> nn_sws_recv(x, i)

\* A send that removes the pipe leaves the load balancer and the distributor of
\* the socket with an entry that is gone; a PAIR has none.
AfterSend(x, i) ==
  {x} \cup (IF x.pipe[i].st # "ACTIVE" THEN {Bad(x, <<"removed", "nn_pipe_send">>)} ELSE {})

Send(x, i) == UNION {AfterSend(nn_pipe_send(y, i), i) : y \in SessionSend(PipeSending(x, i), i)}
Recv(x, i) == {nn_pipe_recv(y, i) : y \in SessionRecv(PipeReceiving(x, i), i)}

\* The socket must not be told of a pipe that was removed from it.  It notes that
\* the pipe is ready; but a REQ whose request waited for a pipe (nn_req_out) sends
\* it, and receives (nn_req_in), inside the handler.  With the queue empty that is
\* what UserSend and UserRecv do next; with events queued behind, which only such
\* a send brings about for IN, it is not.
SockHandler(x, i, e) ==
  CASE x.pipe[i].st # "ACTIVE" -> {Bad(x, <<"stale", e.type>>)}
    [] x.pipe[i].st = "ACTIVE" /\ e.type = "FIRST_OUT" /\ x.q # <<>> -> {x} \cup Send(x, i)
    [] x.pipe[i].st = "ACTIVE" /\ e.type = "IN" /\ x.q # <<>> -> Recv(x, i)
    [] OTHER -> {x}

Handler(x, e) ==
  LET i == e.to[2] IN
  CASE e.to = Sock -> SockHandler(x, e.from[2], e)
    [] e.to[1] = "h" -> IF x.tr = "ws" THEN nn_ws_handshake_handler(x, i, e) ELSE nn_streamhdr_handler(x, i, e)
    [] x.tr = "tcp" /\ e.to[1] = "s" -> nn_stcp_handler(x, i, e)
    [] x.tr = "tcp" /\ e.to[1] = "a" -> nn_atcp_handler(x, i, e)
    [] x.tr = "tcp" /\ e.to = E -> IF x.role = "bind" THEN nn_btcp_handler(x, e) ELSE nn_ctcp_handler(x, e)
    [] x.tr = "ipc" /\ e.to[1] = "s" -> nn_sipc_handler(x, i, e)
    [] x.tr = "ipc" /\ e.to[1] = "a" -> nn_aipc_handler(x, i, e)
    [] x.tr = "ipc" /\ e.to = E -> IF x.role = "bind" THEN nn_bipc_handler(x, e) ELSE nn_cipc_handler(x, e)
    [] x.tr = "tcpmux" /\ e.to[1] = "s" -> nn_stcpmux_handler(x, i, e)
    [] x.tr = "tcpmux" /\ e.to[1] = "a" -> nn_atcpmux_handler(x, i, e)
    [] x.tr = "tcpmux" /\ e.to = E -> IF x.role = "bind" THEN nn_btcpmux_handler(x, e) ELSE nn_ctcpmux_handler(x, e)
    [] x.tr = "ws" /\ e.to[1] = "s" -> nn_sws_handler(x, i, e)
    [] x.tr = "ws" /\ e.to[1] = "a" -> nn_aws_handler(x, i, e)
    [] x.tr = "ws" /\ e.to = E -> IF x.role = "bind" THEN nn_bws_handler(x, e) ELSE nn_cws_handler(x, e)

Ready == w.ep = "OPEN" /\ w.q = <<>> /\ w.bad = <<>>

Open == w.ep = "NEW" /\ w' \in Create(w)
Process == /\ w.q # <<>> /\ w.bad = <<>>
           /\ w' \in Handler([w EXCEPT !.q = Tail(@)], Head(w.q))
TimerStep(t) == Ready /\ w' \in TimerEvent(w, t)
TaskStep(u) == Ready /\ w' \in UsockTask(w, u)
FdStep(u) == Ready /\ w' \in UsockFd(w, u)
AcceptStep == Ready /\ w' \in ListenerFd(w)
CancelStep == Ready /\ w' \in ListenerTask(w)
DnsStep == Ready /\ w' \in DnsEvent(w)
UserSend(i) == Ready /\ w.pipe[i].st = "ACTIVE" /\ w.pipe[i].out = "IDLE" /\ w' \in Send(w, i)
UserRecv(i) == Ready /\ w.pipe[i].st = "ACTIVE" /\ w.pipe[i].in = "IDLE" /\ w' \in Recv(w, i)
Close == Ready /\ E \notin w.stop /\ w' \in Stop(w)
\* Nothing happens after an abort or once the endpoint is gone.
Over == (w.bad # <<>> \/ w.ep \in {"REFUSED", "STOPPED"}) /\ UNCHANGED w

Timers == {Retry} \cup ({"t"} \X Slots)
Next == \/ Open \/ Process \/ AcceptStep \/ CancelStep \/ DnsStep \/ Close \/ Over
        \/ \E t \in Timers : TimerStep(t)
        \/ \E u \in Usocks : TaskStep(u) \/ FdStep(u)
        \/ \E i \in Slots : UserSend(i) \/ UserRecv(i)

\* What the worker thread does without the help of a peer.
Task == CancelStep \/ DnsStep \/ TimerStep(Retry) \/ \E u \in Usocks : TaskStep(u)

\* The queue of events is always emptied: its events are processed, and a peer
\* does not for ever send as fast as it is read.  The worker gets the context
\* again and again, also when the application keeps using it, for the tasks it
\* has and for the timers that are due.
Fairness ==
  /\ []<>(w.q = <<>> \/ w.bad # <<>>)
  /\ SF_w(Task) /\ \A i \in Slots : SF_w(TimerStep(T(i)))

Spec == Init /\ [][Next]_w /\ Fairness
-----------------------------------------------------------------------------
States ==
  {"IDLE", "DONE", "ACTIVE", "FIRED", "STOPPING", "RESOLVING", "STARTING", "CONNECTING", "BEING_ACCEPTED",
   "ACCEPTED", "LISTENING", "ACCEPTING", "ACCEPTING_ERROR", "CANCELLING", "REMOVING_FD", "STOPPING_ACCEPT",
   "SENDING", "RECEIVING", "STOPPING_TIMER_ERROR", "STOPPING_TIMER_DONE", "PROTOHDR", "STOPPING_STREAMHDR",
   "SHUTTING_DOWN", "CLOSING", "WAITING", "STOPPING_BACKOFF", "STOPPING_DNS", "STOPPING_USOCK",
   "SENDING_BINDREQ", "SENDING_TCPMUXHDR", "RECEIVING_TCPMUXHDR", "SERVER_RECV", "SERVER_REPLY", "CLIENT_SEND",
   "CLIENT_RECV", "HANDSHAKE", "STOPPING_HANDSHAKE", "CLOSING_CONNECTION", "BROKEN_CONNECTION"}
    \cup {"STOPPING_" \o m : m \in {"STCP", "ATCP", "ATCPS", "STCP_FINAL", "SIPC", "AIPC", "AIPCS", "SIPC_FINAL",
          "STCPMUX", "ATCPMUXES", "STCPMUX_FINAL", "SWS", "AWS", "AWSS", "SWS_FINAL"}}

\* Type invariant of an endpoint: every machine of the code is in one of its
\* states and every slot has at most one pipe, frame and message.
TypeOK ==
  /\ w.tr \in Transport /\ w.role \in {"bind", "connect"} /\ w.ep \in {"NEW", "OPEN", "REFUSED", "STOPPED"}
  /\ w.st \in [Objects -> States] /\ w.stop \subseteq Objects /\ w.held \subseteq Objects
  /\ w.own \in [Usocks -> Objects] /\ w.op \in [Usocks -> SUBSET {"send", "recv"}]
  /\ w.list \subseteq Slots /\ w.acc \in (Slots \ w.list) \cup {NoSlot}
  /\ \A i \in Slots : w.frame[i] \in Frames \cup {NoFrame} /\ w.cont[i] \in {"NONE", "TEXT", "BINARY"}
  /\ {w.frags, w.split, w.agreed} \subseteq [Slots -> BOOLEAN]

Quiet == w.q = <<>> /\ w.bad = <<>> /\ w.ep = "OPEN"

\* The assertions and bad actions these handlers can reach (the README says
\* how), by transport and role.
HeaderLost == <<"h", "STOPPING_TIMER_DONE", "u", "ERROR">>
SentInHandler == {<<"assert", "nn_usock_send">>, <<"assert", "nn_usock_recv">>, <<"stale", "OUT">>}
LateUsock == {<<"s", "DONE", "u", "SENT">>, <<"s", "DONE", "u", "SHUTDOWN">>}
Known ==
  [tr : Transport, role : {"bind", "connect"}, bad : SentInHandler] \cup
  [tr : {"tcp", "ipc", "tcpmux"}, role : {"bind", "connect"}, bad : {<<"stale", "IN">>}] \cup
  [tr : {"tcp", "ws"}, role : {"bind", "connect"}, bad : LateUsock] \cup
  [tr : {"tcp"}, role : {"bind"}, bad : {HeaderLost, <<"assert", "nn_iface_resolve">>}] \cup
  [tr : {"ipc"}, role : {"bind", "connect"}, bad : {HeaderLost, <<"assert", "sun_path">>}] \cup
  [tr : {"tcp", "tcpmux"}, role : {"connect"}, bad : {HeaderLost, <<"assert", "nn_usock_start">>}] \cup
  [tr : {"tcpmux"}, role : {"connect"},
   bad : {<<"e", st, "u", "SHUTDOWN">> : st \in {"SENDING_TCPMUXHDR", "RECEIVING_TCPMUXHDR"}}] \cup
  [tr : {"tcpmux"}, role : {"bind"},
   bad : {HeaderLost, <<"assert", "destroy">>, <<"e", "STOPPING_USOCK", "l", "STOPPED">>} \cup
         {<<"e", st, "l", "SHUTDOWN">> : st \in {"ACTIVE", "SENDING_BINDREQ", "STOPPING_USOCK"}}] \cup
  [tr : {"ws"}, role : {"bind", "connect"},
   bad : {<<"assert", "termseq">>, <<"assert", "recv_pos">>, <<"assert", "utf8_code_pt_fragment">>,
          <<"removed", "nn_pipe_send">>, <<"s", "CLOSING_CONNECTION", "u", "RECEIVED">>}] \cup
  [tr : {"ws"}, role : {"bind"}, bad : {<<"assert", "nn_bws_start_listening">>}] \cup
  [tr : {"ws"}, role : {"connect"},
   bad : {<<"assert", "nn_usock_bind">>, <<"assert", "inmsg_array">>, <<"stale", "IN">>}]

\* Of the assertions and unexpected events of the four transports, the aio
\* objects and the pipe, only the ones listed can be reached: no machine is
\* started twice, torn down while a part of it is running, asked to send or
\* receive while it does so already, or sent an event its state does not expect.
OnlyKnownAborts == TypeOK /\ (w.bad = <<>> \/ [tr |-> w.tr, role |-> w.role, bad |-> w.bad] \in Known)

\* The events of a usock go to the machine that works with it: the handshake
\* while it lasts, then the session, else the endpoint or the accepted
\* connection.
OwnerInCharge ==
  Quiet => \A i \in Slots :
    w.own[U(i)] = CASE w.st[H(i)] \notin {"IDLE", "DONE"} -> H(i)
                    [] w.st[H(i)] \in {"IDLE", "DONE"} /\ w.st[S(i)] # "IDLE" -> S(i)
                    [] OTHER -> Parent(w, U(i))

\* Only a peer that passed the handshake gets a pipe, except on the server side
\* of ws, which answers a bad opening and then goes on as after a good one.
OnlyPeers ==
  \A i \in Slots : w.pipe[i].st = "ACTIVE" /\ ~(w.tr = "ws" /\ w.role = "bind") => w.agreed[i]

\* The socket has the pipe of a connection exactly while its session is active,
\* and by then the handshake and its timer are over, the peer has passed it and
\* the usock reports to the session.
PipeFollowsSession ==
  /\ OwnerInCharge /\ OnlyPeers
  /\ Quiet => \A i \in Slots :
      /\ w.pipe[i].st = "ACTIVE" <=> w.st[S(i)] = "ACTIVE"
      /\ w.st[S(i)] = "ACTIVE" => {w.st[H(i)], w.st[T(i)]} = {"IDLE"} /\ w.st[U(i)] \in {"ACTIVE", "REMOVING_FD"}

\* A bound endpoint that is active accepts: one connection object is waiting
\* for a peer, the listener works for it, and all others are connected.
AlwaysAccepting ==
  Quiet /\ w.role = "bind" /\ w.tr # "tcpmux" /\ w.st[E] = "ACTIVE" /\ E \notin w.stop =>
    /\ w.acc # NoSlot /\ w.st[L] = "ACCEPTING" /\ w.own[L] = A(w.acc) /\ w.st[A(w.acc)] = "ACCEPTING"
    /\ \A i \in w.list : w.st[A(i)] \notin {"IDLE", "ACCEPTING"}

\* The statistic of connections in progress counts an endpoint that is trying
\* to connect once, as long as it is not being shut down.
InProgress ==
  E \notin w.stop /\ w.ep = "OPEN" /\ w.role = "connect" /\ w.bad = <<>> =>
    w.prog = IF w.st[E] = "CONNECTING" THEN 1 ELSE 0

\* An active endpoint is at work: bound, it accepts; connecting, it says so.
AtWork == AlwaysAccepting /\ InProgress

\* A session has one message at a time: while one waits for the application
\* nothing is read, else the session reads; and, for ws, chunks are kept only
\* while their message is being read, whatever control frames come in between,
\* and all of it has been read when it waits.
OneMessage ==
  Quiet => \A i \in Slots : w.st[S(i)] = "ACTIVE" =>
    /\ (w.pipe[i].in = "IDLE") <=> (w.ins[i] \in {"HASMSG", "RECVD_CHUNKED", "RECVD_CONTROL"})
    /\ w.st[U(i)] = "ACTIVE" =>
         (("recv" \in w.op[U(i)]) <=> (w.ins[i] \notin {"HASMSG", "RECVD_CHUNKED", "RECVD_CONTROL", "CLOSED"}))
    /\ w.frags[i] => w.cont[i] # "NONE" \/ Data(w.frame[i])
    /\ w.ins[i] = "RECVD_CHUNKED" => w.cont[i] = "NONE"

\* Closing an endpoint ends: whatever state its machines are in, all of them
\* stop and the endpoint is destroyed.  Only a bound ws endpoint may be left
\* waiting, and only for a connection whose end it has not noticed.
Unnoticed == w.tr = "ws" /\ \E i \in w.list : nn_fsm_isidle(w, A(i))
CloseEnds == E \in w.stop ~> (w.ep = "STOPPED" \/ w.bad # <<>> \/ Unnoticed)

\* A handshake ends, whatever the peer does: the timer sees to it.
HandshakeEnds ==
  \A i \in Slots : (w.st[H(i)] # "IDLE" /\ w.bad = <<>>) ~> (w.st[H(i)] = "IDLE" \/ w.bad # <<>>)

\* A connecting endpoint whose connection failed or broke tries again once its
\* retry timer is through (STOPPING_BACKOFF ends with an attempt), unless it is
\* closed, is in the greeting of tcpmux, which has no timer, or, for ws, believes that the peer said good-bye.
Reconnects ==
  (w.role = "connect" /\ w.ep = "OPEN") ~>
    (w.st[E] \in {"STOPPING_BACKOFF", "RESOLVING", "CONNECTING", "SENDING_TCPMUXHDR", "RECEIVING_TCPMUXHDR", "ACTIVE"}
     \/ E \in w.stop \/ w.bad # <<>> \/ w.gone)
=============================================================================
