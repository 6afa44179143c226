------------------------------- MODULE Inproc -------------------------------
(***************************************************************************)
(* The inproc transport: endpoints of sockets of one process that find     *)
(* each other in a global repository (ins.c) and exchange messages between *)
(* pairs of sessions (sinproc.c).  A bound endpoint i has a session        *)
(* Bs(i, j) with every connecting endpoint j it met, the connecting        *)
(* endpoint the one session Cs(j).  All endpoints have the same address.   *)
(*                                                                         *)
(* The two sessions of a pair live in the contexts of two sockets.  An     *)
(* event for the other context is delivered by the thread that raised it,  *)
(* after it left its own context (aio/ctx.c): pend[t] are the events       *)
(* thread t has still to deliver.  An event is an object inside a session, *)
(* so it can be on its way only once.  One step is one stay of a thread in *)
(* a context, with all the events raised for that context itself.          *)
(***************************************************************************)
EXTENDS Integers, FiniteSets, SequencesExt

CONSTANTS Threads,   \* application threads; all of them may use all sockets
          Binds,     \* endpoints made by nn_bind
          Connects,  \* endpoints made by nn_connect
          Granularity,   \* NN_MSGQUEUE_GRANULARITY, 126 in the code
          MaxMem,    \* the option NN_RCVBUF of the receiving socket
          MaxUp,     \* bound on the messages sent by a connecting endpoint on one connection
          MaxDown    \* and by a bound one

VARIABLE w
-----------------------------------------------------------------------------
\* The inbound queue of a session (msgqueue.c): a list of chunks with room for
\* Granularity messages each.  Messages leave the first chunk at position in
\* and enter the last one at position out; one emptied chunk is kept.
None == 0   \* no message; messages are numbers from 1

\* The first message of a session has size 1, the second 2 and so on: they
\* outgrow the buffer.
Size(m) == m

Chunk == [p \in 0 .. Granularity - 1 |-> None]

nn_msgqueue_init == [chunks |-> <<Chunk>>, in |-> 0, out |-> 0, cache |-> FALSE, count |-> 0, mem |-> 0]

nn_msgqueue_empty(q) == q.count = 0

\* One message of any size passes; more must fit the buffer.
Full(q, m) == q.count > 0 /\ q.mem + Size(m) >= MaxMem

\* When the last chunk is full a new one is appended: the spare one if there is one.
nn_msgqueue_send(q, m) ==
  LET last == Len(q.chunks)
      r == [q EXCEPT !.count = @ + 1, !.mem = @ + Size(m), !.chunks[last][q.out] = m, !.out = @ + 1]
  IN IF r.out = Granularity
     THEN [r EXCEPT !.chunks = Append(@, Chunk), !.out = 0, !.cache = FALSE]
     ELSE r

\* The message at the position where messages leave.
Oldest(q) == q.chunks[1][q.in]

\* An emptied chunk becomes the spare one unless there is one already.
nn_msgqueue_recv(q) ==
  LET r == [q EXCEPT !.count = @ - 1, !.mem = @ - Size(Oldest(q)), !.chunks[1][q.in] = None, !.in = @ + 1]
  IN IF r.in = Granularity
     THEN [r EXCEPT !.chunks = Tail(@), !.in = 0, !.cache = TRUE]
     ELSE r

\* A drained queue has one chunk left, which is deallocated.
nn_msgqueue_term(q) == q.count = 0 => Len(q.chunks) = 1

\* The messages in the queue, oldest first: what an observer sees of it.
Contents(q) ==
  LET At(n) == q.chunks[1 + ((q.in + n - 1) \div Granularity)][(q.in + n - 1) % Granularity]
  IN [n \in 1 .. q.count |-> At(n)]
-----------------------------------------------------------------------------
B(i) == <<"B", i, 0>>        \* nn_binproc
C(j) == <<"C", 0, j>>        \* nn_cinproc
Bs(i, j) == <<"b", i, j>>    \* a session of nn_binproc
Cs(j) == <<"c", 0, j>>       \* the session of nn_cinproc
Eps == {B(i) : i \in Binds} \cup {C(j) : j \in Connects}
Sessions == {Bs(i, j) : i \in Binds, j \in Connects} \cup {Cs(j) : j \in Connects}
NoPeer == <<"none", 0, 0>>
Events == {"connect", "sent", "received", "disconnect"}

Owner(s) == IF s[1] = "b" THEN B(s[2]) ELSE C(s[3])

\* An assertion fails, an event is not expected or memory is gone: the process ends.
Bad(x, what) == IF x.bad = <<>> THEN [x EXCEPT !.bad = what] ELSE x

Set(x, s, state) == [x EXCEPT !.ses[s].st = state]

InFlight(x) == UNION {{x.pend[t][n] : n \in DOMAIN x.pend[t]} : t \in Threads}
                 \cup {x.to[n] : n \in DOMAIN x.to}

\* nn_fsm_event_active: the object is in some queue.
Active(x, s, ev) == \E e \in InFlight(x) : e.obj = <<s, ev>>

\* nn_fsm_raiseto, with the event object ev of session o.
Raiseto(x, o, ev, to, type, from) ==
  IF ~x.ses[o].live THEN Bad(x, <<"freed", "nn_queue_push">>)
  ELSE IF Active(x, o, ev) THEN Bad(x, <<"assert", "nn_queue_push">>)
  ELSE [x EXCEPT !.to = Append(@, [obj |-> <<o, ev>>, to |-> to, type |-> type, from |-> from])]
-----------------------------------------------------------------------------
\* The pipe of a session.  The socket type may refuse it, which is not expected here.
nn_pipebase_start(x, s) ==
  {[x EXCEPT !.ses[s].pipe = [st |-> "ACTIVE", in |-> "ASYNC", out |-> "IDLE"]],
   Bad(x, <<"assert", "nn_pipebase_start">>)}

nn_pipebase_received(x, s) ==
  CASE x.ses[s].pipe.in = "RECEIVING" -> [x EXCEPT !.ses[s].pipe.in = "RECEIVED"]
    [] x.ses[s].pipe.in = "ASYNC" -> [x EXCEPT !.ses[s].pipe.in = "IDLE"]
    [] OTHER -> Bad(x, <<"assert", "nn_pipebase_received">>)

nn_pipebase_sent(x, s) ==
  IF x.ses[s].pipe.out = "ASYNC" THEN [x EXCEPT !.ses[s].pipe.out = "IDLE"]
  ELSE Bad(x, <<"assert", "nn_pipebase_sent">>)

NoPipe == [st |-> "IDLE", in |-> "DEACTIVATED", out |-> "DEACTIVATED"]
nn_pipebase_stop(x, s) == [x EXCEPT !.ses[s].pipe = NoPipe]
-----------------------------------------------------------------------------
\* live: the memory is allocated; fsm and st: the state machine; snd and rcv: the
\* flags SENDING and RECEIVING; msg: the message on offer to the peer; sent: the
\* messages the application sent; got: the one it received last.
Session ==
  [live |-> TRUE, fsm |-> "IDLE", st |-> "IDLE", peer |-> NoPeer, snd |-> FALSE, rcv |-> FALSE,
   pipe |-> NoPipe, mq |-> nn_msgqueue_init, msg |-> None, sent |-> 0, got |-> 0]

\* The session of a connecting endpoint is initialised again for each
\* connection; an event object of it that is still queued breaks that queue.
nn_sinproc_init(x, s) ==
  IF \E ev \in Events : Active(x, s, ev) THEN Bad(x, <<"reinit", s[1]>>)
  ELSE [x EXCEPT !.ses[s] = Session]

nn_sinproc_term(x, s) ==
  IF (\E ev \in Events : Active(x, s, ev)) \/ x.ses[s].fsm # "IDLE" \/ ~nn_msgqueue_term(x.ses[s].mq)
  THEN Bad(x, <<"assert", "nn_sinproc_term">>)
  ELSE [x EXCEPT !.ses[s] = [Session EXCEPT !.live = FALSE]]

nn_sinproc_connect(x, s, ep) ==
  Raiseto([x EXCEPT !.ses[s].fsm = "ACTIVE", !.ses[s].st = "CONNECTING"], s, "connect", ep, "CONNECT", s)

nn_sinproc_accept(x, s, p) ==
  IF x.ses[s].peer # NoPeer THEN Bad(x, <<"assert", "nn_sinproc_accept">>)
  ELSE Raiseto([x EXCEPT !.ses[s].fsm = "ACTIVE", !.ses[s].st = "READY", !.ses[s].peer = p],
               s, "connect", p, "READY", s)

\* The peer is told that there is a message to fetch.
nn_sinproc_send(x, s) ==
  LET p == x.ses[s].peer IN
  IF x.ses[s].st # "ACTIVE" \/ x.ses[s].snd THEN Bad(x, <<"assert", "nn_sinproc_send">>)
  ELSE Raiseto([x EXCEPT !.ses[s].msg = x.ses[s].sent + 1, !.ses[s].sent = @ + 1, !.ses[s].snd = TRUE],
               p, "sent", p, "SENT", s)

\* Variant: the message stays with the sender, too.
Fetch_keeps(x, s) ==
  LET p == x.ses[s].peer IN
  Raiseto([x EXCEPT !.ses[s].mq = nn_msgqueue_send(@, x.ses[p].msg)], p, "received", p, "RECEIVED", s)

\* The message of the peer goes to the queue and the peer is told so.
Fetch(x, s) ==
  LET p == x.ses[s].peer IN
  Raiseto([x EXCEPT !.ses[s].mq = nn_msgqueue_send(@, x.ses[p].msg), !.ses[p].msg = None],
          p, "received", p, "RECEIVED", s)

\* The oldest message goes to the application, and the peer's waiting one
\* takes a place in the queue if it fits now.
nn_sinproc_recv(x, s) ==
  LET y == [x EXCEPT !.ses[s].mq = nn_msgqueue_recv(@),
                     !.ses[s].got = Oldest(x.ses[s].mq)]
      z == IF y.ses[s].st = "ACTIVE" /\ y.ses[s].rcv /\ ~Full(y.ses[s].mq, y.ses[y.ses[s].peer].msg)
           THEN [Fetch(y, s) EXCEPT !.ses[s].rcv = FALSE]
           ELSE y
  IN CASE nn_msgqueue_empty(x.ses[s].mq) -> Bad(x, <<"assert", "nn_msgqueue_recv">>)
       [] nn_msgqueue_empty(z.ses[s].mq) -> z
       [] OTHER -> nn_pipebase_received(z, s)
-----------------------------------------------------------------------------
Unexpected(x, e) ==
  Bad(x, <<e.to[1], IF e.to \in Sessions THEN x.ses[e.to].st ELSE x.ep[e.to], e.type>>)

InConnecting(x, s, e) ==
  IF e.type # "READY" THEN {Unexpected(x, e)}
  ELSE {Raiseto([y EXCEPT !.ses[s].peer = e.from, !.ses[s].st = "ACTIVE"],
                s, "connect", e.from, "ACCEPTED", s) : y \in nn_pipebase_start(x, s)}

InReady(x, s, e) ==
  IF e.type \notin {"READY", "ACCEPTED"} THEN {Unexpected(x, e)}
  ELSE {Set(y, s, "ACTIVE") : y \in nn_pipebase_start(x, s)}

\* The owner of the session hears of the disconnection at once: a bound
\* endpoint ignores it, a connecting one gets ready for the next connection.
Disconnected(x, s) ==
  IF s[1] = "b" THEN x
  ELSE nn_sinproc_init([x EXCEPT !.ep[Owner(s)] = "DISCONNECTED"], s)

\* Variant: the socket is told of every message, not only of the first.
InActive_always(x, s, e) ==
  LET p == x.ses[s].peer IN
  CASE e.type = "SENT" ->
         IF Full(x.ses[s].mq, x.ses[p].msg) THEN [x EXCEPT !.ses[s].rcv = TRUE]
         ELSE Fetch(nn_pipebase_received(x, s), s)
    [] e.type = "RECEIVED" -> [nn_pipebase_sent(x, s) EXCEPT !.ses[s].snd = FALSE]
    [] OTHER -> x

InActive(x, s, e) ==
  LET p == x.ses[s].peer
      empty == nn_msgqueue_empty(x.ses[s].mq)
  IN CASE e.type = "SENT" ->
            IF Full(x.ses[s].mq, x.ses[p].msg) THEN [x EXCEPT !.ses[s].rcv = TRUE]
            ELSE Fetch(IF empty THEN nn_pipebase_received(x, s) ELSE x, s)
       [] e.type = "RECEIVED" ->
            IF x.ses[s].snd THEN [nn_pipebase_sent(x, s) EXCEPT !.ses[s].snd = FALSE]
            ELSE Bad(x, <<"assert", "flags">>)
       [] e.type = "DISCONNECT" ->
            Disconnected([Raiseto(nn_pipebase_stop(x, s), p, "disconnect", p, "DISCONNECT", s)
                            EXCEPT !.ses[s].st = "DISCONNECTED", !.ses[s].peer = NoPeer], s)
       [] OTHER -> Unexpected(x, e)

nn_sinproc_handler(x, s, e) ==
  CASE x.ses[s].st = "CONNECTING" -> InConnecting(x, s, e)
    [] x.ses[s].st = "READY" -> InReady(x, s, e)
    [] x.ses[s].st = "ACTIVE" -> {InActive(x, s, e)}
    [] x.ses[s].st = "DISCONNECTED" /\ e.type = "RECEIVED" -> {x}
    [] OTHER -> {Unexpected(x, e)}

\* nn_epbase_stopped: the socket destroys the endpoint.
Gone(x, ep) == [x EXCEPT !.ep[ep] = "GONE"]

\* nn_binproc_shutdown and nn_cinproc_shutdown from where they wait for sessions.
OwnerStopping(x, ep) ==
  IF \E s \in Sessions : Owner(s) = ep /\ x.ses[s].live THEN x ELSE Gone(x, ep)

\* The owner terminates the session that has stopped.
SessionStopped(x, s) ==
  LET y == nn_sinproc_term([x EXCEPT !.ses[s].fsm = "IDLE"], s) IN
  IF x.ep[Owner(s)] # "STOPPING" THEN y ELSE OwnerStopping(y, Owner(s))

\* The end of nn_sinproc_shutdown: nobody may hold an event of the session.
ShutdownChecks(x, s) ==
  CASE x.ses[s].st # "STOPPING" -> x
    [] Active(x, s, "received") \/ Active(x, s, "disconnect") -> x
    [] Active(x, s, "connect") \/ Active(x, s, "sent") -> Bad(x, <<"assert", "nn_sinproc_shutdown">>)
    [] OTHER -> SessionStopped(x, s)

nn_sinproc_stop(x, s) ==
  LET p == x.ses[s].peer
      y == [x EXCEPT !.ses[s].fsm = "STOPPING"]
  IN CASE x.ses[s].fsm # "ACTIVE" -> x
       [] x.ses[s].st = "DISCONNECTED" -> ShutdownChecks(Set(y, s, "STOPPING"), s)
       [] x.ses[s].st # "DISCONNECTED" /\ p = NoPeer -> Bad(x, <<"null", "peer">>)
       [] OTHER -> Set(Raiseto(nn_pipebase_stop(y, s), p, "disconnect", p, "DISCONNECT", s), s, "STOPPING_PEER")

\* Variant: the peer's answer does not lead to the final checks.
nn_sinproc_shutdown_waits(x, s, e) ==
  CASE e.type = "RECEIVED" -> ShutdownChecks(x, s)
    [] e.type = "DISCONNECT" /\ x.ses[s].st = "STOPPING_PEER" -> Set(x, s, "STOPPING")
    [] OTHER -> Unexpected(x, e)

nn_sinproc_shutdown(x, s, e) ==
  CASE e.type = "RECEIVED" -> ShutdownChecks(x, s)
    [] e.type = "DISCONNECT" /\ x.ses[s].st = "STOPPING_PEER" -> ShutdownChecks(Set(x, s, "STOPPING"), s)
    [] OTHER -> Unexpected(x, e)
-----------------------------------------------------------------------------
nn_binproc_handler(x, i, e) ==
  LET s == Bs(i, e.from[3]) IN
  IF e.type = "CONNECT" THEN nn_sinproc_accept(nn_sinproc_init(x, s), s, e.from)
  ELSE Unexpected(x, e)

nn_cinproc_handler(x, j, e) ==
  IF e.type = "CONNECT" /\ x.ep[C(j)] = "DISCONNECTED"
  THEN nn_sinproc_accept([x EXCEPT !.ep[C(j)] = "ACTIVE"], Cs(j), e.from)
  ELSE Unexpected(x, e)

\* An endpoint that is stopping expects nothing but the end of its sessions.
\* The code of the connecting one does not look at the event.
EndpointFeed(x, e) ==
  CASE x.ep[e.to] = "GONE" -> Bad(x, <<"freed", e.type>>)
    [] x.ep[e.to] = "STOPPING" /\ e.to[1] = "C" -> x
    [] x.ep[e.to] = "STOPPING" /\ e.to[1] = "B" -> Unexpected(x, e)
    [] e.to[1] = "B" -> nn_binproc_handler(x, e.to[2], e)
    [] OTHER -> nn_cinproc_handler(x, e.to[3], e)

\* nn_fsm_event_process and nn_fsm_feed.
Feed(x, e) ==
  CASE e.to \in Eps -> {EndpointFeed(x, e)}
    [] e.to \in Sessions /\ ~x.ses[e.to].live -> {Bad(x, <<"freed", e.type>>)}
    [] e.to \in Sessions /\ x.ses[e.to].live /\ x.ses[e.to].fsm = "STOPPING" -> {nn_sinproc_shutdown(x, e.to, e)}
    [] OTHER -> nn_sinproc_handler(x, e.to, e)
-----------------------------------------------------------------------------
\* The repository: endpoints that have not been closed.
Registered(x, ep) == x.ep[ep] \notin {"NEW", "STOPPING", "GONE"}
Bound(x) == {i \in Binds : Registered(x, B(i))}
Connected(x) == {j \in Connects : Registered(x, C(j))}

nn_binproc_connect(x, i, j) == nn_sinproc_connect(nn_sinproc_init(x, Bs(i, j)), Bs(i, j), C(j))

\* A new bound endpoint connects to everyone in the repository, in the order of their creation.
nn_binproc_create(x, i) ==
  IF Bound(x) # {} THEN x   \* EADDRINUSE
  ELSE LET Meet(y, j) == nn_binproc_connect(y, i, j)
       IN FoldLeft(Meet, [x EXCEPT !.ep[B(i)] = "ACTIVE"], SetToSortSeq(Connected(x), <))

\* A new connecting endpoint connects to the bound one, if there is one.
nn_cinproc_create(x, j) ==
  LET y == nn_sinproc_init(x, Cs(j)) IN
  IF Bound(x) = {} THEN [y EXCEPT !.ep[C(j)] = "DISCONNECTED"]
  ELSE nn_sinproc_connect([y EXCEPT !.ep[C(j)] = "ACTIVE"], Cs(j), B(CHOOSE i \in Bound(x) : TRUE))

\* The endpoint leaves the repository and stops its sessions.
nn_binproc_stop(x, i) ==
  LET mine == {j \in Connects : x.ses[Bs(i, j)].live}
      Stop(y, j) == nn_sinproc_stop(y, Bs(i, j))
      y == FoldLeft(Stop, x, SetToSortSeq(mine, <))
  IN OwnerStopping([y EXCEPT !.ep[B(i)] = "STOPPING"], B(i))

nn_cinproc_stop(x, j) ==
  LET y == [nn_sinproc_stop(x, Cs(j)) EXCEPT !.ep[C(j)] = "STOPPING"]
  IN IF y.ses[Cs(j)].fsm = "IDLE" THEN OwnerStopping(nn_sinproc_term(y, Cs(j)), C(j)) ELSE y
-----------------------------------------------------------------------------
Init ==
  w = [ep |-> [ep \in Eps |-> "NEW"], ses |-> [s \in Sessions |-> [Session EXCEPT !.live = FALSE]],
       pend |-> [t \in Threads |-> <<>>], to |-> <<>>, bad |-> <<>>,
       opens |-> {}, race |-> FALSE]

\* nn_ctx_leave: the thread takes the events for other contexts with it and
\* delivers them before those it had before.
Leave(t, ys) == w' \in {[y EXCEPT !.pend[t] = y.to \o @, !.to = <<>>] : y \in ys}

\* A thread calls nanomsg when its last call has returned.
Call(t) == w.bad = <<>> /\ w.pend[t] = <<>>
Open(s) == w.ses[s].live /\ w.ses[s].pipe.st = "ACTIVE"

\* Two observers: opens are the threads whose unfinished call opens or closes an
\* endpoint; race says that such a call has overlapped with another one.
Busy == {u \in Threads : w.pend[u] # <<>>}
OpenOrClose(t, y) == Leave(t, {[y EXCEPT !.opens = (@ \cap Busy) \cup {t}, !.race = @ \/ Busy # {}]})
Transfer(t, y) == Leave(t, {[y EXCEPT !.opens = (@ \cap Busy) \ {t}, !.race = @ \/ (w.opens \cap Busy) # {}]})

Bind(t, i) == Call(t) /\ w.ep[B(i)] = "NEW" /\ OpenOrClose(t, nn_binproc_create(w, i))
Connect(t, j) == Call(t) /\ w.ep[C(j)] = "NEW" /\ OpenOrClose(t, nn_cinproc_create(w, j))
Unbind(t, i) == Call(t) /\ Registered(w, B(i)) /\ OpenOrClose(t, nn_binproc_stop(w, i))
Disconnect(t, j) == Call(t) /\ Registered(w, C(j)) /\ OpenOrClose(t, nn_cinproc_stop(w, j))
Send(t, s) ==
  /\ Call(t) /\ Open(s) /\ w.ses[s].pipe.out = "IDLE" /\ w.ses[s].sent < (IF s[1] = "c" THEN MaxUp ELSE MaxDown)
  /\ Transfer(t, [nn_sinproc_send(w, s) EXCEPT !.ses[s].pipe.out = "ASYNC"])
Recv(t, s) ==
  /\ Call(t) /\ Open(s) /\ w.ses[s].pipe.in = "IDLE"
  /\ LET y == nn_sinproc_recv([w EXCEPT !.ses[s].pipe.in = "RECEIVING"], s)
     IN Transfer(t, [y EXCEPT !.ses[s].pipe.in = IF @ = "RECEIVED" THEN "IDLE" ELSE "ASYNC"])

\* The thread enters the context of the next event it has to deliver.
Deliver(t) ==
  /\ w.bad = <<>> /\ w.pend[t] # <<>>
  /\ Leave(t, Feed([w EXCEPT !.pend[t] = Tail(@)], Head(w.pend[t])))

Next == \E t \in Threads :
  \/ Deliver(t)
  \/ \E i \in Binds : Bind(t, i) \/ Unbind(t, i)
  \/ \E j \in Connects : Connect(t, j) \/ Disconnect(t, j)
  \/ \E s \in Sessions : Send(t, s) \/ Recv(t, s)

\* A thread in nanomsg goes on until its call returns.
Spec == Init /\ [][Next]_w /\ \A t \in Threads : WF_w(Deliver(t))
-----------------------------------------------------------------------------
\* Threads that send and receive, on the same socket or on both sides of a
\* connection, never disturb each other, nor do opening and closing when no
\* other call is under way.  Only a pipe the socket refuses ends the process.
SafeUnlessRacing == w.race \/ w.bad \in {<<>>, <<"assert", "nn_pipebase_start">>}

Fine == w.bad = <<>>
Linked(s) == Fine /\ w.ses[s].st = "ACTIVE" /\ w.ses[w.ses[s].peer].st = "ACTIVE"

\* One message at a time: a session that may not send waits for the peer to
\* hear of its message, to have room for it, or to confirm it, and for exactly
\* one of the three.
OneWait ==
  \A s \in Sessions : Linked(s) =>
    LET p == w.ses[s].peer
        waits == <<Active(w, p, "sent"), w.ses[p].rcv, Active(w, s, "received")>>
    IN Cardinality({n \in 1 .. 3 : waits[n]}) = IF w.ses[s].snd THEN 1 ELSE 0

\* The socket knows of a message exactly when there is one: no wake-up is lost.
Told ==
  \A s \in Sessions : Fine /\ w.ses[s].st = "ACTIVE" =>
    (w.ses[s].pipe.in = "IDLE" <=> ~nn_msgqueue_empty(w.ses[s].mq))

\* What one side sent and the other did not yet receive is in the queue of the
\* receiver, except the last message, which the sender may still hold: nothing
\* is lost, doubled or reordered, no wake-up either.
NothingLost ==
  /\ OneWait /\ Told
  /\ \A s \in Sessions : Linked(s) =>
       LET p == w.ses[s].peer
           held == IF w.ses[p].msg = None THEN <<>> ELSE <<w.ses[p].msg>>
       IN Contents(w.ses[s].mq) \o held = [n \in 1 .. w.ses[p].sent - w.ses[s].got |-> w.ses[s].got + n]

\* Closing an endpoint ends, unless the process ends first.
CloseEnds == \A ep \in Eps : (w.ep[ep] = "STOPPING") ~> (w.ep[ep] = "GONE" \/ ~Fine)
=============================================================================
