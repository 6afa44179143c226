-------------------------------- MODULE Tcp ---------------------------------
(***************************************************************************)
(* The TCP transport: the session stcp, the accepted connection atcp, the  *)
(* bound endpoint btcp and the connecting endpoint ctcp.  One operator for *)
(* every state of every machine: what it does with event e.                *)
(***************************************************************************)
EXTENDS Streamhdr

\* stcp.c: the session.  S(i) is in w.held while it has the usock.
nn_stcp_idle(w, i) == nn_streamhdr_start(Set(w, S(i), "PROTOHDR"), i)

nn_stcp_start(w, i) ==
  IF S(i) \in w.held THEN {Bad(w, <<"assert", "nn_stcp_start">>)}
  ELSE nn_stcp_idle(nn_usock_swap_owner([w EXCEPT !.held = @ \cup {S(i)}], U(i), S(i)), i)

nn_stcp_shutdown(w, i) ==
  IF ~nn_fsm_isidle(w, H(i)) THEN w
  ELSE nn_fsm_stopped(nn_usock_swap_owner([w EXCEPT !.held = @ \ {S(i)}], U(i), Parent(w, U(i))), S(i))

nn_stcp_stop(w, i) ==
  IF ~Stoppable(w, S(i)) THEN w
  ELSE nn_stcp_shutdown(nn_streamhdr_stop(Set(nn_pipebase_stop(Stopping(w, S(i)), i), S(i), "STOPPING"), i), i)

nn_stcp_send(w, i) ==
  IF w.st[S(i)] # "ACTIVE" \/ w.outs[i] # "IDLE" THEN {Bad(w, <<"assert", "nn_stcp_send">>)}
  ELSE nn_usock_send([w EXCEPT !.outs[i] = "SENDING"], U(i))

nn_stcp_recv(w, i) ==
  IF w.st[S(i)] # "ACTIVE" \/ w.ins[i] # "HASMSG" THEN {Bad(w, <<"assert", "nn_stcp_recv">>)}
  ELSE nn_usock_recv([w EXCEPT !.ins[i] = "HDR"], U(i))

nn_stcp_protohdr(w, i, e) ==
  CASE e.from = H(i) /\ e.type = "OK" -> {nn_streamhdr_stop(Set(w, S(i), "STOPPING_STREAMHDR"), i)}
    [] e.from = H(i) /\ e.type = "ERROR" -> {Done(w, S(i), "ERROR")}
    [] OTHER -> {nn_fsm_bad(w, e)}

\* The pipe is offered to the socket and the first message awaited.
nn_stcp_stopping_streamhdr(w, i, e) ==
  IF e.from = H(i) /\ e.type = "STOPPED"
  THEN UNION {IF x.pipe[i].st # "ACTIVE" THEN {Done(x, S(i), "ERROR")}
              ELSE nn_usock_recv([x EXCEPT !.ins[i] = "HDR", !.outs[i] = "IDLE", !.st[S(i)] = "ACTIVE"], U(i))
              : x \in nn_pipebase_start(w, i)}
  ELSE {nn_fsm_bad(w, e)}

\* The size read from the header is refused, zero, or that of the body.
nn_stcp_received(w, i) ==
  CASE w.ins[i] = "HDR" ->
         {Done(w, S(i), "ERROR"), nn_pipebase_received([w EXCEPT !.ins[i] = "HASMSG"], i)}
           \cup nn_usock_recv([w EXCEPT !.ins[i] = "BODY"], U(i))
    [] w.ins[i] = "BODY" -> {nn_pipebase_received([w EXCEPT !.ins[i] = "HASMSG"], i)}
    [] OTHER -> {Bad(w, <<"assert", "nn_stcp_received">>)}

nn_stcp_active(w, i, e) ==
  CASE e.type = "SENT" -> IF w.outs[i] = "SENDING" THEN {nn_pipebase_sent([w EXCEPT !.outs[i] = "IDLE"], i)}
                          ELSE {Bad(w, <<"assert", "nn_stcp_sent">>)}
    [] e.type = "RECEIVED" -> nn_stcp_received(w, i)
    [] e.type = "SHUTDOWN" -> {Set(nn_pipebase_stop(w, i), S(i), "SHUTTING_DOWN")}
    [] e.type = "ERROR" -> {Done(nn_pipebase_stop(w, i), S(i), "ERROR")}
    [] OTHER -> {nn_fsm_bad(w, e)}

nn_stcp_shutting_down(w, i, e) ==
  IF e.from = U(i) /\ e.type = "ERROR" THEN {Done(w, S(i), "ERROR")} ELSE {nn_fsm_bad(w, e)}

nn_stcp_handler(w, i, e) ==
  CASE S(i) \in w.stop -> {nn_stcp_shutdown(w, i)}
    [] w.st[S(i)] = "PROTOHDR" -> nn_stcp_protohdr(w, i, e)
    [] w.st[S(i)] = "STOPPING_STREAMHDR" -> nn_stcp_stopping_streamhdr(w, i, e)
    [] w.st[S(i)] = "ACTIVE" /\ e.from = U(i) -> nn_stcp_active(w, i, e)
    [] w.st[S(i)] = "SHUTTING_DOWN" -> nn_stcp_shutting_down(w, i, e)
    [] OTHER -> {nn_fsm_bad(w, e)}
-----------------------------------------------------------------------------
\* atcp.c: an accepted connection.  A(i) is in w.held while it has the listener.
nn_atcp_idle(w, i) == nn_usock_accept(Set(w, A(i), "ACCEPTING"), i)

nn_atcp_start(w, i) ==
  IF A(i) \in w.held \/ ~nn_fsm_isidle(w, A(i)) THEN {Bad(w, <<"assert", "nn_atcp_start">>)}
  ELSE nn_atcp_idle(nn_usock_swap_owner([w EXCEPT !.held = @ \cup {A(i)}], L, A(i)), i)

\* The usock is stopped when the session is idle, the listener returned when
\* the usock is.
nn_atcp_shutdown(w, i) ==
  LET x == IF w.st[A(i)] = "STOPPING_STCP_FINAL" /\ nn_fsm_isidle(w, S(i))
           THEN nn_usock_stop(Set(w, A(i), "STOPPING"), U(i)) ELSE w
  IN IF x.st[A(i)] # "STOPPING" \/ ~nn_usock_isidle(x, U(i)) THEN x
     ELSE nn_fsm_stopped(IF A(i) \in x.held THEN nn_usock_swap_owner([x EXCEPT !.held = @ \ {A(i)}], L, E)
                         ELSE x, A(i))

nn_atcp_stop(w, i) ==
  IF ~Stoppable(w, A(i)) THEN w
  ELSE nn_atcp_shutdown(Set(nn_stcp_stop(Stopping(w, A(i)), i), A(i), "STOPPING_STCP_FINAL"), i)

\* Mutant: an error of accept() is noted and not followed by another accept.
nn_atcp_accepting_once(w, i, e) ==
  IF e.type = "ACCEPT_ERROR" THEN {w}
  ELSE nn_stcp_start(nn_usock_activate(nn_fsm_raise(nn_usock_swap_owner(
         [w EXCEPT !.held = @ \ {A(i)}, !.st[A(i)] = "ACTIVE"], L, E), A(i), "ACCEPTED"), U(i)), i)

\* A connection: the listener goes back to the endpoint and the session starts.
nn_atcp_accepting(w, i, e) ==
  CASE e.from = U(i) /\ e.type = "ACCEPTED" ->
         nn_stcp_start(nn_usock_activate(nn_fsm_raise(nn_usock_swap_owner(
             [w EXCEPT !.held = @ \ {A(i)}, !.st[A(i)] = "ACTIVE"], L, E), A(i), "ACCEPTED"), U(i)), i)
    [] e.from = L /\ e.type = "ACCEPT_ERROR" -> nn_usock_accept(w, i)
    [] OTHER -> {nn_fsm_bad(w, e)}

nn_atcp_active(w, i, e) ==
  IF e.from = S(i) /\ e.type = "ERROR" THEN {nn_stcp_stop(Set(w, A(i), "STOPPING_STCP"), i)}
  ELSE {nn_fsm_bad(w, e)}

nn_atcp_stopping_stcp(w, i, e) ==
  CASE e.from = S(i) /\ e.type = "STOPPED" -> {nn_usock_stop(Set(w, A(i), "STOPPING_USOCK"), U(i))}
    [] e.from = S(i) /\ e.type = "SHUTDOWN" -> {w}
    [] OTHER -> {nn_fsm_bad(w, e)}

nn_atcp_stopping_usock(w, i, e) ==
  CASE e.from = U(i) /\ e.type = "STOPPED" -> {Done(w, A(i), "ERROR")}
    [] e.from = U(i) /\ e.type = "SHUTDOWN" -> {w}
    [] OTHER -> {nn_fsm_bad(w, e)}

nn_atcp_handler(w, i, e) ==
  CASE A(i) \in w.stop -> {nn_atcp_shutdown(w, i)}
    [] w.st[A(i)] = "ACCEPTING" -> nn_atcp_accepting(w, i, e)
    [] w.st[A(i)] = "ACTIVE" -> nn_atcp_active(w, i, e)
    [] w.st[A(i)] = "STOPPING_STCP" -> nn_atcp_stopping_stcp(w, i, e)
    [] w.st[A(i)] = "STOPPING_USOCK" -> nn_atcp_stopping_usock(w, i, e)
    [] OTHER -> {nn_fsm_bad(w, e)}
-----------------------------------------------------------------------------
\* btcp.c: the bound endpoint.
nn_btcp_start_accepting(w) ==
  IF w.acc # NoSlot THEN {Bad(w, <<"assert", "nn_btcp_start_accepting">>)}
  ELSE UNION {nn_atcp_start([w EXCEPT !.acc = i], i) : i \in {CHOOSE j \in FreeSlots(w) : TRUE}}

\* The local interface is gone: abort.  socket() fails: wait.  bind() or
\* listen() fails: close, then wait.
nn_btcp_start_listening(w) ==
  {Bad(w, <<"assert", "nn_iface_resolve">>), nn_backoff_start(Set(w, E, "WAITING"))} \cup
  LET x == nn_usock_start(w, L) IN
  {nn_usock_stop(Set(x, E, "CLOSING"), L)} \cup
  nn_btcp_start_accepting([x EXCEPT !.st[L] = "LISTENING", !.st[E] = "ACTIVE"])

\* The address is refused, or the endpoint starts.
nn_btcp_create(w) == {[w EXCEPT !.ep = "REFUSED"]} \cup nn_btcp_start_listening([w EXCEPT !.ep = "OPEN"])

\* The accept is cancelled first, then the listener and the retry timer, then
\* every connection in the list.
StopList(w) ==
  LET x == FoldLeft(nn_atcp_stop, Set(w, E, "STOPPING_ATCPS"), SetToSeq(w.list))
  IN IF w.list = {} THEN Stopped(x) ELSE x

nn_btcp_shutdown(w, e) ==
  LET x == IF w.st[E] = "STOPPING_ATCP" /\ nn_fsm_isidle(w, A(w.acc))
           THEN nn_usock_stop(Set(Term(w, w.acc), E, "STOPPING_USOCK"), L) ELSE w
  IN CASE x.st[E] = "STOPPING_USOCK" ->
            IF nn_usock_isidle(x, L) /\ nn_backoff_isidle(x) THEN StopList(x) ELSE x
       [] x.st[E] = "STOPPING_ATCPS" ->
            IF e.from[1] # "a" \/ e.type # "STOPPED" THEN nn_fsm_bad(x, e)
            ELSE LET y == Term(x, e.from[2]) IN IF y.list = {} THEN Stopped(y) ELSE y
       [] OTHER -> x

nn_btcp_stop(w) ==
  LET x == nn_backoff_stop(Stopping(w, E))
      stop == [to |-> E, from |-> E, type |-> "STOP"]
  IN IF x.acc # NoSlot THEN nn_btcp_shutdown(nn_atcp_stop(Set(x, E, "STOPPING_ATCP"), x.acc), stop)
     ELSE nn_btcp_shutdown(Set(x, E, "STOPPING_USOCK"), stop)

nn_btcp_active(w, e) ==
  LET i == e.from[2] IN
  CASE e.from = A(w.acc) -> IF e.type # "ACCEPTED" THEN {nn_fsm_bad(w, e)}
                            ELSE nn_btcp_start_accepting([w EXCEPT !.list = @ \cup {i}, !.acc = NoSlot])
    [] e.from[1] = "a" /\ e.type = "ERROR" -> {nn_atcp_stop(w, i)}
    [] e.from[1] = "a" /\ e.type = "STOPPED" -> {Term(w, i)}
    [] OTHER -> {nn_fsm_bad(w, e)}

nn_btcp_closing(w, e) ==
  CASE e.from = L /\ e.type = "SHUTDOWN" -> {w}
    [] e.from = L /\ e.type = "STOPPED" -> {nn_backoff_start(Set(w, E, "WAITING"))}
    [] OTHER -> {nn_fsm_bad(w, e)}

nn_btcp_waiting(w, e) ==
  IF e.from = Retry /\ e.type = "TIMEOUT" THEN {nn_backoff_stop(Set(w, E, "STOPPING_BACKOFF"))}
  ELSE {nn_fsm_bad(w, e)}

nn_btcp_stopping_backoff(w, e) ==
  IF e.from = Retry /\ e.type = "STOPPED" THEN nn_btcp_start_listening(w) ELSE {nn_fsm_bad(w, e)}

nn_btcp_handler(w, e) ==
  CASE E \in w.stop -> {nn_btcp_shutdown(w, e)}
    [] w.st[E] = "ACTIVE" -> nn_btcp_active(w, e)
    [] w.st[E] = "CLOSING" -> nn_btcp_closing(w, e)
    [] w.st[E] = "WAITING" -> nn_btcp_waiting(w, e)
    [] w.st[E] = "STOPPING_BACKOFF" -> nn_btcp_stopping_backoff(w, e)
    [] OTHER -> {nn_fsm_bad(w, e)}
-----------------------------------------------------------------------------
\* ctcp.c: the connecting endpoint.
nn_ctcp_start_resolving(w) == nn_dns_start(Set(w, E, "RESOLVING"))

\* The local interface or socket() fails; bind() fails, and the usock is kept;
\* or the connection is started.
nn_ctcp_start_connecting(w) ==
  LET x == nn_usock_start(w, U(1)) IN
  {nn_backoff_start(Set(w, E, "WAITING")), nn_backoff_start(Set(x, E, "WAITING"))}
    \cup nn_usock_connect([x EXCEPT !.st[E] = "CONNECTING", !.prog = @ + 1], U(1))

nn_ctcp_create(w) == {[w EXCEPT !.ep = "REFUSED"]} \cup nn_ctcp_start_resolving([w EXCEPT !.ep = "OPEN"])

\* Mutant: the end of the usock is not awaited.
nn_ctcp_shutdown_early(w) ==
  LET X == IF w.st[E] # "STOPPING_STCP_FINAL" \/ ~nn_fsm_isidle(w, S(1)) THEN {w}
           ELSE nn_dns_stop(nn_usock_stop(nn_backoff_stop(Set(w, E, "STOPPING")), U(1)))
  IN {IF x.st[E] = "STOPPING" /\ nn_backoff_isidle(x) /\ nn_fsm_isidle(x, Dns) THEN Stopped(x) ELSE x : x \in X}

nn_ctcp_shutdown(w) ==
  LET X == IF w.st[E] # "STOPPING_STCP_FINAL" \/ ~nn_fsm_isidle(w, S(1)) THEN {w}
           ELSE nn_dns_stop(nn_usock_stop(nn_backoff_stop(Set(w, E, "STOPPING")), U(1)))
  IN {IF /\ x.st[E] = "STOPPING" /\ nn_backoff_isidle(x)
         /\ nn_usock_isidle(x, U(1)) /\ nn_fsm_isidle(x, Dns)
      THEN Stopped(x) ELSE x : x \in X}

nn_ctcp_stop(w) == nn_ctcp_shutdown(Set(nn_stcp_stop(Stopping(w, E), 1), E, "STOPPING_STCP_FINAL"))

nn_ctcp_resolving(w, e) ==
  IF e.from = Dns /\ e.type = "DONE" THEN nn_dns_stop(Set(w, E, "STOPPING_DNS")) ELSE {nn_fsm_bad(w, e)}

\* The name was resolved or not.
nn_ctcp_stopping_dns(w, e) ==
  IF e.from = Dns /\ e.type = "STOPPED"
  THEN nn_ctcp_start_connecting(w) \cup {nn_backoff_start(Set(w, E, "WAITING"))}
  ELSE {nn_fsm_bad(w, e)}

nn_ctcp_connecting(w, e) ==
  CASE e.from = U(1) /\ e.type = "CONNECTED" -> nn_stcp_start([w EXCEPT !.st[E] = "ACTIVE", !.prog = @ - 1], 1)
    [] e.from = U(1) /\ e.type = "ERROR" ->
         {nn_usock_stop([w EXCEPT !.st[E] = "STOPPING_USOCK", !.prog = @ - 1], U(1))}
    [] OTHER -> {nn_fsm_bad(w, e)}

nn_ctcp_active(w, e) ==
  IF e.from = S(1) /\ e.type = "ERROR" THEN {nn_stcp_stop(Set(w, E, "STOPPING_STCP"), 1)}
  ELSE {nn_fsm_bad(w, e)}

nn_ctcp_stopping_stcp(w, e) ==
  CASE e.from = S(1) /\ e.type = "STOPPED" -> {nn_usock_stop(Set(w, E, "STOPPING_USOCK"), U(1))}
    [] e.from = S(1) /\ e.type = "SHUTDOWN" -> {w}
    [] OTHER -> {nn_fsm_bad(w, e)}

\* Mutant: the retry timer is not started.
nn_ctcp_stopping_usock_rests(w, e) == IF e.type = "STOPPED" THEN {Set(w, E, "WAITING")} ELSE {w}

nn_ctcp_stopping_usock(w, e) ==
  CASE e.from = U(1) /\ e.type = "STOPPED" -> {nn_backoff_start(Set(w, E, "WAITING"))}
    [] e.from = U(1) /\ e.type = "SHUTDOWN" -> {w}
    [] OTHER -> {nn_fsm_bad(w, e)}

nn_ctcp_waiting(w, e) ==
  IF e.from = Retry /\ e.type = "TIMEOUT" THEN {nn_backoff_stop(Set(w, E, "STOPPING_BACKOFF"))}
  ELSE {nn_fsm_bad(w, e)}

nn_ctcp_stopping_backoff(w, e) ==
  IF e.from = Retry /\ e.type = "STOPPED" THEN nn_ctcp_start_resolving(w) ELSE {nn_fsm_bad(w, e)}

nn_ctcp_handler(w, e) ==
  CASE E \in w.stop -> nn_ctcp_shutdown(w)
    [] w.st[E] = "RESOLVING" -> nn_ctcp_resolving(w, e)
    [] w.st[E] = "STOPPING_DNS" -> nn_ctcp_stopping_dns(w, e)
    [] w.st[E] = "CONNECTING" -> nn_ctcp_connecting(w, e)
    [] w.st[E] = "ACTIVE" -> nn_ctcp_active(w, e)
    [] w.st[E] = "STOPPING_STCP" -> nn_ctcp_stopping_stcp(w, e)
    [] w.st[E] = "STOPPING_USOCK" -> nn_ctcp_stopping_usock(w, e)
    [] w.st[E] = "WAITING" -> nn_ctcp_waiting(w, e)
    [] w.st[E] = "STOPPING_BACKOFF" -> nn_ctcp_stopping_backoff(w, e)
    [] OTHER -> {nn_fsm_bad(w, e)}
=============================================================================
