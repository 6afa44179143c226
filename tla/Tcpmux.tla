------------------------------- MODULE Tcpmux -------------------------------
(***************************************************************************)
(* The TCPMUX transport.  A daemon, tcpmuxd, owns the TCP port: the bound  *)
(* endpoint btcpmux registers a service with it and is handed connections, *)
(* the connecting endpoint ctcpmux names the service before the session    *)
(* starts.                                                                 *)
(***************************************************************************)
EXTENDS Streamhdr

\* stcpmux.c: the session.  S(i) is in w.held while it has the usock.
nn_stcpmux_idle(w, i) == nn_streamhdr_start(Set(w, S(i), "PROTOHDR"), i)

nn_stcpmux_start(w, i) ==
  IF S(i) \in w.held THEN {Bad(w, <<"assert", "nn_stcpmux_start">>)}
  ELSE nn_stcpmux_idle(nn_usock_swap_owner([w EXCEPT !.held = @ \cup {S(i)}], U(i), S(i)), i)

nn_stcpmux_shutdown(w, i) ==
  IF ~nn_fsm_isidle(w, H(i)) THEN w
  ELSE nn_fsm_stopped(nn_usock_swap_owner([w EXCEPT !.held = @ \ {S(i)}], U(i), Parent(w, U(i))), S(i))

nn_stcpmux_stop(w, i) ==
  IF ~Stoppable(w, S(i)) THEN w
  ELSE nn_stcpmux_shutdown(nn_streamhdr_stop(Set(nn_pipebase_stop(Stopping(w, S(i)), i), S(i), "STOPPING"), i), i)

nn_stcpmux_send(w, i) ==
  IF w.st[S(i)] # "ACTIVE" \/ w.outs[i] # "IDLE" THEN {Bad(w, <<"assert", "nn_stcpmux_send">>)}
  ELSE nn_usock_send([w EXCEPT !.outs[i] = "SENDING"], U(i))

nn_stcpmux_recv(w, i) ==
  IF w.st[S(i)] # "ACTIVE" \/ w.ins[i] # "HASMSG" THEN {Bad(w, <<"assert", "nn_stcpmux_recv">>)}
  ELSE nn_usock_recv([w EXCEPT !.ins[i] = "HDR"], U(i))

nn_stcpmux_protohdr(w, i, e) ==
  CASE e.from = H(i) /\ e.type = "OK" -> {nn_streamhdr_stop(Set(w, S(i), "STOPPING_STREAMHDR"), i)}
    [] e.from = H(i) /\ e.type = "ERROR" -> {Done(w, S(i), "ERROR")}
    [] OTHER -> {nn_fsm_bad(w, e)}

\* The pipe is offered to the socket and the first message awaited.
nn_stcpmux_stopping_streamhdr(w, i, e) ==
  IF e.from = H(i) /\ e.type = "STOPPED"
  THEN UNION {IF x.pipe[i].st # "ACTIVE" THEN {Done(x, S(i), "ERROR")}
              ELSE nn_usock_recv([x EXCEPT !.ins[i] = "HDR", !.outs[i] = "IDLE", !.st[S(i)] = "ACTIVE"], U(i))
              : x \in nn_pipebase_start(w, i)}
  ELSE {nn_fsm_bad(w, e)}

\* The size read from the header is zero or that of the body.
nn_stcpmux_received(w, i) ==
  CASE w.ins[i] = "HDR" ->
         {nn_pipebase_received([w EXCEPT !.ins[i] = "HASMSG"], i)} \cup
           nn_usock_recv([w EXCEPT !.ins[i] = "BODY"], U(i))
    [] w.ins[i] = "BODY" -> {nn_pipebase_received([w EXCEPT !.ins[i] = "HASMSG"], i)}
    [] OTHER -> {Bad(w, <<"assert", "nn_stcpmux_received">>)}

nn_stcpmux_active(w, i, e) ==
  CASE e.type = "SENT" -> IF w.outs[i] = "SENDING" THEN {nn_pipebase_sent([w EXCEPT !.outs[i] = "IDLE"], i)}
                          ELSE {Bad(w, <<"assert", "nn_stcpmux_sent">>)}
    [] e.type = "RECEIVED" -> nn_stcpmux_received(w, i)
    [] e.type = "SHUTDOWN" -> {Set(nn_pipebase_stop(w, i), S(i), "SHUTTING_DOWN")}
    [] e.type = "ERROR" -> {Done(nn_pipebase_stop(w, i), S(i), "ERROR")}
    [] OTHER -> {nn_fsm_bad(w, e)}

nn_stcpmux_shutting_down(w, i, e) ==
  IF e.from = U(i) /\ e.type = "ERROR" THEN {Done(w, S(i), "ERROR")} ELSE {nn_fsm_bad(w, e)}

nn_stcpmux_handler(w, i, e) ==
  CASE S(i) \in w.stop -> {nn_stcpmux_shutdown(w, i)}
    [] w.st[S(i)] = "PROTOHDR" -> nn_stcpmux_protohdr(w, i, e)
    [] w.st[S(i)] = "STOPPING_STREAMHDR" -> nn_stcpmux_stopping_streamhdr(w, i, e)
    [] w.st[S(i)] = "ACTIVE" /\ e.from = U(i) -> nn_stcpmux_active(w, i, e)
    [] w.st[S(i)] = "SHUTTING_DOWN" -> nn_stcpmux_shutting_down(w, i, e)
    [] OTHER -> {nn_fsm_bad(w, e)}
-----------------------------------------------------------------------------
\* atcpmux.c: a connection handed over by tcpmuxd.
nn_atcpmux_start(w, i) ==
  IF ~nn_fsm_isidle(w, A(i)) THEN {Bad(w, <<"assert", "nn_atcpmux_start">>)}
  ELSE nn_stcpmux_start(nn_usock_start_fd(Set(w, A(i), "ACTIVE"), U(i)), i)

nn_atcpmux_shutdown(w, i) ==
  LET x == IF w.st[A(i)] = "STOPPING_STCPMUX_FINAL" /\ nn_fsm_isidle(w, S(i))
           THEN nn_usock_stop(Set(w, A(i), "STOPPING"), U(i)) ELSE w
  IN IF x.st[A(i)] = "STOPPING" /\ nn_usock_isidle(x, U(i)) THEN nn_fsm_stopped(x, A(i)) ELSE x

nn_atcpmux_stop(w, i) ==
  IF ~Stoppable(w, A(i)) THEN w
  ELSE nn_atcpmux_shutdown(Set(nn_stcpmux_stop(Stopping(w, A(i)), i), A(i), "STOPPING_STCPMUX_FINAL"), i)

nn_atcpmux_active(w, i, e) ==
  IF e.from = S(i) /\ e.type = "ERROR" THEN {nn_stcpmux_stop(Set(w, A(i), "STOPPING_STCPMUX"), i)}
  ELSE {nn_fsm_bad(w, e)}

nn_atcpmux_stopping_stcpmux(w, i, e) ==
  CASE e.from = S(i) /\ e.type = "STOPPED" -> {nn_usock_stop(Set(w, A(i), "STOPPING_USOCK"), U(i))}
    [] e.from = S(i) /\ e.type = "SHUTDOWN" -> {w}
    [] OTHER -> {nn_fsm_bad(w, e)}

nn_atcpmux_stopping_usock(w, i, e) ==
  CASE e.from = U(i) /\ e.type = "STOPPED" -> {Done(w, A(i), "ERROR")}
    [] e.from = U(i) /\ e.type = "SHUTDOWN" -> {w}
    [] OTHER -> {nn_fsm_bad(w, e)}

nn_atcpmux_handler(w, i, e) ==
  CASE A(i) \in w.stop -> {nn_atcpmux_shutdown(w, i)}
    [] w.st[A(i)] = "ACTIVE" -> nn_atcpmux_active(w, i, e)
    [] w.st[A(i)] = "STOPPING_STCPMUX" -> nn_atcpmux_stopping_stcpmux(w, i, e)
    [] w.st[A(i)] = "STOPPING_USOCK" -> nn_atcpmux_stopping_usock(w, i, e)
    [] OTHER -> {nn_fsm_bad(w, e)}
-----------------------------------------------------------------------------
\* btcpmux.c: the bound endpoint, which asks tcpmuxd for connections over L.
nn_btcpmux_start_connecting(w) ==
  {nn_backoff_start(Set(w, E, "WAITING"))} \cup nn_usock_connect(Set(nn_usock_start(w, L), E, "CONNECTING"), L)

nn_btcpmux_create(w) == {[w EXCEPT !.ep = "REFUSED"]} \cup nn_btcpmux_start_connecting([w EXCEPT !.ep = "OPEN"])

nn_btcpmux_shutdown(w, e) ==
  CASE w.st[E] = "STOPPING_USOCK" ->
         IF ~nn_usock_isidle(w, L) THEN w
         ELSE LET x == FoldLeft(nn_atcpmux_stop, Set(w, E, "STOPPING_ATCPMUXES"), SetToSeq(w.list))
              IN IF w.list = {} THEN Stopped(x) ELSE x
    [] w.st[E] = "STOPPING_ATCPMUXES" ->
         IF e.from[1] # "a" \/ e.type # "STOPPED" THEN nn_fsm_bad(w, e)
         ELSE LET x == Term(w, e.from[2]) IN IF x.list = {} THEN Stopped(x) ELSE x

nn_btcpmux_stop(w) ==
  nn_btcpmux_shutdown(Set(nn_usock_stop(nn_backoff_stop(Stopping(w, E)), L), E, "STOPPING_USOCK"),
                      [to |-> E, from |-> E, type |-> "STOP"])

\* The usock is stopped; the state entered is one only the shutdown knows.
GiveUp(w) == nn_usock_stop(Set(w, E, "STOPPING_USOCK"), L)

nn_btcpmux_connecting(w, e) ==
  CASE e.from = L /\ e.type = "CONNECTED" -> nn_usock_send(Set(w, E, "SENDING_BINDREQ"), L)
    [] e.from = L /\ e.type = "ERROR" -> {GiveUp(w)}
    [] OTHER -> {nn_fsm_bad(w, e)}

nn_btcpmux_sending_bindreq(w, e) ==
  CASE e.from = L /\ e.type = "SENT" -> nn_usock_recv(Set(w, E, "ACTIVE"), L)
    [] e.from = L /\ e.type = "ERROR" -> {GiveUp(w)}
    [] OTHER -> {nn_fsm_bad(w, e)}

\* tcpmuxd refuses, or hands over a connection.
nn_btcpmux_received(w) ==
  {GiveUp(w)} \cup
  UNION {UNION {nn_usock_recv([x EXCEPT !.list = @ \cup {i}], L) : x \in nn_atcpmux_start(w, i)}
         : i \in IF CanAccept(w) THEN {CHOOSE j \in FreeSlots(w) : TRUE} ELSE {}}

nn_btcpmux_active(w, e) ==
  CASE e.from = L /\ e.type = "RECEIVED" -> nn_btcpmux_received(w)
    [] e.from = L /\ e.type = "ERROR" -> {GiveUp(w)}
    [] e.from[1] = "a" /\ e.type = "ERROR" -> {nn_atcpmux_stop(w, e.from[2])}
    [] e.from[1] = "a" /\ e.type = "STOPPED" -> {Term(w, e.from[2])}
    [] OTHER -> {nn_fsm_bad(w, e)}

nn_btcpmux_closing(w, e) ==
  CASE e.from = L /\ e.type = "SHUTDOWN" -> {w}
    [] e.from = L /\ e.type = "STOPPED" -> {nn_backoff_start(Set(w, E, "WAITING"))}
    [] OTHER -> {nn_fsm_bad(w, e)}

nn_btcpmux_waiting(w, e) ==
  IF e.from = Retry /\ e.type = "TIMEOUT" THEN {nn_backoff_stop(Set(w, E, "STOPPING_BACKOFF"))}
  ELSE {nn_fsm_bad(w, e)}

nn_btcpmux_stopping_backoff(w, e) ==
  IF e.from = Retry /\ e.type = "STOPPED" THEN nn_btcpmux_start_connecting(w) ELSE {nn_fsm_bad(w, e)}

nn_btcpmux_handler(w, e) ==
  CASE E \in w.stop -> {nn_btcpmux_shutdown(w, e)}
    [] w.st[E] = "CONNECTING" -> nn_btcpmux_connecting(w, e)
    [] w.st[E] = "SENDING_BINDREQ" -> nn_btcpmux_sending_bindreq(w, e)
    [] w.st[E] = "ACTIVE" -> nn_btcpmux_active(w, e)
    [] w.st[E] = "CLOSING" -> nn_btcpmux_closing(w, e)
    [] w.st[E] = "WAITING" -> nn_btcpmux_waiting(w, e)
    [] w.st[E] = "STOPPING_BACKOFF" -> nn_btcpmux_stopping_backoff(w, e)
    [] OTHER -> {nn_fsm_bad(w, e)}
-----------------------------------------------------------------------------
\* ctcpmux.c: the connecting endpoint.
nn_ctcpmux_start_resolving(w) == nn_dns_start(Set(w, E, "RESOLVING"))

\* The local interface or socket() fails; bind() fails, and the usock is kept;
\* or the connection is started.
nn_ctcpmux_start_connecting(w) ==
  LET x == nn_usock_start(w, U(1)) IN
  {nn_backoff_start(Set(w, E, "WAITING")), nn_backoff_start(Set(x, E, "WAITING"))}
    \cup nn_usock_connect([x EXCEPT !.st[E] = "CONNECTING", !.prog = @ + 1], U(1))

nn_ctcpmux_create(w) == {[w EXCEPT !.ep = "REFUSED"]} \cup nn_ctcpmux_start_resolving([w EXCEPT !.ep = "OPEN"])

nn_ctcpmux_shutdown(w) ==
  LET X == IF w.st[E] # "STOPPING_STCPMUX_FINAL" \/ ~nn_fsm_isidle(w, S(1)) THEN {w}
           ELSE nn_dns_stop(nn_usock_stop(nn_backoff_stop(Set(w, E, "STOPPING")), U(1)))
  IN {IF /\ x.st[E] = "STOPPING" /\ nn_backoff_isidle(x)
         /\ nn_usock_isidle(x, U(1)) /\ nn_fsm_isidle(x, Dns)
      THEN Stopped(x) ELSE x : x \in X}

nn_ctcpmux_stop(w) == nn_ctcpmux_shutdown(Set(nn_stcpmux_stop(Stopping(w, E), 1), E, "STOPPING_STCPMUX_FINAL"))

nn_ctcpmux_resolving(w, e) ==
  IF e.from = Dns /\ e.type = "DONE" THEN nn_dns_stop(Set(w, E, "STOPPING_DNS")) ELSE {nn_fsm_bad(w, e)}

\* The name was resolved or not.
nn_ctcpmux_stopping_dns(w, e) ==
  IF e.from = Dns /\ e.type = "STOPPED"
  THEN nn_ctcpmux_start_connecting(w) \cup {nn_backoff_start(Set(w, E, "WAITING"))}
  ELSE {nn_fsm_bad(w, e)}

nn_ctcpmux_connecting(w, e) ==
  CASE e.from = U(1) /\ e.type = "CONNECTED" ->
         nn_usock_send([w EXCEPT !.st[E] = "SENDING_TCPMUXHDR", !.prog = @ - 1], U(1))
    [] e.from = U(1) /\ e.type = "ERROR" ->
         {nn_usock_stop([w EXCEPT !.st[E] = "STOPPING_USOCK", !.prog = @ - 1], U(1))}
    [] OTHER -> {nn_fsm_bad(w, e)}

nn_ctcpmux_sending_tcpmuxhdr(w, e) ==
  CASE e.from = U(1) /\ e.type = "SENT" -> nn_usock_recv(Set(w, E, "RECEIVING_TCPMUXHDR"), U(1))
    [] e.from = U(1) /\ e.type = "ERROR" -> {nn_usock_stop(Set(w, E, "STOPPING_USOCK"), U(1))}
    [] OTHER -> {nn_fsm_bad(w, e)}

\* tcpmuxd agrees, or its answer is handled like an error.
nn_ctcpmux_receiving_tcpmuxhdr(w, e) ==
  LET X == {nn_usock_stop(Set(w, E, "STOPPING_USOCK"), U(1))} IN
  CASE e.from = U(1) /\ e.type = "RECEIVED" -> X \cup nn_stcpmux_start(Set(w, E, "ACTIVE"), 1)
    [] e.from = U(1) /\ e.type = "ERROR" -> X
    [] OTHER -> {nn_fsm_bad(w, e)}

nn_ctcpmux_active(w, e) ==
  IF e.from = S(1) /\ e.type = "ERROR" THEN {nn_stcpmux_stop(Set(w, E, "STOPPING_STCPMUX"), 1)}
  ELSE {nn_fsm_bad(w, e)}

nn_ctcpmux_stopping_stcpmux(w, e) ==
  CASE e.from = S(1) /\ e.type = "STOPPED" -> {nn_usock_stop(Set(w, E, "STOPPING_USOCK"), U(1))}
    [] e.from = S(1) /\ e.type = "SHUTDOWN" -> {w}
    [] OTHER -> {nn_fsm_bad(w, e)}

nn_ctcpmux_stopping_usock(w, e) ==
  CASE e.from = U(1) /\ e.type = "STOPPED" -> {nn_backoff_start(Set(w, E, "WAITING"))}
    [] e.from = U(1) /\ e.type = "SHUTDOWN" -> {w}
    [] OTHER -> {nn_fsm_bad(w, e)}

nn_ctcpmux_waiting(w, e) ==
  IF e.from = Retry /\ e.type = "TIMEOUT" THEN {nn_backoff_stop(Set(w, E, "STOPPING_BACKOFF"))}
  ELSE {nn_fsm_bad(w, e)}

nn_ctcpmux_stopping_backoff(w, e) ==
  IF e.from = Retry /\ e.type = "STOPPED" THEN nn_ctcpmux_start_resolving(w) ELSE {nn_fsm_bad(w, e)}

nn_ctcpmux_handler(w, e) ==
  CASE E \in w.stop -> nn_ctcpmux_shutdown(w)
    [] w.st[E] = "RESOLVING" -> nn_ctcpmux_resolving(w, e)
    [] w.st[E] = "STOPPING_DNS" -> nn_ctcpmux_stopping_dns(w, e)
    [] w.st[E] = "CONNECTING" -> nn_ctcpmux_connecting(w, e)
    [] w.st[E] = "SENDING_TCPMUXHDR" -> nn_ctcpmux_sending_tcpmuxhdr(w, e)
    [] w.st[E] = "RECEIVING_TCPMUXHDR" -> nn_ctcpmux_receiving_tcpmuxhdr(w, e)
    [] w.st[E] = "ACTIVE" -> nn_ctcpmux_active(w, e)
    [] w.st[E] = "STOPPING_STCPMUX" -> nn_ctcpmux_stopping_stcpmux(w, e)
    [] w.st[E] = "STOPPING_USOCK" -> nn_ctcpmux_stopping_usock(w, e)
    [] w.st[E] = "WAITING" -> nn_ctcpmux_waiting(w, e)
    [] w.st[E] = "STOPPING_BACKOFF" -> nn_ctcpmux_stopping_backoff(w, e)
    [] OTHER -> {nn_fsm_bad(w, e)}
=============================================================================
