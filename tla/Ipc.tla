-------------------------------- MODULE Ipc ---------------------------------
(***************************************************************************)
(* The IPC transport: the session sipc, the accepted connection aipc, the  *)
(* bound endpoint bipc and the connecting endpoint cipc.  One operator for *)
(* every state of every machine: what it does with event e.                *)
(***************************************************************************)
EXTENDS Streamhdr

\* sipc.c: the session.  S(i) is in w.held while it has the usock.
nn_sipc_idle(w, i) == nn_streamhdr_start(Set(w, S(i), "PROTOHDR"), i)

nn_sipc_start(w, i) ==
  IF S(i) \in w.held THEN {Bad(w, <<"assert", "nn_sipc_start">>)}
  ELSE nn_sipc_idle(nn_usock_swap_owner([w EXCEPT !.held = @ \cup {S(i)}], U(i), S(i)), i)

nn_sipc_shutdown(w, i) ==
  IF ~nn_fsm_isidle(w, H(i)) THEN w
  ELSE nn_fsm_stopped(nn_usock_swap_owner([w EXCEPT !.held = @ \ {S(i)}], U(i), Parent(w, U(i))), S(i))

nn_sipc_stop(w, i) ==
  IF ~Stoppable(w, S(i)) THEN w
  ELSE nn_sipc_shutdown(nn_streamhdr_stop(Set(nn_pipebase_stop(Stopping(w, S(i)), i), S(i), "STOPPING"), i), i)

nn_sipc_send(w, i) ==
  IF w.st[S(i)] # "ACTIVE" \/ w.outs[i] # "IDLE" THEN {Bad(w, <<"assert", "nn_sipc_send">>)}
  ELSE nn_usock_send([w EXCEPT !.outs[i] = "SENDING"], U(i))

nn_sipc_recv(w, i) ==
  IF w.st[S(i)] # "ACTIVE" \/ w.ins[i] # "HASMSG" THEN {Bad(w, <<"assert", "nn_sipc_recv">>)}
  ELSE nn_usock_recv([w EXCEPT !.ins[i] = "HDR"], U(i))

nn_sipc_protohdr(w, i, e) ==
  CASE e.from = H(i) /\ e.type = "OK" -> {nn_streamhdr_stop(Set(w, S(i), "STOPPING_STREAMHDR"), i)}
    [] e.from = H(i) /\ e.type = "ERROR" -> {Done(w, S(i), "ERROR")}
    [] OTHER -> {nn_fsm_bad(w, e)}

\* The pipe is offered to the socket and the first message awaited.
nn_sipc_stopping_streamhdr(w, i, e) ==
  IF e.from = H(i) /\ e.type = "STOPPED"
  THEN UNION {IF x.pipe[i].st # "ACTIVE" THEN {Done(x, S(i), "ERROR")}
              ELSE nn_usock_recv([x EXCEPT !.ins[i] = "HDR", !.outs[i] = "IDLE", !.st[S(i)] = "ACTIVE"], U(i))
              : x \in nn_pipebase_start(w, i)}
  ELSE {nn_fsm_bad(w, e)}

\* The size read from the header is zero or that of the body; the type of the
\* message is always the normal one.
nn_sipc_received(w, i) ==
  CASE w.ins[i] = "HDR" ->
         {nn_pipebase_received([w EXCEPT !.ins[i] = "HASMSG"], i)} \cup
           nn_usock_recv([w EXCEPT !.ins[i] = "BODY"], U(i))
    [] w.ins[i] = "BODY" -> {nn_pipebase_received([w EXCEPT !.ins[i] = "HASMSG"], i)}
    [] OTHER -> {Bad(w, <<"assert", "nn_sipc_received">>)}

\* Mutant: the pipe stays when the connection is being shut down.
nn_sipc_active_keeps(w, i, e) ==
  CASE e.type = "SENT" -> {nn_pipebase_sent([w EXCEPT !.outs[i] = "IDLE"], i)}
    [] e.type = "RECEIVED" -> nn_sipc_received(w, i)
    [] e.type = "SHUTDOWN" -> {Set(w, S(i), "SHUTTING_DOWN")}
    [] OTHER -> {Done(nn_pipebase_stop(w, i), S(i), "ERROR")}

nn_sipc_active(w, i, e) ==
  CASE e.type = "SENT" -> IF w.outs[i] = "SENDING" THEN {nn_pipebase_sent([w EXCEPT !.outs[i] = "IDLE"], i)}
                          ELSE {Bad(w, <<"assert", "nn_sipc_sent">>)}
    [] e.type = "RECEIVED" -> nn_sipc_received(w, i)
    [] e.type = "SHUTDOWN" -> {Set(nn_pipebase_stop(w, i), S(i), "SHUTTING_DOWN")}
    [] e.type = "ERROR" -> {Done(nn_pipebase_stop(w, i), S(i), "ERROR")}
    [] OTHER -> {nn_fsm_bad(w, e)}

nn_sipc_shutting_down(w, i, e) ==
  IF e.from = U(i) /\ e.type = "ERROR" THEN {Done(w, S(i), "ERROR")} ELSE {nn_fsm_bad(w, e)}

nn_sipc_handler(w, i, e) ==
  CASE S(i) \in w.stop -> {nn_sipc_shutdown(w, i)}
    [] w.st[S(i)] = "PROTOHDR" -> nn_sipc_protohdr(w, i, e)
    [] w.st[S(i)] = "STOPPING_STREAMHDR" -> nn_sipc_stopping_streamhdr(w, i, e)
    [] w.st[S(i)] = "ACTIVE" /\ e.from = U(i) -> nn_sipc_active(w, i, e)
    [] w.st[S(i)] = "SHUTTING_DOWN" -> nn_sipc_shutting_down(w, i, e)
    [] OTHER -> {nn_fsm_bad(w, e)}
-----------------------------------------------------------------------------
\* aipc.c: an accepted connection.  A(i) is in w.held while it has the listener.
nn_aipc_idle(w, i) == nn_usock_accept(Set(w, A(i), "ACCEPTING"), i)

nn_aipc_start(w, i) ==
  IF A(i) \in w.held \/ ~nn_fsm_isidle(w, A(i)) THEN {Bad(w, <<"assert", "nn_aipc_start">>)}
  ELSE nn_aipc_idle(nn_usock_swap_owner([w EXCEPT !.held = @ \cup {A(i)}], L, A(i)), i)

\* The usock is stopped when the session is idle, the listener returned when
\* the usock is.
nn_aipc_shutdown(w, i) ==
  LET x == IF w.st[A(i)] = "STOPPING_SIPC_FINAL" /\ nn_fsm_isidle(w, S(i))
           THEN nn_usock_stop(Set(w, A(i), "STOPPING"), U(i)) ELSE w
  IN IF x.st[A(i)] # "STOPPING" \/ ~nn_usock_isidle(x, U(i)) THEN x
     ELSE nn_fsm_stopped(IF A(i) \in x.held THEN nn_usock_swap_owner([x EXCEPT !.held = @ \ {A(i)}], L, E)
                         ELSE x, A(i))

nn_aipc_stop(w, i) ==
  IF ~Stoppable(w, A(i)) THEN w
  ELSE nn_aipc_shutdown(Set(nn_sipc_stop(Stopping(w, A(i)), i), A(i), "STOPPING_SIPC_FINAL"), i)

\* A connection: the listener goes back to the endpoint and the session starts.
nn_aipc_accepting(w, i, e) ==
  CASE e.from = U(i) /\ e.type = "ACCEPTED" ->
         nn_sipc_start(nn_usock_activate(nn_fsm_raise(nn_usock_swap_owner(
             [w EXCEPT !.held = @ \ {A(i)}, !.st[A(i)] = "ACTIVE"], L, E), A(i), "ACCEPTED"), U(i)), i)
    [] e.from = L /\ e.type = "ACCEPT_ERROR" -> nn_usock_accept(w, i)
    [] OTHER -> {nn_fsm_bad(w, e)}

nn_aipc_active(w, i, e) ==
  IF e.from = S(i) /\ e.type = "ERROR" THEN {nn_sipc_stop(Set(w, A(i), "STOPPING_SIPC"), i)}
  ELSE {nn_fsm_bad(w, e)}

nn_aipc_stopping_sipc(w, i, e) ==
  CASE e.from = S(i) /\ e.type = "STOPPED" -> {nn_usock_stop(Set(w, A(i), "STOPPING_USOCK"), U(i))}
    [] e.from = S(i) /\ e.type = "SHUTDOWN" -> {w}
    [] OTHER -> {nn_fsm_bad(w, e)}

nn_aipc_stopping_usock(w, i, e) ==
  CASE e.from = U(i) /\ e.type = "STOPPED" -> {Done(w, A(i), "ERROR")}
    [] e.from = U(i) /\ e.type = "SHUTDOWN" -> {w}
    [] OTHER -> {nn_fsm_bad(w, e)}

nn_aipc_handler(w, i, e) ==
  CASE A(i) \in w.stop -> {nn_aipc_shutdown(w, i)}
    [] w.st[A(i)] = "ACCEPTING" -> nn_aipc_accepting(w, i, e)
    [] w.st[A(i)] = "ACTIVE" -> nn_aipc_active(w, i, e)
    [] w.st[A(i)] = "STOPPING_SIPC" -> nn_aipc_stopping_sipc(w, i, e)
    [] w.st[A(i)] = "STOPPING_USOCK" -> nn_aipc_stopping_usock(w, i, e)
    [] OTHER -> {nn_fsm_bad(w, e)}
-----------------------------------------------------------------------------
\* bipc.c: the bound endpoint.
nn_bipc_start_accepting(w) ==
  IF w.acc # NoSlot THEN {Bad(w, <<"assert", "nn_bipc_start_accepting">>)}
  ELSE UNION {nn_aipc_start([w EXCEPT !.acc = i], i) : i \in {CHOOSE j \in FreeSlots(w) : TRUE}}

\* A file left over by an earlier run is removed.  socket() fails: wait.
\* bind() or listen() fails: close, then wait.
nn_bipc_start_listening(w) ==
  {nn_backoff_start(Set(w, E, "WAITING"))} \cup
  LET x == nn_usock_start(w, L) IN
  {nn_usock_stop(Set(x, E, "CLOSING"), L)} \cup
  nn_bipc_start_accepting([x EXCEPT !.st[L] = "LISTENING", !.st[E] = "ACTIVE"])

\* A path that does not fit into a sockaddr_un aborts the process.
nn_bipc_create(w) == {Bad(w, <<"assert", "sun_path">>)} \cup nn_bipc_start_listening([w EXCEPT !.ep = "OPEN"])

\* The accept is cancelled first, then the listener and the retry timer, then
\* every connection in the list.
StopIpcs(w) ==
  LET x == FoldLeft(nn_aipc_stop, Set(w, E, "STOPPING_AIPCS"), SetToSeq(w.list))
  IN IF w.list = {} THEN Stopped(x) ELSE x

nn_bipc_shutdown(w, e) ==
  LET x == IF w.st[E] = "STOPPING_AIPC" /\ nn_fsm_isidle(w, A(w.acc))
           THEN nn_usock_stop(Set(Term(w, w.acc), E, "STOPPING_USOCK"), L) ELSE w
  IN CASE x.st[E] = "STOPPING_USOCK" ->
            IF nn_usock_isidle(x, L) /\ nn_backoff_isidle(x) THEN StopIpcs(x) ELSE x
       [] x.st[E] = "STOPPING_AIPCS" ->
            IF e.from[1] # "a" \/ e.type # "STOPPED" THEN nn_fsm_bad(x, e)
            ELSE LET y == Term(x, e.from[2]) IN IF y.list = {} THEN Stopped(y) ELSE y
       [] OTHER -> x

\* Mutant: the retry timer is not stopped.
nn_bipc_stop_waits(w) ==
  LET x == Stopping(w, E)
      stop == [to |-> E, from |-> E, type |-> "STOP"]
  IN IF x.acc # NoSlot THEN nn_bipc_shutdown(nn_aipc_stop(Set(x, E, "STOPPING_AIPC"), x.acc), stop)
     ELSE nn_bipc_shutdown(Set(x, E, "STOPPING_USOCK"), stop)

nn_bipc_stop(w) ==
  LET x == nn_backoff_stop(Stopping(w, E))
      stop == [to |-> E, from |-> E, type |-> "STOP"]
  IN IF x.acc # NoSlot THEN nn_bipc_shutdown(nn_aipc_stop(Set(x, E, "STOPPING_AIPC"), x.acc), stop)
     ELSE nn_bipc_shutdown(Set(x, E, "STOPPING_USOCK"), stop)

nn_bipc_active(w, e) ==
  LET i == e.from[2] IN
  CASE e.from = A(w.acc) -> IF e.type # "ACCEPTED" THEN {nn_fsm_bad(w, e)}
                            ELSE nn_bipc_start_accepting([w EXCEPT !.list = @ \cup {i}, !.acc = NoSlot])
    [] e.from[1] = "a" /\ e.type = "ERROR" -> {nn_aipc_stop(w, i)}
    [] e.from[1] = "a" /\ e.type = "STOPPED" -> {Term(w, i)}
    [] OTHER -> {nn_fsm_bad(w, e)}

nn_bipc_closing(w, e) ==
  CASE e.from = L /\ e.type = "SHUTDOWN" -> {w}
    [] e.from = L /\ e.type = "STOPPED" -> {nn_backoff_start(Set(w, E, "WAITING"))}
    [] OTHER -> {nn_fsm_bad(w, e)}

nn_bipc_waiting(w, e) ==
  IF e.from = Retry /\ e.type = "TIMEOUT" THEN {nn_backoff_stop(Set(w, E, "STOPPING_BACKOFF"))}
  ELSE {nn_fsm_bad(w, e)}

nn_bipc_stopping_backoff(w, e) ==
  IF e.from = Retry /\ e.type = "STOPPED" THEN nn_bipc_start_listening(w) ELSE {nn_fsm_bad(w, e)}

nn_bipc_handler(w, e) ==
  CASE E \in w.stop -> {nn_bipc_shutdown(w, e)}
    [] w.st[E] = "ACTIVE" -> nn_bipc_active(w, e)
    [] w.st[E] = "CLOSING" -> nn_bipc_closing(w, e)
    [] w.st[E] = "WAITING" -> nn_bipc_waiting(w, e)
    [] w.st[E] = "STOPPING_BACKOFF" -> nn_bipc_stopping_backoff(w, e)
    [] OTHER -> {nn_fsm_bad(w, e)}
-----------------------------------------------------------------------------
\* cipc.c: the connecting endpoint.
\* socket() fails, or the connection is started.
nn_cipc_start_connecting(w) ==
  {nn_backoff_start(Set(w, E, "WAITING"))} \cup
  nn_usock_connect([nn_usock_start(w, U(1)) EXCEPT !.st[E] = "CONNECTING", !.prog = @ + 1], U(1))

nn_cipc_create(w) == {Bad(w, <<"assert", "sun_path">>)} \cup nn_cipc_start_connecting([w EXCEPT !.ep = "OPEN"])

nn_cipc_shutdown(w) ==
  LET x == IF w.st[E] # "STOPPING_SIPC_FINAL" \/ ~nn_fsm_isidle(w, S(1)) THEN w
           ELSE nn_usock_stop(nn_backoff_stop(Set(w, E, "STOPPING")), U(1))
  IN IF x.st[E] = "STOPPING" /\ nn_backoff_isidle(x) /\ nn_usock_isidle(x, U(1)) THEN Stopped(x) ELSE x

nn_cipc_stop(w) == nn_cipc_shutdown(Set(nn_sipc_stop(Stopping(w, E), 1), E, "STOPPING_SIPC_FINAL"))

nn_cipc_connecting(w, e) ==
  CASE e.from = U(1) /\ e.type = "CONNECTED" -> nn_sipc_start([w EXCEPT !.st[E] = "ACTIVE", !.prog = @ - 1], 1)
    [] e.from = U(1) /\ e.type = "ERROR" ->
         {nn_usock_stop([w EXCEPT !.st[E] = "STOPPING_USOCK", !.prog = @ - 1], U(1))}
    [] OTHER -> {nn_fsm_bad(w, e)}

nn_cipc_active(w, e) ==
  IF e.from = S(1) /\ e.type = "ERROR" THEN {nn_sipc_stop(Set(w, E, "STOPPING_SIPC"), 1)}
  ELSE {nn_fsm_bad(w, e)}

nn_cipc_stopping_sipc(w, e) ==
  CASE e.from = S(1) /\ e.type = "STOPPED" -> {nn_usock_stop(Set(w, E, "STOPPING_USOCK"), U(1))}
    [] e.from = S(1) /\ e.type = "SHUTDOWN" -> {w}
    [] OTHER -> {nn_fsm_bad(w, e)}

nn_cipc_stopping_usock(w, e) ==
  CASE e.from = U(1) /\ e.type = "STOPPED" -> {nn_backoff_start(Set(w, E, "WAITING"))}
    [] e.from = U(1) /\ e.type = "SHUTDOWN" -> {w}
    [] OTHER -> {nn_fsm_bad(w, e)}

nn_cipc_waiting(w, e) ==
  IF e.from = Retry /\ e.type = "TIMEOUT" THEN {nn_backoff_stop(Set(w, E, "STOPPING_BACKOFF"))}
  ELSE {nn_fsm_bad(w, e)}

nn_cipc_stopping_backoff(w, e) ==
  IF e.from = Retry /\ e.type = "STOPPED" THEN nn_cipc_start_connecting(w) ELSE {nn_fsm_bad(w, e)}

nn_cipc_handler(w, e) ==
  CASE E \in w.stop -> {nn_cipc_shutdown(w)}
    [] w.st[E] = "CONNECTING" -> nn_cipc_connecting(w, e)
    [] w.st[E] = "ACTIVE" -> nn_cipc_active(w, e)
    [] w.st[E] = "STOPPING_SIPC" -> nn_cipc_stopping_sipc(w, e)
    [] w.st[E] = "STOPPING_USOCK" -> nn_cipc_stopping_usock(w, e)
    [] w.st[E] = "WAITING" -> nn_cipc_waiting(w, e)
    [] w.st[E] = "STOPPING_BACKOFF" -> nn_cipc_stopping_backoff(w, e)
    [] OTHER -> {nn_fsm_bad(w, e)}
=============================================================================
