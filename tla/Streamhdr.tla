----------------------------- MODULE Streamhdr ------------------------------
(***************************************************************************)
(* nn_streamhdr (transports/utils/streamhdr.c): the exchange of protocol   *)
(* headers that opens every TCP, IPC and TCPMUX connection.  It borrows    *)
(* the usock of the session (w.held holds H(i) meanwhile) and gives it     *)
(* back when the headers were exchanged or the exchange failed.            *)
(***************************************************************************)
EXTENDS Aio

\* Start the timer and send our header.
nn_streamhdr_idle(w, i) == nn_usock_send(nn_timer_start(Set(w, H(i), "SENDING"), T(i)), U(i))

nn_streamhdr_start(w, i) ==
  IF H(i) \in w.held THEN {Bad(w, <<"assert", "nn_streamhdr_start">>)}
  ELSE nn_streamhdr_idle(nn_usock_swap_owner([w EXCEPT !.held = @ \cup {H(i)}, !.agreed[i] = FALSE], U(i), H(i)), i)

nn_streamhdr_shutdown(w, i) ==
  IF nn_timer_isidle(w, T(i)) THEN nn_fsm_stopped(w, H(i)) ELSE w

nn_streamhdr_stop(w, i) ==
  IF ~Stoppable(w, H(i)) THEN w
  ELSE nn_streamhdr_shutdown(Set(nn_timer_stop(Stopping(w, H(i)), T(i)), H(i), "STOPPING"), i)

StopTimer(w, i, state) == Set(nn_timer_stop(w, T(i)), H(i), state)

nn_streamhdr_sending(w, i, e) ==
  CASE e.from = U(i) /\ e.type = "SENT" -> nn_usock_recv(Set(w, H(i), "RECEIVING"), U(i))
    [] e.from = U(i) /\ e.type = "SHUTDOWN" -> {w}
    [] e.type \in {"ERROR", "TIMEOUT"} -> {StopTimer(w, i, "STOPPING_TIMER_ERROR")}
    [] OTHER -> {nn_fsm_bad(w, e)}

\* The peer speaks the same protocol or it does not.
nn_streamhdr_receiving(w, i, e) ==
  CASE e.from = U(i) /\ e.type = "RECEIVED" ->
         {StopTimer([w EXCEPT !.agreed[i] = TRUE], i, "STOPPING_TIMER_DONE"), StopTimer(w, i, "STOPPING_TIMER_ERROR")}
    [] e.from = U(i) /\ e.type = "SHUTDOWN" -> {w}
    [] e.type \in {"ERROR", "TIMEOUT"} -> {StopTimer(w, i, "STOPPING_TIMER_ERROR")}
    [] OTHER -> {nn_fsm_bad(w, e)}

\* The usock goes back to the session.
GiveBack(w, i, result) ==
  Done(nn_usock_swap_owner([w EXCEPT !.held = @ \ {H(i)}], U(i), S(i)), H(i), result)

nn_streamhdr_stopping_timer_error(w, i, e) ==
  CASE e.from = U(i) -> {w}
    [] e.from = T(i) /\ e.type = "STOPPED" -> {GiveBack(w, i, "ERROR")}
    [] OTHER -> {nn_fsm_bad(w, e)}

\* Unlike the state above, this one has no case for the usock.
nn_streamhdr_stopping_timer_done(w, i, e) ==
  IF e.from = T(i) /\ e.type = "STOPPED" THEN {GiveBack(w, i, "OK")} ELSE {nn_fsm_bad(w, e)}

nn_streamhdr_handler(w, i, e) ==
  CASE H(i) \in w.stop -> {nn_streamhdr_shutdown(w, i)}
    [] w.st[H(i)] = "SENDING" -> nn_streamhdr_sending(w, i, e)
    [] w.st[H(i)] = "RECEIVING" -> nn_streamhdr_receiving(w, i, e)
    [] w.st[H(i)] = "STOPPING_TIMER_ERROR" -> nn_streamhdr_stopping_timer_error(w, i, e)
    [] w.st[H(i)] = "STOPPING_TIMER_DONE" -> nn_streamhdr_stopping_timer_done(w, i, e)
    [] OTHER -> {nn_fsm_bad(w, e)}
=============================================================================
