--------------------------------- MODULE Ws ---------------------------------
(***************************************************************************)
(* The WebSocket transport: the opening handshake ws_handshake, the        *)
(* session sws, the accepted connection aws, the bound endpoint bws and    *)
(* the connecting endpoint cws.  A bound endpoint is the server.           *)
(*                                                                         *)
(* A frame is a header and a payload.  Of the header the model keeps the   *)
(* kind of opcode (PING stands for PING and PONG), whether the frame is    *)
(* final, and whether the length is zero, fits into the first two bytes,   *)
(* or needs an extended header.                                            *)
(***************************************************************************)
EXTENDS Aio

Frames == [op : {"TEXT", "BINARY", "FRAGMENT", "PING", "CLOSE"}, fin : BOOLEAN, len : {"none", "some", "ext"}]

Server(w) == w.role = "bind"

\* ws_handshake.c.  What the two sides look at in each other's opening: does it
\* have its end, are its lines well formed, are the headers there that the RFC
\* requires, do they have the values it requires, and which protocol is named.
Openings == [complete : BOOLEAN, wellformed : BOOLEAN, required : BOOLEAN, values : BOOLEAN,
             protocol : {"none", "peer", "other", "unknown"}, pair : BOOLEAN]

Responses == [complete : BOOLEAN, wellformed : BOOLEAN, required : BOOLEAN, values : BOOLEAN]

\* Without a protocol the client is taken for a PAIR; pair: so is our socket.
nn_ws_handshake_parse_client_opening(o) ==
  CASE ~o.complete \/ ~o.wellformed -> "RECV_MORE"
    [] o.complete /\ o.wellformed /\ ~(o.required /\ o.values) -> "INVALID"
    [] OTHER -> IF o.protocol = "peer" \/ (o.protocol = "none" /\ o.pair) THEN "VALID" ELSE "INVALID"

nn_ws_handshake_parse_server_response(r) ==
  CASE ~r.complete \/ ~r.wellformed -> "RECV_MORE"
    [] OTHER -> IF r.required /\ r.values THEN "VALID" ELSE "INVALID"

nn_ws_handshake_client_request(w, i) == nn_usock_send(w, U(i))

\* The client is answered whether or not it is a peer.
nn_ws_handshake_server_reply(w, i, valid) ==
  nn_usock_send([w EXCEPT !.st[H(i)] = "SERVER_REPLY", !.agreed[i] = valid], U(i))

\* Mutant: the handshake has no timer.
nn_ws_handshake_idle_untimed(w, i) ==
  IF Server(w) THEN nn_usock_recv(Set(w, H(i), "SERVER_RECV"), U(i))
  ELSE nn_ws_handshake_client_request(Set(w, H(i), "CLIENT_SEND"), i)

\* The server reads first, the client writes first.
nn_ws_handshake_idle(w, i) ==
  IF Server(w) THEN nn_usock_recv(Set(nn_timer_start(w, T(i)), H(i), "SERVER_RECV"), U(i))
  ELSE nn_ws_handshake_client_request(Set(nn_timer_start(w, T(i)), H(i), "CLIENT_SEND"), i)

nn_ws_handshake_start(w, i) ==
  IF H(i) \in w.held THEN {Bad(w, <<"assert", "nn_ws_handshake_start">>)}
  ELSE nn_ws_handshake_idle(
         nn_usock_swap_owner([w EXCEPT !.held = @ \cup {H(i)}, !.agreed[i] = FALSE], U(i), H(i)), i)

nn_ws_handshake_shutdown(w, i) ==
  IF nn_timer_isidle(w, T(i)) THEN nn_fsm_stopped(w, H(i)) ELSE w

nn_ws_handshake_stop(w, i) ==
  IF ~Stoppable(w, H(i)) THEN w
  ELSE nn_ws_handshake_shutdown(Set(nn_timer_stop(Stopping(w, H(i)), T(i)), H(i), "STOPPING"), i)

WsStopTimer(w, i, state) == Set(nn_timer_stop(w, T(i)), H(i), state)

\* An opening that is complete but malformed fails the assertion that the end
\* has not been seen.  An incomplete one is read on; when the rest would not fit
\* the buffer it is refused, and when it has filled the buffer to the last byte
\* the assertion on recv_pos fails.
nn_ws_handshake_client_opening(w, i, o) ==
  LET verdict == nn_ws_handshake_parse_client_opening(o) IN
  CASE verdict # "RECV_MORE" -> nn_ws_handshake_server_reply(w, i, verdict = "VALID")
    [] verdict = "RECV_MORE" /\ o.complete -> {Bad(w, <<"assert", "termseq">>)}
    [] OTHER -> nn_usock_recv(w, U(i)) \cup nn_ws_handshake_server_reply(w, i, FALSE)
                   \cup {Bad(w, <<"assert", "recv_pos">>)}

nn_ws_handshake_server_recv(w, i, e) ==
  CASE e.from = U(i) /\ e.type = "RECEIVED" -> UNION {nn_ws_handshake_client_opening(w, i, o) : o \in Openings}
    [] e.from = U(i) /\ e.type = "SHUTDOWN" -> {w}
    [] e.type \in {"ERROR", "TIMEOUT"} -> {WsStopTimer(w, i, "STOPPING_TIMER_ERROR")}
    [] OTHER -> {nn_fsm_bad(w, e)}

nn_ws_handshake_in_server_reply(w, i, e) ==
  CASE e.from = U(i) /\ e.type = "SENT" -> {WsStopTimer(w, i, "STOPPING_TIMER_DONE")}
    [] e.from = U(i) /\ e.type = "SHUTDOWN" -> {w}
    [] e.type \in {"ERROR", "TIMEOUT"} -> {WsStopTimer(w, i, "STOPPING_TIMER_ERROR")}
    [] OTHER -> {nn_fsm_bad(w, e)}

nn_ws_handshake_client_send(w, i, e) ==
  CASE e.from = U(i) /\ e.type = "SENT" -> nn_usock_recv(Set(w, H(i), "CLIENT_RECV"), U(i))
    [] e.from = U(i) /\ e.type = "SHUTDOWN" -> {w}
    [] e.type \in {"ERROR", "TIMEOUT"} -> {WsStopTimer(w, i, "STOPPING_TIMER_ERROR")}
    [] OTHER -> {nn_fsm_bad(w, e)}

nn_ws_handshake_response(w, i, r) ==
  LET verdict == nn_ws_handshake_parse_server_response(r) IN
  CASE verdict = "VALID" -> {WsStopTimer([w EXCEPT !.agreed[i] = TRUE], i, "STOPPING_TIMER_DONE")}
    [] verdict = "INVALID" -> {WsStopTimer(w, i, "STOPPING_TIMER_ERROR")}
    [] verdict = "RECV_MORE" /\ r.complete -> {Bad(w, <<"assert", "termseq">>)}
    [] OTHER -> nn_usock_recv(w, U(i)) \cup {WsStopTimer(w, i, "STOPPING_TIMER_ERROR")}
                   \cup {Bad(w, <<"assert", "recv_pos">>)}

nn_ws_handshake_client_recv(w, i, e) ==
  CASE e.from = U(i) /\ e.type = "RECEIVED" -> UNION {nn_ws_handshake_response(w, i, r) : r \in Responses}
    [] e.from = U(i) /\ e.type = "SHUTDOWN" -> {w}
    [] e.type \in {"ERROR", "TIMEOUT"} -> {WsStopTimer(w, i, "STOPPING_TIMER_ERROR")}
    [] OTHER -> {nn_fsm_bad(w, e)}

nn_ws_handshake_leave(w, i, result) ==
  Done(nn_usock_swap_owner([w EXCEPT !.held = @ \ {H(i)}], U(i), S(i)), H(i), result)

nn_ws_handshake_stopping_timer_error(w, i, e) ==
  CASE e.from = U(i) -> {w}
    [] e.from = T(i) /\ e.type = "STOPPED" -> {nn_ws_handshake_leave(w, i, "ERROR")}
    [] OTHER -> {nn_fsm_bad(w, e)}

\* An error of the usock is ignored here too, and not noticed later.
nn_ws_handshake_stopping_timer_done(w, i, e) ==
  CASE e.from = U(i) -> {w}
    [] e.from = T(i) /\ e.type = "STOPPED" -> {nn_ws_handshake_leave(w, i, "OK")}
    [] OTHER -> {nn_fsm_bad(w, e)}

nn_ws_handshake_handler(w, i, e) ==
  CASE H(i) \in w.stop -> {nn_ws_handshake_shutdown(w, i)}
    [] w.st[H(i)] = "SERVER_RECV" -> nn_ws_handshake_server_recv(w, i, e)
    [] w.st[H(i)] = "SERVER_REPLY" -> nn_ws_handshake_in_server_reply(w, i, e)
    [] w.st[H(i)] = "CLIENT_SEND" -> nn_ws_handshake_client_send(w, i, e)
    [] w.st[H(i)] = "CLIENT_RECV" -> nn_ws_handshake_client_recv(w, i, e)
    [] w.st[H(i)] = "STOPPING_TIMER_ERROR" -> nn_ws_handshake_stopping_timer_error(w, i, e)
    [] w.st[H(i)] = "STOPPING_TIMER_DONE" -> nn_ws_handshake_stopping_timer_done(w, i, e)
    [] OTHER -> {nn_fsm_bad(w, e)}
-----------------------------------------------------------------------------
\* sws.c.  w.cont[i] is continuing and inmsg_hdr: the opcode of the fragmented
\* message it is in the middle of; w.frags[i]: inmsg_array holds chunks of a
\* message; w.split[i]: utf8_code_pt_fragment has the start of a code point.
nn_sws_idle(w, i) == nn_ws_handshake_start(Set(w, S(i), "HANDSHAKE"), i)

nn_sws_start(w, i) ==
  IF S(i) \in w.held THEN {Bad(w, <<"assert", "nn_sws_start">>)}
  ELSE nn_sws_idle(nn_usock_swap_owner([w EXCEPT !.held = @ \cup {S(i)}], U(i), S(i)), i)

nn_sws_shutdown(w, i) ==
  IF ~nn_fsm_isidle(w, H(i)) THEN w
  ELSE nn_fsm_stopped(nn_usock_swap_owner([w EXCEPT !.held = @ \ {S(i)}], U(i), Parent(w, U(i))), S(i))

nn_sws_stop(w, i) ==
  IF ~Stoppable(w, S(i)) THEN w
  ELSE nn_sws_shutdown(nn_ws_handshake_stop(Set(nn_pipebase_stop(Stopping(w, S(i)), i), S(i), "STOPPING"), i), i)

nn_sws_recv_hdr(w, i) ==
  IF w.cont[i] = "NONE" /\ w.frags[i] THEN {Bad(w, <<"assert", "inmsg_array">>)}
  ELSE nn_usock_recv([w EXCEPT !.ins[i] = "RECV_HDR", !.frame[i] = NoFrame], U(i))

\* The application may send the closing handshake itself, which removes the
\* pipe from the socket that is sending to it.
nn_sws_send(w, i) ==
  IF w.st[S(i)] # "ACTIVE" \/ w.outs[i] # "IDLE" THEN {Bad(w, <<"assert", "nn_sws_send">>)}
  ELSE LET X == nn_usock_send([w EXCEPT !.outs[i] = "SENDING"], U(i)) IN
       X \cup {Set(nn_pipebase_stop(x, i), S(i), "CLOSING_CONNECTION") : x \in X}

\* Mutant: after a control message nothing more is read.
nn_sws_recv_stops(w, i) ==
  IF w.ins[i] = "RECVD_CHUNKED" THEN nn_sws_recv_hdr([w EXCEPT !.frags[i] = FALSE, !.cont[i] = "NONE"], i) ELSE {w}

nn_sws_recv(w, i) ==
  CASE w.st[S(i)] # "ACTIVE" \/ ~w.frame[i].fin -> {Bad(w, <<"assert", "nn_sws_recv">>)}
    [] w.ins[i] = "RECVD_CHUNKED" -> nn_sws_recv_hdr([w EXCEPT !.frags[i] = FALSE, !.cont[i] = "NONE"], i)
    [] w.ins[i] = "RECVD_CONTROL" -> IF w.frame[i].op = "CLOSE" THEN {[w EXCEPT !.ins[i] = "CLOSED"]}
                                     ELSE nn_sws_recv_hdr(w, i)
    [] OTHER -> {Bad(w, <<"assert", "nn_sws_recv">>)}

\* The peer broke the protocol: tell it, if the connection is free, and leave.
nn_sws_fail_conn(w, i) ==
  LET x == nn_pipebase_stop([w EXCEPT !.frags[i] = FALSE, !.ins[i] = "CLOSED"], i) IN
  IF w.outs[i] = "IDLE"
  THEN nn_usock_send([x EXCEPT !.outs[i] = "SENDING", !.st[S(i)] = "CLOSING_CONNECTION"], U(i))
  ELSE {Done(x, S(i), "CLOSE_HANDSHAKE")}

nn_sws_handshake(w, i, e) ==
  CASE e.from = H(i) /\ e.type = "OK" -> {nn_ws_handshake_stop(Set(w, S(i), "STOPPING_HANDSHAKE"), i)}
    [] e.from = H(i) /\ e.type = "ERROR" -> {Done(w, S(i), "CLOSE_HANDSHAKE")}
    [] OTHER -> {nn_fsm_bad(w, e)}

nn_sws_stopping_handshake(w, i, e) ==
  IF e.from = H(i) /\ e.type = "STOPPED"
  THEN UNION {IF x.pipe[i].st # "ACTIVE" THEN {Done(x, S(i), "ERROR")}
              ELSE nn_sws_recv_hdr([x EXCEPT !.outs[i] = "IDLE", !.st[S(i)] = "ACTIVE"], i)
              : x \in nn_pipebase_start(w, i)}
  ELSE {nn_fsm_bad(w, e)}

Data(f) == f.op \in {"TEXT", "BINARY", "FRAGMENT"}

\* The message is complete; its length does not matter any more, nor whether it
\* is a text.
Deliver(w, i) ==
  {nn_pipebase_received([w EXCEPT !.frame[i].len = "none",
                           !.frame[i].op = IF Data(w.frame[i]) THEN "BINARY" ELSE @,
                           !.ins[i] = IF Data(w.frame[i]) THEN "RECVD_CHUNKED" ELSE "RECVD_CONTROL"], i)}

RecvPayload(w, i) ==
  nn_usock_recv([w EXCEPT !.ins[i] = "RECV_PAYLOAD", !.frame[i].len = "some",
                          !.frags[i] = @ \/ Data(w.frame[i])], U(i))

\* The server always has the mask to read; the length is looked at after it.
RestOfFrame(w, i) ==
  IF Server(w) \/ w.frame[i].len = "ext"
  THEN nn_usock_recv([w EXCEPT !.ins[i] = "RECV_HDREXT",
                               !.frame[i].len = IF Data(w.frame[i]) THEN "ext" ELSE @], U(i))
  ELSE RecvPayload(w, i)

TwoBytes(w, f) == ~Server(w) /\ f.len = "none"

NextChunk(w, i) == IF w.frame[i].fin THEN Deliver(w, i) ELSE nn_sws_recv_hdr(w, i)

\* A fragment continues a message and only a fragment does; it is treated like
\* the first frame of its message.
nn_sws_data_frame(w, i, f) ==
  LET op == IF f.op = "FRAGMENT" THEN w.cont[i] ELSE f.op
      x == [w EXCEPT !.frame[i] = [f EXCEPT !.op = op], !.cont[i] = IF f.fin THEN "NONE" ELSE op]
      expected == (f.op = "FRAGMENT") = (w.cont[i] # "NONE") IN
  CASE ~expected -> nn_sws_fail_conn(w, i)
    [] expected /\ ~TwoBytes(w, f) -> RestOfFrame(x, i)
    [] OTHER -> NextChunk(x, i)

\* Control frames are short and come in one piece, also amid a message.
nn_sws_control_frame(w, i, f) ==
  LET x == [w EXCEPT !.frame[i] = f] IN
  CASE ~f.fin \/ f.len = "ext" -> nn_sws_fail_conn(w, i)
    [] f.fin /\ f.len # "ext" /\ ~TwoBytes(w, f) -> RestOfFrame(x, i)
    [] OTHER -> Deliver(x, i)

\* Reserved bits, a wrong mask bit, an unknown opcode or a close code of one
\* byte fail the connection too.
nn_sws_in_recv_hdr(w, i) ==
  nn_sws_fail_conn(w, i) \cup
  UNION {IF Data(f) THEN nn_sws_data_frame(w, i, f) ELSE nn_sws_control_frame(w, i, f) : f \in Frames}

CloseByPeer(w, i) == {Set(nn_pipebase_stop(w, i), S(i), "CLOSING_CONNECTION")}

nn_sws_in_recv_hdrext(w, i) ==
  LET f == w.frame[i] IN
  (IF f.len = "none" THEN {} ELSE RecvPayload(w, i)) \cup
  (CASE f.len = "some" -> {}
     [] f.len # "some" /\ ~f.fin -> nn_sws_recv_hdr(w, i)
     [] f.len # "some" /\ f.fin /\ f.op = "CLOSE" -> CloseByPeer(w, i)
     [] OTHER -> Deliver(w, i))

\* A text must be UTF-8.  A chunk is invalid, or well-formed, or ends amid a code
\* point, which the last chunk must not.  A code point begun in an earlier chunk
\* is completed first: when that makes four bytes, an assertion fails; when it
\* turns out invalid, the bytes of it stay.
nn_sws_validate_utf8_chunk(w, i) ==
  LET whole == [w EXCEPT !.split[i] = FALSE]
      cut == [w EXCEPT !.split[i] = TRUE] IN
  nn_sws_fail_conn(whole, i) \cup NextChunk(whole, i)
    \cup (IF w.frame[i].fin THEN nn_sws_fail_conn(cut, i) ELSE nn_sws_recv_hdr(cut, i))
    \cup (IF w.split[i] THEN nn_sws_fail_conn(cut, i) \cup {Bad(w, <<"assert", "utf8_code_pt_fragment">>)} ELSE {})

nn_sws_in_recv_payload(w, i) ==
  CASE w.frame[i].op = "TEXT" -> nn_sws_validate_utf8_chunk(w, i)
    [] w.frame[i].op = "BINARY" -> NextChunk(w, i)
    [] w.frame[i].op = "PING" -> Deliver(w, i)
    [] w.frame[i].op = "CLOSE" -> CloseByPeer(w, i)

nn_sws_active(w, i, e) ==
  CASE e.type = "SENT" -> IF w.outs[i] = "SENDING" THEN {nn_pipebase_sent([w EXCEPT !.outs[i] = "IDLE"], i)}
                          ELSE {Bad(w, <<"assert", "nn_sws_sent">>)}
    [] e.type = "RECEIVED" /\ w.ins[i] = "RECV_HDR" -> nn_sws_in_recv_hdr(w, i)
    [] e.type = "RECEIVED" /\ w.ins[i] = "RECV_HDREXT" -> nn_sws_in_recv_hdrext(w, i)
    [] e.type = "RECEIVED" /\ w.ins[i] = "RECV_PAYLOAD" -> nn_sws_in_recv_payload(w, i)
    [] e.type = "SHUTDOWN" -> {Set(nn_pipebase_stop(w, i), S(i), "BROKEN_CONNECTION")}
    [] e.type = "ERROR" -> {Done(nn_pipebase_stop(w, i), S(i), "ERROR")}
    [] OTHER -> {nn_fsm_bad(w, e)}

nn_sws_closing_connection(w, i, e) ==
  CASE e.type = "SENT" -> IF w.outs[i] = "SENDING" THEN {Done([w EXCEPT !.outs[i] = "IDLE"], S(i), "CLOSE_HANDSHAKE")}
                          ELSE {Bad(w, <<"assert", "nn_sws_sent">>)}
    [] e.type = "SHUTDOWN" -> {w}
    [] e.type = "ERROR" -> {Done(w, S(i), "ERROR")}
    [] OTHER -> {nn_fsm_bad(w, e)}

nn_sws_broken_connection(w, i, e) ==
  IF e.type = "ERROR" THEN {Done(w, S(i), "ERROR")} ELSE {nn_fsm_bad(w, e)}

nn_sws_handler(w, i, e) ==
  CASE S(i) \in w.stop -> {nn_sws_shutdown(w, i)}
    [] w.st[S(i)] = "HANDSHAKE" -> nn_sws_handshake(w, i, e)
    [] w.st[S(i)] = "STOPPING_HANDSHAKE" -> nn_sws_stopping_handshake(w, i, e)
    [] w.st[S(i)] = "ACTIVE" /\ e.from = U(i) -> nn_sws_active(w, i, e)
    [] w.st[S(i)] = "CLOSING_CONNECTION" /\ e.from = U(i) -> nn_sws_closing_connection(w, i, e)
    [] w.st[S(i)] = "BROKEN_CONNECTION" /\ e.from = U(i) -> nn_sws_broken_connection(w, i, e)
    [] OTHER -> {nn_fsm_bad(w, e)}
-----------------------------------------------------------------------------
\* aws.c: an accepted connection.  A(i) is in w.held while it has the listener.
nn_aws_idle(w, i) == nn_usock_accept(Set(w, A(i), "ACCEPTING"), i)

nn_aws_start(w, i) ==
  IF A(i) \in w.held \/ ~nn_fsm_isidle(w, A(i)) THEN {Bad(w, <<"assert", "nn_aws_start">>)}
  ELSE nn_aws_idle(nn_usock_swap_owner([w EXCEPT !.held = @ \cup {A(i)}], L, A(i)), i)

\* The usock is stopped when the session is idle, the listener returned when
\* the usock is.
nn_aws_shutdown(w, i) ==
  LET x == IF w.st[A(i)] = "STOPPING_SWS_FINAL" /\ nn_fsm_isidle(w, S(i))
           THEN nn_usock_stop(Set(w, A(i), "STOPPING"), U(i)) ELSE w
  IN IF x.st[A(i)] # "STOPPING" \/ ~nn_usock_isidle(x, U(i)) THEN x
     ELSE nn_fsm_stopped(Forget(IF A(i) \in x.held THEN nn_usock_swap_owner([x EXCEPT !.held = @ \ {A(i)}], L, E)
                                ELSE x, i), A(i))

nn_aws_stop(w, i) ==
  IF ~Stoppable(w, A(i)) THEN w
  ELSE nn_aws_shutdown(Set(nn_sws_stop(Stopping(w, A(i)), i), A(i), "STOPPING_SWS_FINAL"), i)

\* A connection: the listener goes back to the endpoint and the session starts.
nn_aws_accepting(w, i, e) ==
  CASE e.from = U(i) /\ e.type = "ACCEPTED" ->
         nn_sws_start(nn_usock_activate(nn_fsm_raise(nn_usock_swap_owner(
             [w EXCEPT !.held = @ \ {A(i)}, !.st[A(i)] = "ACTIVE"], L, E), A(i), "ACCEPTED"), U(i)), i)
    [] e.from = L /\ e.type = "ACCEPT_ERROR" -> nn_usock_accept(w, i)
    [] OTHER -> {nn_fsm_bad(w, e)}

nn_aws_active(w, i, e) ==
  IF e.from = S(i) /\ e.type \in {"ERROR", "CLOSE_HANDSHAKE"} THEN {nn_sws_stop(Set(w, A(i), "STOPPING_SWS"), i)}
  ELSE {nn_fsm_bad(w, e)}

nn_aws_stopping_sws(w, i, e) ==
  CASE e.from = S(i) /\ e.type = "STOPPED" -> {nn_usock_stop(Set(w, A(i), "STOPPING_USOCK"), U(i))}
    [] e.from = S(i) /\ e.type = "SHUTDOWN" -> {w}
    [] OTHER -> {nn_fsm_bad(w, e)}

\* It does not wait for the endpoint to stop it.
nn_aws_stopping_usock(w, i, e) ==
  CASE e.from = U(i) /\ e.type = "STOPPED" -> {nn_aws_stop(w, i)}
    [] e.from = U(i) /\ e.type = "SHUTDOWN" -> {w}
    [] OTHER -> {nn_fsm_bad(w, e)}

nn_aws_handler(w, i, e) ==
  CASE A(i) \in w.stop -> {nn_aws_shutdown(w, i)}
    [] w.st[A(i)] = "ACCEPTING" -> nn_aws_accepting(w, i, e)
    [] w.st[A(i)] = "ACTIVE" -> nn_aws_active(w, i, e)
    [] w.st[A(i)] = "STOPPING_SWS" -> nn_aws_stopping_sws(w, i, e)
    [] w.st[A(i)] = "STOPPING_USOCK" -> nn_aws_stopping_usock(w, i, e)
    [] OTHER -> {nn_fsm_bad(w, e)}
-----------------------------------------------------------------------------
\* bws.c: the bound endpoint, which does not retry.
nn_bws_start_accepting(w) ==
  IF w.acc # NoSlot THEN {Bad(w, <<"assert", "nn_bws_start_accepting">>)}
  ELSE UNION {nn_aws_start([w EXCEPT !.acc = i], i) : i \in {CHOOSE j \in FreeSlots(w) : TRUE}}

\* socket(), bind() or listen() fails: abort.
nn_bws_start_listening(w) ==
  {Bad(w, <<"assert", "nn_bws_start_listening">>), Set(nn_usock_start(w, L), L, "LISTENING")}

nn_bws_create(w) ==
  {[w EXCEPT !.ep = "REFUSED"]} \cup
  UNION {IF x.bad = <<>> THEN nn_bws_start_accepting(Set(x, E, "ACTIVE")) ELSE {x}
         : x \in nn_bws_start_listening([w EXCEPT !.ep = "OPEN"])}

nn_bws_shutdown(w, e) ==
  LET x == IF w.st[E] = "STOPPING_AWS" /\ nn_fsm_isidle(w, A(w.acc))
           THEN nn_usock_stop(Set(Term(w, w.acc), E, "STOPPING_USOCK"), L) ELSE w
  IN CASE x.st[E] = "STOPPING_USOCK" /\ nn_usock_isidle(x, L) ->
            LET y == FoldLeft(nn_aws_stop, Set(x, E, "STOPPING_AWSS"), SetToSeq(x.list))
            IN IF x.list = {} THEN Stopped(y) ELSE y
       [] x.st[E] = "STOPPING_AWSS" ->
            IF e.from[1] # "a" \/ e.type # "STOPPED" THEN nn_fsm_bad(x, e)
            ELSE LET y == Term(x, e.from[2]) IN IF y.list = {} THEN Stopped(y) ELSE y
       [] OTHER -> x

nn_bws_stop(w) ==
  nn_bws_shutdown(Set(nn_aws_stop(Stopping(w, E), w.acc), E, "STOPPING_AWS"),
                  [to |-> E, from |-> E, type |-> "STOP"])

nn_bws_active(w, e) ==
  LET i == e.from[2] IN
  CASE e.from = A(w.acc) -> IF e.type # "ACCEPTED" THEN {nn_fsm_bad(w, e)}
                            ELSE nn_bws_start_accepting([w EXCEPT !.list = @ \cup {i}, !.acc = NoSlot])
    [] e.from[1] = "a" /\ e.type = "ERROR" -> {nn_aws_stop(w, i)}
    [] e.from[1] = "a" /\ e.type = "STOPPED" -> {Term(w, i)}
    [] OTHER -> {nn_fsm_bad(w, e)}

nn_bws_handler(w, e) ==
  CASE E \in w.stop -> {nn_bws_shutdown(w, e)}
    [] w.st[E] = "ACTIVE" -> nn_bws_active(w, e)
    [] OTHER -> {nn_fsm_bad(w, e)}
-----------------------------------------------------------------------------
\* cws.c: the connecting endpoint.
nn_cws_start_resolving(w) == nn_dns_start(Set(w, E, "RESOLVING"))

\* The local interface or socket() fails; bind() fails, and aborts; or the
\* connection is started.
nn_cws_start_connecting(w) ==
  {nn_backoff_start(Set(w, E, "WAITING")), Bad(w, <<"assert", "nn_usock_bind">>)}
    \cup nn_usock_connect([nn_usock_start(w, U(1)) EXCEPT !.st[E] = "CONNECTING", !.prog = @ + 1], U(1))

\* peer_gone is not initialised: it may have any value.
nn_cws_create(w) ==
  {[w EXCEPT !.ep = "REFUSED"]} \cup
  UNION {nn_cws_start_resolving([w EXCEPT !.ep = "OPEN", !.gone = garbage]) : garbage \in BOOLEAN}

nn_cws_shutdown(w) ==
  LET X == IF w.st[E] # "STOPPING_SWS_FINAL" \/ ~nn_fsm_isidle(w, S(1)) THEN {w}
           ELSE nn_dns_stop(nn_usock_stop(nn_backoff_stop(Set(w, E, "STOPPING")), U(1)))
  IN {IF /\ x.st[E] = "STOPPING" /\ nn_backoff_isidle(x)
         /\ nn_usock_isidle(x, U(1)) /\ nn_fsm_isidle(x, Dns)
      THEN Stopped(x) ELSE x : x \in X}

nn_cws_stop(w) == nn_cws_shutdown(Set(nn_sws_stop(Stopping(w, E), 1), E, "STOPPING_SWS_FINAL"))

nn_cws_resolving(w, e) ==
  IF e.from = Dns /\ e.type = "DONE" THEN nn_dns_stop(Set(w, E, "STOPPING_DNS")) ELSE {nn_fsm_bad(w, e)}

\* The name was resolved or not.
nn_cws_stopping_dns(w, e) ==
  IF e.from = Dns /\ e.type = "STOPPED"
  THEN nn_cws_start_connecting(w) \cup {nn_backoff_start(Set(w, E, "WAITING"))}
  ELSE {nn_fsm_bad(w, e)}

nn_cws_connecting(w, e) ==
  CASE e.from = U(1) /\ e.type = "CONNECTED" -> 
         nn_sws_start([w EXCEPT !.st[E] = "ACTIVE", !.prog = @ - 1, !.gone = FALSE], 1)
    [] e.from = U(1) /\ e.type = "ERROR" ->
         {nn_usock_stop([w EXCEPT !.st[E] = "STOPPING_USOCK", !.prog = @ - 1], U(1))}
    [] OTHER -> {nn_fsm_bad(w, e)}

nn_cws_active(w, e) ==
  IF e.from = S(1) /\ e.type \in {"ERROR", "CLOSE_HANDSHAKE"}
  THEN {nn_sws_stop([w EXCEPT !.st[E] = "STOPPING_SWS", !.gone = @ \/ e.type = "CLOSE_HANDSHAKE"], 1)}
  ELSE {nn_fsm_bad(w, e)}

nn_cws_stopping_sws(w, e) ==
  CASE e.from = S(1) /\ e.type = "STOPPED" -> {nn_usock_stop(Set(w, E, "STOPPING_USOCK"), U(1))}
    [] e.from = S(1) /\ e.type = "SHUTDOWN" -> {w}
    [] OTHER -> {nn_fsm_bad(w, e)}

\* A peer that said good-bye is not called again.
nn_cws_stopping_usock(w, e) ==
  CASE e.from = U(1) /\ e.type = "STOPPED" -> {IF w.gone THEN w ELSE nn_backoff_start(Set(w, E, "WAITING"))}
    [] e.from = U(1) /\ e.type = "SHUTDOWN" -> {w}
    [] OTHER -> {nn_fsm_bad(w, e)}

nn_cws_waiting(w, e) ==
  IF e.from = Retry /\ e.type = "TIMEOUT" THEN {nn_backoff_stop(Set(w, E, "STOPPING_BACKOFF"))}
  ELSE {nn_fsm_bad(w, e)}

nn_cws_stopping_backoff(w, e) ==
  IF e.from = Retry /\ e.type = "STOPPED" THEN nn_cws_start_resolving(w) ELSE {nn_fsm_bad(w, e)}

nn_cws_handler(w, e) ==
  CASE E \in w.stop -> nn_cws_shutdown(w)
    [] w.st[E] = "RESOLVING" -> nn_cws_resolving(w, e)
    [] w.st[E] = "STOPPING_DNS" -> nn_cws_stopping_dns(w, e)
    [] w.st[E] = "CONNECTING" -> nn_cws_connecting(w, e)
    [] w.st[E] = "ACTIVE" -> nn_cws_active(w, e)
    [] w.st[E] = "STOPPING_SWS" -> nn_cws_stopping_sws(w, e)
    [] w.st[E] = "STOPPING_USOCK" -> nn_cws_stopping_usock(w, e)
    [] w.st[E] = "WAITING" -> nn_cws_waiting(w, e)
    [] w.st[E] = "STOPPING_BACKOFF" -> nn_cws_stopping_backoff(w, e)
    [] OTHER -> {nn_fsm_bad(w, e)}
=============================================================================
