-------------------------------- MODULE Req ---------------------------------
(***************************************************************************)
(* The REQ socket (protocols/reqrep/req.c over xreq.c): one request at a   *)
(* time, re-sent when its resend timer fires or its pipe goes, cancelled   *)
(* by the next request.  The handlers take and return a whole state w =    *)
(* [pipe, evq, bad, sk].  sk is [lb, fq, data] of the raw socket, [state,  *)
(* id, reply, sent_to, timer] of nn_req, and of the network the requests   *)
(* each peer may still answer (asked), the message waiting in each pipe    *)
(* (inmsg), what the application got last, and the faults so far.          *)
(* Peers answer what they were asked, late or twice, or lose it.  nn_req   *)
(* takes a message out of its pipe the moment it arrives, so no second one *)
(* is ever waiting behind it.                                              *)
(***************************************************************************)
EXTENDS Priolist

CONSTANTS
  MaxId,      \* requests the application makes
  MaxFaults   \* requests lost or answered twice, connections broken, early timeouts

Ids == 1 .. MaxId
Odd == 0       \* a reply without a proper id
Short == -1    \* a reply too short to hold one
Reply(id, live) == [id |-> id, live |-> live]

ReqStates == {"PASSIVE", "DELAYED", "ACTIVE", "TIMED_OUT", "CANCELLING", "STOPPING_TIMER",
              "DONE", "STOPPING", "IDLE"}

TypeOK ==
  /\ PipesTypeOK
  /\ sk \in [lb : PriolistType, fq : PriolistType, data : SUBSET Pipes, state : ReqStates,
             id : {0} \cup Ids, reply : [id : {Short, Odd} \cup Ids, live : BOOLEAN],
             sent_to : Pipes \cup {NoPipe}, timer : {"IDLE", "ACTIVE", "FIRED", "STOPPING"},
             asked : [Pipes -> SUBSET Ids], inmsg : [Pipes -> {Short, Odd} \cup Ids],
             got : {Short, Odd} \cup Ids, faults : 0 .. MaxFaults]

\* nn_req_init; the state machine starts at once.
Init ==
  /\ PipesInit
  /\ sk = [lb |-> nn_priolist_init, fq |-> nn_priolist_init, data |-> {}, state |-> "PASSIVE",
           id |-> 0, reply |-> Reply(Odd, TRUE), sent_to |-> NoPipe, timer |-> "IDLE",
           asked |-> [p \in Pipes |-> {}], inmsg |-> [p \in Pipes |-> Odd], got |-> Odd,
           faults |-> 0]

-----------------------------------------------------------------------------
\* xreq.c

nn_xreq_add(w, p) == [w EXCEPT !.sk.data = @ \cup {p}]

nn_xreq_rm(w, p) ==
  [w EXCEPT !.sk.lb = nn_lb_rm(@, p), !.sk.fq = nn_fq_rm(@, p), !.sk.data = @ \ {p},
            !.bad = @ \/ p \notin w.sk.data]

nn_xreq_in(w, p) ==
  [w EXCEPT !.sk.fq = nn_fq_in(@, p), !.bad = @ \/ p \notin w.sk.data \/ p \in Ready(w.sk.fq)]

nn_xreq_out(w, p) ==
  [w EXCEPT !.sk.lb = nn_lb_out(@, p), !.bad = @ \/ p \notin w.sk.data \/ p \in Ready(w.sk.lb)]

\* The connection may turn out broken in the middle of a call.
OrBroken(w, p) ==
  {w} \cup IF w.sk.faults = MaxFaults THEN {}
           ELSE {[w EXCEPT !.sk.faults = @ + 1, !.evq = q] : q \in MayBreak(w.evq, p)}

\* The request goes to the pipe whose turn it is.
nn_xreq_send_to(w) ==
  LET p == nn_priolist_getpipe(w.sk.lb)
  IN  OrBroken([w EXCEPT !.pipe[p].out = "ASYNC", !.sk.lb = nn_lb_send(@, TRUE),
                         !.sk.asked[p] = @ \cup {w.sk.id}, !.sk.sent_to = p,
                         !.bad = @ \/ w.pipe[p].out # "IDLE"], p)

\* The message overwrites what is in task.reply.
nn_xreq_recv(w) ==
  LET p == nn_priolist_getpipe(w.sk.fq)
  IN  OrBroken([w EXCEPT !.pipe[p].in = "ASYNC", !.sk.fq = nn_fq_recv(@, TRUE),
                         !.sk.reply = Reply(w.sk.inmsg[p], w.sk.inmsg[p] # Short),
                         !.bad = @ \/ w.pipe[p].in # "IDLE"], p)

-----------------------------------------------------------------------------
nn_timer_stop(t) == IF t \in {"ACTIVE", "FIRED"} THEN "STOPPING" ELSE t

\* Fault: a request that cannot be sent is forgotten.
nn_req_action_send_drops(w, allow_delay) ==
  IF ~nn_lb_can_send(w.sk.lb) THEN {[w EXCEPT !.sk.state = "PASSIVE"]}
  ELSE {[v EXCEPT !.sk.timer = "ACTIVE", !.sk.state = "ACTIVE"] : v \in nn_xreq_send_to(w)}

nn_req_action_send(w, allow_delay) ==
  IF ~nn_lb_can_send(w.sk.lb)
  THEN {[w EXCEPT !.sk.state = "DELAYED", !.bad = @ \/ ~allow_delay]}
  ELSE {[v EXCEPT !.sk.timer = "ACTIVE", !.sk.state = "ACTIVE",
                  !.bad = @ \/ w.sk.timer # "IDLE"] : v \in nn_xreq_send_to(w)}

\* The request is over, or must be sent again: its timer is stopped first.
Leave(w, next) ==
  [w EXCEPT !.sk.timer = nn_timer_stop(@), !.sk.sent_to = NoPipe, !.sk.state = next]

Goto(w, next) == {[w EXCEPT !.sk.state = next]}
Bad(w) == {[w EXCEPT !.bad = TRUE]}

\* nn_req_handler, state by state.
InPassive(w, type) == IF type = "SENT" THEN nn_req_action_send(w, TRUE) ELSE Bad(w)

InDelayed(w, type) ==
  CASE type = "OUT" -> nn_req_action_send(w, FALSE) [] type = "SENT" -> {w} [] OTHER -> Bad(w)

InActive(w, type) ==
  CASE type = "IN" -> {Leave(w, "STOPPING_TIMER")}
    [] type = "SENT" -> {Leave(w, "CANCELLING")}
    [] type \in {"PIPE_RM", "TIMEOUT"} -> {Leave(w, "TIMED_OUT")}
    [] OTHER -> Bad(w)

InTimedOut(w, type) ==
  CASE type = "STOPPED" -> nn_req_action_send(w, TRUE)
    [] type = "SENT" -> Goto(w, "CANCELLING") [] OTHER -> Bad(w)

InCancelling(w, type) ==
  CASE type = "STOPPED" -> nn_req_action_send(w, TRUE) [] type = "SENT" -> {w} [] OTHER -> Bad(w)

InStoppingTimer(w, type) ==
  CASE type = "STOPPED" -> Goto(w, "DONE") [] type = "SENT" -> Goto(w, "CANCELLING")
    [] OTHER -> Bad(w)

InDone(w, type) ==
  CASE type = "RECEIVED" -> Goto(w, "PASSIVE") [] type = "SENT" -> nn_req_action_send(w, TRUE)
    [] OTHER -> Bad(w)

\* nn_req_destroy releases task.reply, also when nn_req_in has done so before;
\* a short message is part of the structure and takes no harm.
nn_req_term(w) == Goto(w, "IDLE") \cup IF w.sk.reply.live THEN {} ELSE Goto([w EXCEPT !.bad = TRUE], "IDLE")

\* After nn_fsm_stop every event goes to nn_req_shutdown instead.
nn_req_shutdown(w) == IF w.sk.timer = "IDLE" THEN nn_req_term(w) ELSE {w}

nn_req_feed(w, type) ==
  CASE w.sk.state = "PASSIVE"        -> InPassive(w, type)
    [] w.sk.state = "DELAYED"        -> InDelayed(w, type)
    [] w.sk.state = "ACTIVE"         -> InActive(w, type)
    [] w.sk.state = "TIMED_OUT"      -> InTimedOut(w, type)
    [] w.sk.state = "CANCELLING"     -> InCancelling(w, type)
    [] w.sk.state = "STOPPING_TIMER" -> InStoppingTimer(w, type)
    [] w.sk.state = "DONE"           -> InDone(w, type)
    [] w.sk.state = "STOPPING"       -> nn_req_shutdown(w)

nn_req_inprogress(s) == s.state \notin {"IDLE", "PASSIVE", "STOPPING"}

\* A message that is not the awaited reply is released, in task.reply.
Dropped(w) == [w EXCEPT !.sk.reply.live = FALSE]

RECURSIVE Replies(_)
Replies(w) ==
  IF ~nn_fq_can_recv(w.sk.fq) THEN {w}
  ELSE UNION {IF v.sk.reply.id = Short THEN {v}
              ELSE IF ~nn_req_inprogress(v.sk) \/ v.sk.reply.id # v.sk.id THEN Replies(Dropped(v))
              ELSE IF v.sk.state = "ACTIVE" THEN nn_req_feed(v, "IN") ELSE {v} :
                v \in nn_xreq_recv(w)}

nn_req_in(w, p) == Replies(nn_xreq_in(w, p))

nn_req_out(w, p) ==
  LET v == nn_xreq_out(w, p)
  IN  IF v.sk.state = "DELAYED" THEN nn_req_feed(v, "OUT") ELSE {v}

\* Fault: the request waits for its timer although its pipe is gone.
nn_req_rm_waits(w, p) == {nn_xreq_rm(w, p)}

nn_req_rm(w, p) ==
  LET v == nn_xreq_rm(w, p)
  IN  IF v.sk.sent_to = p THEN nn_req_feed(v, "PIPE_RM") ELSE {v}

-----------------------------------------------------------------------------
\* What the application, the timer, the connections and the peers do.
nn_req_csend ==
  /\ Quiet /\ sk.id < MaxId /\ sk.state \notin {"STOPPING", "IDLE"}
  /\ Becomes(nn_req_feed([Now EXCEPT !.sk.id = @ + 1], "SENT"))

nn_req_crecv ==
  /\ Quiet /\ sk.state = "DONE"
  /\ Becomes(nn_req_feed([Now EXCEPT !.sk.got = sk.reply.id, !.sk.reply = Reply(Odd, TRUE)],
                         "RECEIVED"))

\* nn_close, when the endpoints are gone: nn_req_stop.
Close ==
  /\ Quiet /\ sk.state \notin {"STOPPING", "IDLE"} /\ \A p \in Pipes : pipe[p].state = "IDLE"
  /\ Becomes(nn_req_shutdown([Now EXCEPT !.sk.timer = nn_timer_stop(@), !.sk.state = "STOPPING"]))

\* The resend interval is longer than an answer takes, but for a bounded
\* number of times.
Early == \E p \in Pipes : sk.id \in sk.asked[p]

Timeout ==
  /\ Quiet /\ sk.timer = "ACTIVE" /\ (Early => sk.faults < MaxFaults)
  /\ Becomes(nn_req_feed([Now EXCEPT !.sk.timer = "FIRED",
                                     !.sk.faults = IF Early THEN @ + 1 ELSE @], "TIMEOUT"))

Stopped ==
  /\ Quiet /\ sk.timer = "STOPPING"
  /\ Becomes(nn_req_feed([Now EXCEPT !.sk.timer = "IDLE"], "STOPPED"))

Connect(p) ==
  /\ Quiet /\ pipe[p].state = "IDLE" /\ sk.state \notin {"STOPPING", "IDLE"}
  /\ Becomes({[nn_xreq_add(Now, p) EXCEPT
                 !.pipe[p] = [state |-> "ACTIVE", in |-> "ASYNC", out |-> "IDLE"],
                 !.evq = nn_fsm_raise(@, p, "OUT")]})

Sent(p) == nn_pipebase_sent(p) /\ UNCHANGED <<sk, bad>>

\* A reply reaches the pipe.  Some requests are answered twice.
Answer(p) ==
  /\ nn_pipebase_received(p) /\ UNCHANGED bad
  /\ \E id \in sk.asked[p] : sk' = [sk EXCEPT !.inmsg[p] = id, !.asked[p] = @ \ {id}]

Duplicate(p) ==
  /\ sk.faults < MaxFaults
  /\ nn_pipebase_received(p) /\ UNCHANGED bad
  /\ \E id \in sk.asked[p] : sk' = [sk EXCEPT !.inmsg[p] = id, !.faults = @ + 1]

Garbage(p) ==
  /\ sk.faults < MaxFaults
  /\ nn_pipebase_received(p) /\ UNCHANGED bad
  /\ \E m \in {Odd, Short} : sk' = [sk EXCEPT !.inmsg[p] = m, !.faults = @ + 1]

Lose(p) ==
  /\ Quiet /\ sk.asked[p] # {} /\ sk.faults < MaxFaults
  /\ sk' = [sk EXCEPT !.asked[p] = {}, !.faults = @ + 1]
  /\ UNCHANGED <<pipe, evq, bad>>

Stops(w, p) == nn_req_rm([w EXCEPT !.pipe[p].state = "IDLE", !.sk.asked[p] = {}], p)

BreakPipe(p) ==
  /\ Quiet /\ pipe[p].state = "ACTIVE" /\ sk.faults < MaxFaults
  /\ Becomes(Stops([Now EXCEPT !.sk.faults = @ + 1], p))

Process ==
  LET e == Head(evq)
      w == [Now EXCEPT !.evq = Tail(evq)]
  IN  /\ evq # <<>> /\ ~bad
      /\ Becomes(CASE e.type = "IN" -> nn_req_in(w, e.pipe)
                   [] e.type = "OUT" -> nn_req_out(w, e.pipe)
                   [] e.type = "ERROR" -> Stops(w, e.pipe))

Faults(p) == Garbage(p) \/ Lose(p) \/ BreakPipe(p) \/ Duplicate(p)

Next ==
  \/ nn_req_csend \/ nn_req_crecv \/ Close \/ Timeout \/ Stopped \/ Process
  \/ \E p \in Pipes : Connect(p) \/ Sent(p) \/ Answer(p) \/ Faults(p)

-----------------------------------------------------------------------------
\* The raw socket's lists hold exactly the pipes that can take a request;
\* replies do not wait in the fair queue.
OffersTrue ==
  /\ Ready(sk.lb) = {p \in Pipes : pipe[p].state = "ACTIVE" /\ Sendable(p)}
  /\ Ready(sk.fq) = {}

\* A request is out exactly while its pipe is remembered; that pipe is up and
\* the resend timer runs, so one of reply, end of the pipe and timeout comes.
SentToLive ==
  /\ sk.sent_to # NoPipe <=> sk.state = "ACTIVE"
  /\ sk.sent_to # NoPipe => pipe[sk.sent_to].state = "ACTIVE" /\ sk.timer = "ACTIVE"

\* The socket was destroyed with a reply that had been dropped.
ReleasedTwice == sk.state = "IDLE" /\ ~sk.reply.live

\* What the application gets answers the request it made last.
RightReply == sk.state = "DONE" => sk.reply.id = sk.id /\ sk.reply.live

\* The request with this id still waits for its answer, and no longer waits.
Waits(id) == sk.id = id /\ nn_req_inprogress(sk)
Over(id) == sk.id # id \/ sk.state \in {"DONE", "STOPPING", "IDLE"}
=============================================================================
