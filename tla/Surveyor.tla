------------------------------ MODULE Surveyor ------------------------------
(***************************************************************************)
(* The SURVEYOR socket (protocols/survey/surveyor.c over xsurveyor.c): a   *)
(* survey goes to all pipes that can take it, and its responses count      *)
(* until the deadline.  sk is [fq, dist, data] of the raw socket, [state,  *)
(* id, timer, timedout] of nn_surveyor, and the surveys each peer may      *)
(* still answer (asked), the response waiting in each pipe (inmsg), and    *)
(* the result of the last nn_recv since the last nn_send: the survey it    *)
(* answers or an error.                                                    *)
(***************************************************************************)
EXTENDS Priolist, Dist

CONSTANT MaxId   \* surveys the application makes

Ids == 1 .. MaxId
Odd == 0         \* a response without a proper id
EAGAIN == -1
ETIMEDOUT == -2
EFSM == -3
None == -4       \* nothing received yet
Results == Ids \cup {Odd, EAGAIN, ETIMEDOUT, EFSM, None}

TypeOK ==
  PipesTypeOK /\ sk \in
    [fq : PriolistType, dist : DistType, data : SUBSET Pipes,
     state : {"PASSIVE", "ACTIVE", "CANCELLING", "STOPPING_TIMER", "STOPPING", "IDLE"},
     id : {0} \cup Ids, timer : {"IDLE", "ACTIVE", "FIRED", "STOPPING"}, timedout : BOOLEAN,
     asked : [Pipes -> SUBSET Ids], inmsg : [Pipes -> {Odd} \cup Ids], got : Results]

\* nn_surveyor_init; the state machine starts at once.
Init ==
  /\ PipesInit
  /\ sk = [fq |-> nn_priolist_init, dist |-> nn_dist_init, data |-> {}, state |-> "PASSIVE",
           id |-> 0, timer |-> "IDLE", timedout |-> FALSE, asked |-> [p \in Pipes |-> {}],
           inmsg |-> [p \in Pipes |-> Odd], got |-> None]

-----------------------------------------------------------------------------
nn_xsurveyor_add(p) == sk' = [sk EXCEPT !.data = @ \cup {p}] /\ UNCHANGED bad

nn_xsurveyor_rm(p) ==
  /\ bad' = (p \notin sk.data)
  /\ sk' = [sk EXCEPT !.fq = nn_fq_rm(@, p), !.dist = nn_dist_rm(@, p), !.data = @ \ {p},
                      !.asked[p] = {}]

nn_xsurveyor_in(p) ==
  IF p \in sk.data /\ p \notin Ready(sk.fq)
  THEN sk' = [sk EXCEPT !.fq = nn_fq_in(@, p)] /\ UNCHANGED bad
  ELSE bad' = TRUE /\ UNCHANGED sk

nn_xsurveyor_out(p) ==
  IF p \in sk.data /\ p \notin Out(sk.dist)
  THEN sk' = [sk EXCEPT !.dist = nn_dist_out(@, p)] /\ UNCHANGED bad
  ELSE bad' = TRUE /\ UNCHANGED sk

\* The survey is copied to every pipe of the distributor; any connection may
\* turn out broken.
nn_xsurveyor_send(w) ==
  LET list == Copied(w.sk.dist, NoPipe)
      errors(broken) == LET s == SelectSeq(list, LAMBDA p : p \in broken)
                        IN  [i \in DOMAIN s |-> Event(s[i], "ERROR")]
  IN  {[w EXCEPT !.pipe = [p \in Pipes |-> IF p \in ToSet(list) THEN [@[p] EXCEPT !.out = "ASYNC"]
                                           ELSE @[p]],
                 !.sk.dist = nn_dist_send(@, NoPipe), !.evq = @ \o errors(broken),
                 !.sk.asked = [p \in Pipes |-> IF p \in ToSet(list) THEN @[p] \cup {w.sk.id}
                                               ELSE @[p]],
                 !.bad = @ \/ \E p \in ToSet(list) : w.pipe[p].out # "IDLE"] :
         broken \in SUBSET ToSet(list)}

-----------------------------------------------------------------------------
Goto(w, next) == {[w EXCEPT !.sk.state = next]}
Bad(w) == {[w EXCEPT !.bad = TRUE]}
StopTimer(w) == [w EXCEPT !.sk.timer = "STOPPING"]

\* nn_surveyor_resend, nn_timer_start, ACTIVE.
nn_surveyor_resend(w) ==
  {[v EXCEPT !.sk.timer = "ACTIVE", !.sk.state = "ACTIVE", !.bad = @ \/ w.sk.timer # "IDLE"] :
     v \in nn_xsurveyor_send(w)}

\* nn_surveyor_handler, state by state.
InPassive(w, type) == IF type = "START" THEN nn_surveyor_resend(w) ELSE Bad(w)

\* Fault: that the deadline has passed is not noted.
InActive_silent(w, type) ==
  CASE type = "CANCEL" -> Goto(StopTimer(w), "CANCELLING")
    [] type = "TIMEOUT" -> Goto(StopTimer(w), "STOPPING_TIMER")
    [] OTHER -> Bad(w)

InActive(w, type) ==
  CASE type = "CANCEL" -> Goto(StopTimer(w), "CANCELLING")
    [] type = "TIMEOUT" -> Goto([StopTimer(w) EXCEPT !.sk.timedout = TRUE], "STOPPING_TIMER")
    [] OTHER -> Bad(w)

InCancelling(w, type) ==
  CASE type = "CANCEL" -> {w} [] type = "STOPPED" -> nn_surveyor_resend(w) [] OTHER -> Bad(w)

InStoppingTimer(w, type) ==
  CASE type = "CANCEL" -> Goto(w, "CANCELLING") [] type = "STOPPED" -> Goto(w, "PASSIVE")
    [] OTHER -> Bad(w)

\* After nn_fsm_stop every event goes to nn_surveyor_shutdown instead.
nn_surveyor_shutdown(w) == IF w.sk.timer = "IDLE" THEN Goto(w, "IDLE") ELSE {w}

nn_surveyor_feed(w, type) ==
  CASE w.sk.state = "PASSIVE" -> InPassive(w, type)
    [] w.sk.state = "ACTIVE" -> InActive(w, type)
    [] w.sk.state = "CANCELLING" -> InCancelling(w, type)
    [] w.sk.state = "STOPPING_TIMER" -> InStoppingTimer(w, type)
    [] w.sk.state = "STOPPING" -> nn_surveyor_shutdown(w)

nn_surveyor_inprogress == sk.state \notin {"IDLE", "PASSIVE", "STOPPING"}
IsOpen == sk.state \notin {"IDLE", "STOPPING"}

nn_surveyor_send ==
  /\ Quiet /\ IsOpen /\ sk.id < MaxId
  /\ Becomes(nn_surveyor_feed([Now EXCEPT !.sk.id = @ + 1, !.sk.got = None],
                              IF nn_surveyor_inprogress THEN "CANCEL" ELSE "START"))

\* One response is taken; the next one of the same peer may be there already.
Taken(w, p) ==
  LET v == [w EXCEPT !.bad = @ \/ w.pipe[p].in # "IDLE"]
  IN  {[v EXCEPT !.pipe[p].in = "ASYNC", !.sk.fq = nn_fq_recv(@, TRUE)]}
      \cup {[v EXCEPT !.sk.fq = nn_fq_recv(@, FALSE), !.sk.inmsg[p] = id, !.sk.asked[p] = @ \ {id}] :
               id \in IF p \in AtOnce THEN w.sk.asked[p] ELSE {}}

\* Responses to earlier surveys are skipped.
RECURSIVE Responses(_)
Responses(w) ==
  LET p == nn_priolist_getpipe(w.sk.fq)
  IN  IF ~nn_fq_can_recv(w.sk.fq) THEN {[w EXCEPT !.sk.got = EAGAIN]}
      ELSE IF w.sk.inmsg[p] # w.sk.id THEN UNION {Responses(v) : v \in Taken(w, p)}
      ELSE {[v EXCEPT !.evq = q, !.sk.got = w.sk.id] : v \in Taken(w, p), q \in MayBreak(w.evq, p)}

nn_surveyor_recv ==
  /\ Quiet /\ IsOpen
  /\ Becomes(IF nn_surveyor_inprogress THEN Responses(Now)
             ELSE {[Now EXCEPT !.sk.got = IF sk.timedout THEN ETIMEDOUT ELSE EFSM,
                               !.sk.timedout = FALSE]})

\* nn_close, when the endpoints are gone: nn_surveyor_stop.
Close ==
  /\ Quiet /\ IsOpen /\ \A p \in Pipes : pipe[p].state = "IDLE"
  /\ Becomes(nn_surveyor_shutdown([Now EXCEPT
       !.sk.timer = IF @ = "IDLE" THEN @ ELSE "STOPPING", !.sk.state = "STOPPING"]))

Timeout ==
  /\ Quiet /\ sk.timer = "ACTIVE"
  /\ Becomes(nn_surveyor_feed([Now EXCEPT !.sk.timer = "FIRED"], "TIMEOUT"))

Stopped ==
  /\ Quiet /\ sk.timer = "STOPPING"
  /\ Becomes(nn_surveyor_feed([Now EXCEPT !.sk.timer = "IDLE"], "STOPPED"))

\* A peer responds to a survey it got, at any later time.
Respond(p) ==
  /\ nn_pipebase_received(p) /\ UNCHANGED bad
  /\ \E id \in sk.asked[p] \cup {Odd} : sk' = [sk EXCEPT !.inmsg[p] = id, !.asked[p] = @ \ {id}]

Transport(p) ==
  \/ IsOpen /\ nn_pipebase_start(p, FALSE) /\ nn_xsurveyor_add(p)
  \/ nn_pipebase_sent(p) /\ UNCHANGED <<sk, bad>>
  \/ Respond(p)
  \/ nn_pipebase_stop(p, "ACTIVE") /\ nn_xsurveyor_rm(p)
  \/ nn_sock_handler(p, "IN") /\ nn_xsurveyor_in(p)
  \/ nn_sock_handler(p, "OUT") /\ nn_xsurveyor_out(p)

\* The worker takes the next event of the queue.
Process == evq # <<>> /\ \E p \in Pipes : Transport(p)

Next ==
  \/ \E p \in Pipes : Transport(p)
  \/ nn_surveyor_send \/ nn_surveyor_recv \/ Close \/ Timeout \/ Stopped
-----------------------------------------------------------------------------
OffersTrue ==
  /\ Ready(sk.fq) = {p \in Pipes : pipe[p].state = "ACTIVE" /\ Receivable(p)}
  /\ DistTrue(sk.dist)

\* What was received since the last survey answers it, and once its end was told
\* the survey is over: no second ETIMEDOUT and no response is to come.
ToldOnce ==
  /\ sk.got \in Ids \cup {Odd} => sk.got = sk.id
  /\ sk.got \in {ETIMEDOUT, EFSM} => ~nn_surveyor_inprogress /\ ~sk.timedout

\* The survey with this id goes on; its end was told, or the application has
\* made another one or closed the socket.
Waits(id) == sk.id = id /\ nn_surveyor_inprogress
Over(id) == sk.id # id \/ ~IsOpen \/ sk.got = ETIMEDOUT
=============================================================================
