------------------------------ MODULE MCSockets ------------------------------
(***************************************************************************)
(* One socket of any type, with connections that come, go, break in the    *)
(* middle of a call and fill up, and, for the types that ask and answer,   *)
(* peers that answer late, twice or never.  All types share the pipes, the *)
(* event queue and the socket's structure sk; the type is chosen once.     *)
(***************************************************************************)
EXTENDS Priolist

CONSTANTS Types, p1, p2, p3, Topics, MaxId, MaxFaults, MaxKey

VARIABLE type

vars == <<pipe, evq, bad, sk, type>>

MCPrio == [p \in Pipes |-> IF p = p3 THEN 2 ELSE 1]

Pair == INSTANCE Xpair
Push == INSTANCE Xpush
Pull == INSTANCE Xpull
Bus  == INSTANCE Xbus
Pub  == INSTANCE Xpub
Sub  == INSTANCE Xsub

\* Two pipes of one priority are enough for those that ask and answer.
Two == {p1, p2}
Alike == [p \in Two |-> 1]
Req == INSTANCE Req WITH Pipes <- Two, Slots <- 1, Prio <- Alike
Rep == INSTANCE Rep WITH Pipes <- Two, Slots <- 1, Prio <- Alike
Surv == INSTANCE Surveyor WITH Pipes <- Two, Slots <- 1, Prio <- Alike
Resp == INSTANCE Respondent WITH Pipes <- Two, Slots <- 1, Prio <- Alike

Init == type \in Types /\
  \/ type = "PAIR" /\ Pair!Init
  \/ type = "PUSH" /\ Push!Init
  \/ type = "PULL" /\ Pull!Init
  \/ type = "BUS" /\ Bus!Init
  \/ type = "PUB" /\ Pub!Init
  \/ type = "SUB" /\ Sub!Init
  \/ type = "REQ" /\ Req!Init
  \/ type = "REP" /\ Rep!Init
  \/ type = "SURVEYOR" /\ Surv!Init
  \/ type = "RESPONDENT" /\ Resp!Init

Next ==
  /\ UNCHANGED type
  /\ \/ type = "PAIR" /\ Pair!Next
     \/ type = "PUSH" /\ Push!Next
     \/ type = "PULL" /\ Pull!Next
     \/ type = "BUS" /\ Bus!Next
     \/ type = "PUB" /\ Pub!Next
     \/ type = "SUB" /\ Sub!Next
     \/ type = "REQ" /\ Req!Next
     \/ type = "REP" /\ Rep!Next
     \/ type = "SURVEYOR" /\ Surv!Next
     \/ type = "RESPONDENT" /\ Resp!RespondentNext

\* REQ: the worker threads run, connections come up again, and a peer that
\* has a request answers it; what breaks or is lost is bounded.  SURVEYOR: the
\* worker and an application that goes on receiving get at the socket however
\* many connections come and go and messages arrive (its mutex is not denied
\* to one thread for ever); peers need not answer.
Fairness ==
  /\ WF_vars(type = "REQ" /\ Req!Process /\ UNCHANGED type)
  /\ WF_vars(type = "REQ" /\ Req!Stopped /\ UNCHANGED type)
  /\ WF_vars(type = "REQ" /\ Req!Timeout /\ UNCHANGED type)
  /\ \A p \in Two : /\ WF_vars(type = "REQ" /\ Req!Connect(p) /\ UNCHANGED type)
                    /\ WF_vars(type = "REQ" /\ Req!Sent(p) /\ UNCHANGED type)
                    /\ WF_vars(type = "REQ" /\ Req!Answer(p) /\ UNCHANGED type)
  /\ WF_vars(type = "SURVEYOR" /\ Surv!Process /\ UNCHANGED type)
  /\ SF_vars(type = "SURVEYOR" /\ Surv!Timeout /\ UNCHANGED type)
  /\ SF_vars(type = "SURVEYOR" /\ Surv!Stopped /\ UNCHANGED type)
  /\ SF_vars(type = "SURVEYOR" /\ Surv!nn_surveyor_recv /\ UNCHANGED type)

Spec == Init /\ [][Next]_vars /\ Fairness
-----------------------------------------------------------------------------
TypeOK ==
  CASE type = "PAIR" -> Pair!TypeOK [] type = "PUSH" -> Push!TypeOK
    [] type = "PULL" -> Pull!TypeOK [] type = "BUS" -> Bus!TypeOK
    [] type = "PUB" -> Pub!TypeOK [] type = "SUB" -> Sub!TypeOK
    [] type = "REQ" -> Req!TypeOK [] type = "REP" -> Rep!TypeOK
    [] type = "SURVEYOR" -> Surv!TypeOK [] type = "RESPONDENT" -> Resp!TypeOK

\* The socket's structure is well formed, no assertion fails, no event finds
\* nn_req_handler or nn_surveyor_handler in a state that does not expect it,
\* no pipe is used that cannot take the call, and no pipe's data is used
\* before nn_*_add or after nn_*_rm freed it.  The one exception is a REQ socket
\* that is closed when the last message it took in was not the awaited reply:
\* nn_req_term releases that message a second time (req.c:113).
NeverBad == TypeOK /\ (bad => type = "REQ" /\ Req!ReleasedTwice)

\* Whatever the order in which connections come, go and fill up, once the
\* queued events are processed the socket type's own lists hold exactly the
\* pipes the transports can serve: none is forgotten, none is tried in vain.
OffersTrue == Quiet =>
  CASE type = "PAIR" -> Pair!OffersTrue [] type = "PUSH" -> Push!OffersTrue
    [] type = "PULL" -> Pull!OffersTrue [] type = "BUS" -> Bus!OffersTrue
    [] type = "PUB" -> Pub!OffersTrue [] type = "SUB" -> Sub!OffersTrue
    [] type = "REQ" -> Req!OffersTrue [] type = "SURVEYOR" -> Surv!OffersTrue
    [] OTHER -> Rep!OffersTrue

\* The pipes of the highest priority that has any come first, and every
\* priority's current pipe is one of its own (priolist.c).
HighestFirst ==
  CASE type = "PUSH" -> Push!InOrder [] type = "PULL" -> Pull!InOrder
    [] type = "BUS" -> Bus!InOrder [] type = "SUB" -> Sub!InOrder
    [] OTHER -> TRUE

\* "Round-robins messages to a set of pipes" (lb.h:28): a PUSH socket sends
\* to no pipe twice while another of its priority is ready all along.
RoundRobin == [][type = "PUSH" => Push!InTurn]_vars

\* A SUB socket's nn_recv finds nothing only when no message is left.
NothingLeft == [][type = "SUB" => Sub!NothingLeft]_vars

\* nn_send and nn_recv serve the pipes by priority and in turn, and find
\* nothing only if there is nothing.
ServedInOrder == []HighestFirst /\ RoundRobin /\ NothingLeft

\* REQ: a request is out exactly while its pipe is remembered; that pipe is
\* up and the resend timer runs (req.c, ACTIVE).
SentToLive == type = "REQ" => Req!SentToLive

\* REP and RESPONDENT: a reply reaches the connection its request came from
\* or nobody (xrep.c:172).
ToTheAsker == type \in {"REP", "RESPONDENT"} => Rep!ToTheAsker

\* SURVEYOR: "When the survey deadline expires, receive will return ETIMEDOUT
\* error" (nn_survey.txt).  Whatever responses and connections come and go, an
\* application that goes on receiving is told the end of every survey it does
\* not cancel, once, and gets no response to that survey afterwards.
SurveyEnds ==
  /\ [](type = "SURVEYOR" => Surv!ToldOnce)
  /\ \A id \in 1 .. MaxId : (type = "SURVEYOR" /\ Surv!Waits(id)) ~> (type = "SURVEYOR" /\ Surv!Over(id))

\* REQ: although requests, replies and connections are lost, every request is
\* answered unless the application cancels it by another or closes the socket.
Answered ==
  \A id \in 1 .. MaxId : (type = "REQ" /\ Req!Waits(id)) ~> (type = "REQ" /\ Req!Over(id))

\* REQ: "Ignore replies with incorrect request IDs" (req.c:178).  What nn_recv
\* returns answers the request made last.
RightReply == type = "REQ" => Req!RightReply
=============================================================================
