------------------------------- MODULE Bench --------------------------------
(***************************************************************************)
(* The benchmark: workload_sim.c with client.c on one side, server.c on    *)
(* the other, and the PAIR connection between them.  The client sends in   *)
(* turn one request and receives what has arrived; the server receives one *)
(* request and replies.  Both send without a time limit, to a peer that is *)
(* there and has room.  What the requests do is in module Server: here     *)
(* each has one reply.                                                     *)
(*                                                                         *)
(* A message is [c, n, what]: request n of client c ("post", "put", "get", *)
(* or "mega", which puts a value of nearly 1 MB) or the reply to it ("ok", *)
(* or "mega", which the receiver refuses for its size).  Counting for the  *)
(* report is left out.                                                     *)
(***************************************************************************)
EXTENDS Integers, Sequences

CONSTANTS
  Clients,       \* runs of workload_sim against one server, numbers
  Cap,           \* messages a connection takes in each direction
  MaxRequests,   \* bound on the requests of a client in its 30 seconds
  MaxBreaks      \* bound on the failures of the network

ASSUME BenchAssumption == Clients \subseteq Nat \ {0} /\ Cap \in Nat \ {0} /\ MaxRequests > 2 /\ MaxBreaks \in Nat

VARIABLES
  client,   \* client -> [pc, n]; n requests are sent
  server,   \* [pc, msg]: the reply it wants to send
  big,      \* the cache holds a value whose reply is beyond NN_RCVMAXSIZE
  conn,     \* the client connected, or None
  up, down, \* requests and replies on the connection
  seen,     \* the last reply delivered on this connection
  breaks

vars == <<client, server, big, conn, up, down, seen, breaks>>

None == 0
Nothing == [c |-> None, n |-> 0, what |-> "none"]
Gone(c) == client[c].pc = "gone"

Init ==
  /\ client = [c \in Clients |-> [pc |-> "create", n |-> 0]]
  /\ server = [pc |-> "recv", msg |-> Nothing]
  /\ big = FALSE /\ conn = None /\ up = <<>> /\ down = <<>> /\ seen = Nothing /\ breaks = 0

\* Variant: replies that nobody took stay in the socket.
Lost_keeps == conn' = None /\ up' = <<>> /\ seen' = Nothing /\ UNCHANGED down

\* What both sockets have of the connection is dropped.
Lost == conn' = None /\ up' = <<>> /\ down' = <<>> /\ seen' = Nothing

\* Variant: the client does not connect again.
Connect_once(c) ==
  /\ conn = None /\ client[c].pc = "create"
  /\ conn' = c
  /\ UNCHANGED <<client, server, big, up, down, seen, breaks>>

\* The server's socket takes one peer; the others try again (nn_excl_add).
Connect(c) ==
  /\ conn = None /\ ~Gone(c)
  /\ conn' = c
  /\ UNCHANGED <<client, server, big, up, down, seen, breaks>>

\* The network fails, or the end of the client is noticed.
Break ==
  /\ conn # None
  /\ Gone(conn) \/ breaks < MaxBreaks
  /\ breaks' = IF Gone(conn) THEN breaks ELSE breaks + 1
  /\ Lost /\ UNCHANGED <<client, server, big>>

\* A reply beyond NN_RCVMAXSIZE of the client's socket costs the connection.
Refuse ==
  /\ down # <<>> /\ Head(down).what = "mega" /\ ~Gone(conn)
  /\ Lost /\ UNCHANGED <<client, server, big, breaks>>
-----------------------------------------------------------------------------
After(pc) == CASE pc = "create" -> "first" [] pc = "first" -> "loop" [] pc = "loop" -> "drain"

\* cache_send, blocking: create_cache asks for memory, sim_set sets one key,
\* then the loop gets or sets.
Requests(pc) == CASE pc = "create" -> {"post"} [] pc = "first" -> {"put", "mega"} [] OTHER -> {"put", "mega", "get"}

cache_send(c) ==
  /\ client[c].pc \in {"create", "first", "loop"}
  /\ conn = c /\ Len(up) < Cap
  /\ client' = [client EXCEPT ![c] = [pc |-> After(@.pc), n |-> @.n + 1]]
  /\ \E what \in Requests(client[c].pc) : up' = Append(up, [c |-> c, n |-> client[c].n + 1, what |-> what])
  /\ UNCHANGED <<server, big, conn, down, seen, breaks>>

\* A message that has arrived; with NN_DONTWAIT there may be none yet, although
\* the server has sent it.
cache_recv(c) ==
  /\ client[c].pc \in {"drain", "final"}
  /\ conn = c /\ down # <<>> /\ Head(down).what # "mega"
  /\ seen' = Head(down) /\ down' = Tail(down)
  /\ UNCHANGED <<client, server, big, conn, up, breaks>>

\* The loop goes on until 30 seconds are over.
EndDrain(c) ==
  /\ client[c].pc = "drain"
  /\ \/ client[c].n < MaxRequests /\ client' = [client EXCEPT ![c].pc = "loop"]
     \/ client' = [client EXCEPT ![c].pc = "final"]
  /\ UNCHANGED <<server, big, conn, up, down, seen, breaks>>

\* main returns.  Its process takes with it what the socket had not sent.
Exit(c) ==
  /\ client[c].pc = "final"
  /\ client' = [client EXCEPT ![c].pc = "gone"]
  /\ IF conn = c THEN \E k \in 0 .. Len(up) : up' = SubSeq(up, 1, k) ELSE UNCHANGED up
  /\ UNCHANGED <<server, big, conn, down, seen, breaks>>
-----------------------------------------------------------------------------
\* The request is parsed and handled; a time-out of 100 ms only begins anew.
recv ==
  /\ server.pc = "recv" /\ up # <<>>
  /\ up' = Tail(up)
  /\ big' = (big \/ Head(up).what = "mega")
  /\ \E what \in IF big /\ Head(up).what = "get" THEN {"ok", "mega"} ELSE {"ok"} :
       server' = [pc |-> "reply", msg |-> [Head(up) EXCEPT !.what = what]]
  /\ UNCHANGED <<client, conn, down, seen, breaks>>

\* Variant: only the client that asked gets the reply.
cache_reply_asker ==
  /\ server.pc = "reply" /\ conn = server.msg.c /\ Len(down) < Cap
  /\ down' = Append(down, server.msg)
  /\ server' = [pc |-> "recv", msg |-> Nothing]
  /\ UNCHANGED <<client, big, conn, up, seen, breaks>>

\* nn_send, blocking, to whoever is connected.
cache_reply ==
  /\ server.pc = "reply" /\ conn # None /\ Len(down) < Cap
  /\ down' = Append(down, server.msg)
  /\ server' = [pc |-> "recv", msg |-> Nothing]
  /\ UNCHANGED <<client, big, conn, up, seen, breaks>>

Client(c) == cache_send(c) \/ cache_recv(c) \/ EndDrain(c) \/ Exit(c)
Server == recv \/ cache_reply
Next == Break \/ Refuse \/ Server \/ \E c \in Clients : Connect(c) \/ Client(c)

\* Both processes run, a client connects in the end, and the end of a process
\* or a message that is too long is noticed.  The network need not fail.
Spec ==
  /\ Init /\ [][Next]_vars
  /\ WF_vars(Server) /\ WF_vars(Refuse) /\ WF_vars(Break /\ Gone(conn))
  /\ \A c \in Clients : WF_vars(Client(c)) /\ WF_vars(Connect(c))
-----------------------------------------------------------------------------
Some(m) == IF m = Nothing THEN <<>> ELSE <<m>>
Pipeline == Some(seen) \o down \o Some(server.msg) \o up

\* One connection carries the requests and replies of its own client in the
\* order of the requests.  Only the first reply can be of another client: the
\* one the server could not send before that client left.
InOrder ==
  /\ conn \in Clients \cup {None} /\ Len(up) <= Cap /\ Len(down) <= Cap
  /\ conn = None => Pipeline = Some(server.msg)
  /\ conn # None => \A i, j \in DOMAIN Pipeline : i < j =>
       Pipeline[j].c = conn /\ (Pipeline[i].c = conn => Pipeline[i].n < Pipeline[j].n)

\* Client and server both wait to send, and neither receives.
Frozen ==
  /\ conn # None /\ server.pc = "reply" /\ Len(down) = Cap
  /\ client[conn].pc \in {"create", "first", "loop"} /\ Len(up) = Cap

\* Every client comes to its end, whatever connections and replies are lost,
\* unless client and server wait for each other.
Finishes == \A c \in Clients : <>(Gone(c) \/ Frozen)

\* The server does not stay in the reply to a client that has left: it comes
\* back to receiving as long as there is a client, or both wait for each other.
ServerFree == []<>(server.pc = "recv" \/ Frozen \/ \A c \in Clients : Gone(c))
=============================================================================
