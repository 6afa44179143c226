-------------------------------- MODULE Rep ---------------------------------
(***************************************************************************)
(* The REP socket, raw and not (protocols/reqrep/xrep.c, rep.c).  Each     *)
(* pipe gets a key; a request carries the key of the pipe it came from,    *)
(* and the reply goes to the pipe that has that key, if there is one.  sk  *)
(* is [fq, data, key, out, next_key, raw, held, inc]: held are the headers *)
(* of the requests the application may still answer, each with the pipe    *)
(* and the connection (inc) it really came from.                           *)
(***************************************************************************)
EXTENDS Priolist

CONSTANT MaxKey   \* connections made in all; the code has 2^31 keys

Header == [key : 1 .. MaxKey, pipe : Pipes, inc : 1 .. MaxKey]

TypeOK ==
  PipesTypeOK /\ sk \in [fq : PriolistType, data : SUBSET Pipes, key : [Pipes -> 0 .. MaxKey],
                         out : SUBSET Pipes, next_key : 1 .. MaxKey + 1, raw : BOOLEAN,
                         held : SUBSET Header, inc : [Pipes -> 0 .. MaxKey]]

Init ==
  /\ PipesInit
  /\ \E raw \in BOOLEAN :
       sk = [fq |-> nn_priolist_init, data |-> {}, key |-> [p \in Pipes |-> 0], out |-> {},
             next_key |-> 1, raw |-> raw, held |-> {}, inc |-> [p \in Pipes |-> 0]]

\* Fault: the key is the number of pipes.
nn_xrep_add_count(p) ==
  /\ sk.next_key <= MaxKey
  /\ sk' = [sk EXCEPT !.data = @ \cup {p}, !.key[p] = Cardinality(sk.data) + 1,
                      !.next_key = @ + 1, !.inc[p] = @ + 1]
  /\ UNCHANGED bad

\* nn_hash_insert asserts that the key is not in use.
nn_xrep_add(p) ==
  /\ sk.next_key <= MaxKey
  /\ sk' = [sk EXCEPT !.data = @ \cup {p}, !.key[p] = sk.next_key, !.next_key = @ + 1,
                      !.inc[p] = @ + 1]
  /\ bad' = \E q \in sk.data : sk.key[q] = sk.next_key

\* The pipe's data, with its key and flags, is freed.
nn_xrep_rm(p) ==
  /\ bad' = (p \notin sk.data)
  /\ sk' = [sk EXCEPT !.fq = nn_fq_rm(@, p), !.data = @ \ {p}, !.out = @ \ {p}]

nn_xrep_in(p) ==
  IF p \in sk.data /\ p \notin Ready(sk.fq)
  THEN sk' = [sk EXCEPT !.fq = nn_fq_in(@, p)] /\ UNCHANGED bad
  ELSE bad' = TRUE /\ UNCHANGED sk

nn_xrep_out(p) == sk' = [sk EXCEPT !.out = @ \cup {p}] /\ bad' = (p \notin sk.data)

Found(key) == {p \in sk.data : sk.key[p] = key}

\* The reply is dropped if its pipe is gone or cannot take it.
nn_xrep_send(h, held) ==
  IF Found(h.key) \cap sk.out = {}
  THEN sk' = [sk EXCEPT !.held = held] /\ UNCHANGED <<pipe, evq, bad>>
  ELSE \E p \in Found(h.key) :
         /\ pipe' = [pipe EXCEPT ![p] = nn_pipe_send(p, TRUE)]
         /\ evq' \in MayBreak(evq, p)
         /\ bad' = ~Sendable(p)
         /\ sk' = [sk EXCEPT !.out = @ \ {p}, !.held = held]

\* A request without the bottom of its stack is dropped; another one gets
\* the key of its pipe.
nn_xrep_recv(held) ==
  \E s \in FqRecv([pipe |-> pipe, fq |-> sk.fq, evq |-> evq, bad |-> bad]) :
    LET p == nn_priolist_getpipe(sk.fq)
    IN  /\ pipe' = s.pipe /\ evq' = s.evq /\ bad' = s.bad
        /\ \E new \in {{}, {[key |-> sk.key[p], pipe |-> p, inc |-> sk.inc[p]]}} :
             sk' = [sk EXCEPT !.fq = s.fq, !.held = held \cup new]

\* -EFSM if no request is held; the request is answered once.
nn_rep_send(h) == Quiet /\ nn_xrep_send(h, IF sk.raw THEN sk.held ELSE {})

\* The request in progress is cancelled even if there is no next one.
nn_rep_recv ==
  /\ Quiet
  /\ IF nn_fq_can_recv(sk.fq) THEN nn_xrep_recv(IF sk.raw THEN sk.held ELSE {})
     ELSE ~sk.raw /\ sk' = [sk EXCEPT !.held = {}] /\ UNCHANGED <<pipe, evq, bad>>

Transport(p) ==
  \/ nn_pipebase_start(p, FALSE) /\ nn_xrep_add(p)
  \/ (nn_pipebase_received(p) \/ nn_pipebase_sent(p)) /\ UNCHANGED <<sk, bad>>
  \/ nn_pipebase_stop(p, "ACTIVE") /\ nn_xrep_rm(p)
  \/ nn_sock_handler(p, "IN") /\ nn_xrep_in(p)
  \/ nn_sock_handler(p, "OUT") /\ nn_xrep_out(p)

Next ==
  \/ \E p \in Pipes : Transport(p)
  \/ \E h \in sk.held : nn_rep_send(h)
  \/ nn_rep_recv
-----------------------------------------------------------------------------
OffersTrue ==
  /\ Ready(sk.fq) = {p \in Pipes : pipe[p].state = "ACTIVE" /\ Receivable(p)}
  /\ sk.out = {p \in Pipes : pipe[p].state = "ACTIVE" /\ Sendable(p)}

\* A reply reaches the connection its request came from or nobody, however
\* many connections have come and gone in between.
ToTheAsker ==
  \A h \in sk.held : \A p \in Found(h.key) : p = h.pipe /\ sk.inc[p] = h.inc
=============================================================================
