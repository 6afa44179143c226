-------------------------------- MODULE Core --------------------------------
(***************************************************************************)
(* The core of nanomsg: the table of sockets and the calls of the          *)
(* application (core/global.c), the life of a socket (core/sock.c) and its *)
(* endpoints (core/ep.c).  Any thread may use any socket.                  *)
(*                                                                         *)
(* One step is one stay of a thread under the global lock or in a socket's *)
(* context, or one access without either.  glock names a thread that keeps *)
(* the global lock between steps.  The worker that collects statistics is  *)
(* the only one to keep a context between steps.  Sending and receiving    *)
(* are one piece of code but for the names: a direction d says which, and  *)
(* ready[d] counts what the socket type could transfer at once.            *)
(***************************************************************************)
EXTENDS Integers, FiniteSets, Functions

CONSTANTS
  Threads,
  MaxSockets,   \* NN_MAX_SOCKETS
  Socks,        \* objects nn_sock, numbers; bound on the sockets created
  Dirs,         \* "in" unless NN_SOCKTYPE_FLAG_NORECV, "out" unless NOSEND
  Delayed,      \* the sockets whose type delays its end (req, surveyor)
  MaxEps,       \* bound on the endpoints of all sockets
  MaxReady,     \* bound on ready
  MaxRounds,    \* bound on the collections of statistics
  StatSocks     \* the sockets created when statistics are collected

VARIABLES
  glock,    \* the thread that keeps nn_glock
  zombie,   \* NN_CTX_FLAG_ZOMBIE
  socks,    \* slot -> nn_sock
  unused,   \* the stack of unused slots
  nsocks,
  sock,     \* the sockets
  th,       \* the calls the threads are in
  stats,    \* statistics: mode from the environment, at and in of the worker, rounds
  slip      \* observer: calls have overlapped that must not, or statistics are collected

vars == <<glock, zombie, socks, unused, nsocks, sock, th, stats, slip>>

None == 0
Slots == 0 .. MaxSockets - 1

ASSUME CoreAssumption ==
  /\ MaxSockets \in Nat
  /\ None \notin Socks /\ None \notin Threads
  /\ Dirs \subseteq {"in", "out"} /\ StatSocks \subseteq Socks

Idle == [pc |-> "idle", op |-> "none", o |-> None, s |-> 0, reg |-> 0, n |-> 0, todo |-> {}]

\* flags: NN_SOCK_FLAG_IN and OUT; fd: the event descriptors rcvfd and sndfd.
nn_sock_init ==
  [st |-> "ACTIVE", holds |-> 1, eid |-> 1, eps |-> {}, sdeps |-> {}, flags |-> {},
   fd |-> [d \in Dirs |-> "idle"], ready |-> [d \in Dirs |-> 0],
   stop |-> FALSE, termsem |-> 0, relesem |-> 0, ctx |-> TRUE, bad |-> "no"]

Bad(x, what) == [x EXCEPT !.bad = what]
Dead == \E o \in Socks : sock[o].bad # "no"

\* No thread is in the context of socket o for long but the worker.
CtxFree(o) == stats.in # o

\* Variant: nobody is told that there is nothing left.
nn_sock_onleave_keeps(x) ==
  IF x.st # "ACTIVE" THEN x
  ELSE [x EXCEPT !.flags = @ \cup {d \in Dirs : x.ready[d] > 0},
                 !.fd = [d \in Dirs |-> IF x.ready[d] > 0 THEN "signaled" ELSE @[d]]]

\* At the end of each stay in the context the descriptors are set or cleared
\* as the flags tell; clearing one that is not set is an error (nn_efd_unsignal).
nn_sock_onleave(x) ==
  LET on == {d \in Dirs : x.ready[d] > 0}
      clear == x.flags \ on
  IN CASE x.st # "ACTIVE" -> x
       [] x.st = "ACTIVE" /\ \E d \in clear : x.fd[d] # "signaled" -> Bad(x, "nn_efd_unsignal")
       [] OTHER -> [x EXCEPT !.flags = on,
                             !.fd = [d \in Dirs |-> CASE d \in on \ x.flags -> "signaled"
                                                      [] d \in clear -> "idle"
                                                      [] OTHER -> @[d]]]

\* A stay in the context of o that ends in x.
Leave(o, x) == sock' = [sock EXCEPT ![o] = nn_sock_onleave(x)]

Goto(t, pc) == th' = [th EXCEPT ![t].pc = pc]
Return(t) == th' = [th EXCEPT ![t] = Idle]
-----------------------------------------------------------------------------
\* The socket type is destroyed and the thread in nn_close released.  To close
\* a descriptor does not wake those who wait for it, unless it was set before.
Finish1(x) ==
  [x EXCEPT !.st = "FINI", !.termsem = @ + 1,
            !.fd = [d \in Dirs |-> IF @[d] = "signaled" THEN "closed" ELSE "lost"]]

\* Once the last endpoint has gone the socket type is stopped.
Finish2(x) ==
  CASE x.sdeps # {} -> x
    [] x.sdeps = {} /\ x.eps # {} -> Bad(x, "nn_list_empty")
    [] x.sdeps = {} /\ x.eps = {} /\ x.stop -> [x EXCEPT !.st = "STOPPING"]
    [] OTHER -> Finish1(x)

\* Variant: those who wait are not woken.
nn_sock_stop_silent(x) ==
  Finish2([x EXCEPT !.st = "STOPPING_EPS", !.eps = {}, !.sdeps = @ \cup x.eps])

\* Everybody who waits is woken and all endpoints are asked to stop.
nn_sock_stop(x) ==
  Finish2([x EXCEPT !.st = "STOPPING_EPS", !.fd = [d \in Dirs |-> "signaled"],
                    !.eps = {}, !.sdeps = @ \cup x.eps])

nn_sock_action_zombify(x) ==
  [x EXCEPT !.st = "ZOMBIE", !.flags = Dirs, !.fd = [d \in Dirs |-> "signaled"]]

\* In the middle of nn_close the action ZOMBIFY is ignored or not expected.
nn_sock_zombify(x) ==
  CASE ~x.ctx -> Bad(x, "nn_ctx_enter")
    [] x.ctx /\ x.st = "ACTIVE" -> nn_sock_action_zombify(x)
    [] x.ctx /\ x.st = "STOPPING_EPS" -> x
    [] OTHER -> Bad(x, "ZOMBIFY")

\* Variant: the end of the last endpoint does not end the socket.
nn_ep_stopped_forgets(x, e) == [x EXCEPT !.sdeps = @ \ {e}]

\* NN_EP_STOPPED: the endpoint is deallocated.
nn_ep_stopped(x, e) ==
  LET y == [x EXCEPT !.sdeps = @ \ {e}]
  IN CASE x.st = "ACTIVE" -> y
       [] x.st = "STOPPING_EPS" -> Finish2(y)
       [] OTHER -> Bad(x, "NN_EP_STOPPED")

\* NN_PIPE_IN and NN_PIPE_OUT.
Pipe(x, d) ==
  CASE x.st = "ACTIVE" -> [x EXCEPT !.ready[d] = @ + 1]
    [] x.st = "STOPPING_EPS" -> x
    [] OTHER -> Bad(x, "NN_PIPE")

nn_sock_rm(x) == [x EXCEPT !.ready = [d \in Dirs |-> 0]]
-----------------------------------------------------------------------------
Init ==
  /\ glock = None /\ zombie = FALSE /\ nsocks = 0
  /\ socks = [s \in Slots |-> None]
  /\ unused = [i \in Slots |-> MaxSockets - i - 1]
  /\ sock = [o \in Socks |-> [nn_sock_init EXCEPT !.st = "NEW"]]
  /\ th = [t \in Threads |-> Idle]
  /\ stats \in [mode : {"off", "print", "socket"}, at : {-1}, in : {None}, rounds : {0}]
  /\ slip = (stats.mode # "off")

\* The threads live as long as the process; a call takes the global lock if it is free.
At(t, pc) == ~Dead /\ th[t].pc = pc
Unlocked == glock = None

\* nn_global_init and nn_global_create_socket; nothing changes when they fail.
nn_socket(t) ==
  LET s == unused[MaxSockets - nsocks - 1] IN
  /\ At(t, "idle") /\ Unlocked /\ ~zombie /\ nsocks < MaxSockets
  /\ \E o \in IF stats.mode = "off" THEN Socks ELSE StatSocks :
       /\ sock[o].st = "NEW" /\ \A p \in Socks : sock[p].st = "NEW" => o <= p
       /\ sock' = [sock EXCEPT ![o] = [nn_sock_init EXCEPT !.stop = o \in Delayed]]
       /\ socks' = [socks EXCEPT ![s] = o]
  /\ nsocks' = nsocks + 1
  /\ UNCHANGED <<glock, zombie, unused, th, stats, slip>>

\* Variant: a socket that is being closed can be held.
CanHold_closing(s) == ~zombie /\ socks[s] # None

\* A socket that is being closed or does not exist yields EBADF, and ETERM
\* follows nn_term: the call fails and changes nothing.
CanHold(s) == ~zombie /\ socks[s] # None /\ sock[socks[s]].st = "ACTIVE"

\* A call other than nn_close begins: nn_recv or nn_send (a direction),
\* nn_bind or nn_connect ("bind"), nn_shutdown, nn_setsockopt or nn_getsockopt ("opt").
nn_global_hold_socket(t, op, s) ==
  /\ At(t, "idle") /\ Unlocked /\ CanHold(s)
  /\ sock' = [sock EXCEPT ![socks[s]].holds = @ + 1]
  /\ th' = [th EXCEPT ![t] = [Idle EXCEPT !.pc = "held", !.op = op, !.o = socks[s], !.s = s]]
  /\ UNCHANGED <<glock, zombie, socks, unused, nsocks, stats, slip>>

\* nn_sock_rele subtracts one from memory in an instruction that is not
\* atomic: it reads, and it writes.  Only nn_close does it without the lock.
nn_global_rele_socket(t) ==
  \/ /\ At(t, "rele") /\ Unlocked
     /\ glock' = t
     /\ th' = [th EXCEPT ![t].pc = "write", ![t].reg = sock[th[t].o].holds]
     /\ UNCHANGED <<zombie, socks, unused, nsocks, sock, stats, slip>>
  \/ /\ At(t, "write")
     /\ glock' = None
     /\ sock' = [sock EXCEPT ![th[t].o].holds = th[t].reg - 1,
                             ![th[t].o].relesem = IF th[t].reg = 1 THEN @ + 1 ELSE @]
     /\ Return(t)
     /\ UNCHANGED <<zombie, socks, unused, nsocks, stats, slip>>
-----------------------------------------------------------------------------
Local == UNCHANGED <<glock, zombie, socks, unused, nsocks, stats, slip>>

\* nn_sock_send and nn_sock_recv.  One who was woken looks again whether the
\* descriptor is set and puts the flag in order.
Transfer(t) ==
  LET o == th[t].o
      d == th[t].op
      x == IF th[t].pc = "woken" /\ sock[o].fd[d] = "signaled"
           THEN [sock[o] EXCEPT !.flags = @ \cup {d}] ELSE sock[o]
  IN /\ ~Dead /\ th[t].pc \in {"held", "woken"} /\ d \in Dirs /\ CtxFree(o)
     /\ CASE x.st # "ACTIVE" -> Leave(o, x) /\ Goto(t, "rele")   \* ETERM, EBADF
          [] x.st = "ACTIVE" /\ x.ready[d] > 0 -> Leave(o, [x EXCEPT !.ready[d] = @ - 1]) /\ Goto(t, "rele")
          [] OTHER -> Leave(o, x) /\ \E pc \in {"rele", "wait"} : Goto(t, pc)   \* NN_DONTWAIT or not
     /\ Local

\* nn_efd_wait returns; a descriptor closed meanwhile may be noticed at once or not.
Wake(t) ==
  LET fd == sock[th[t].o].fd[th[t].op] IN
  /\ At(t, "wait")
  /\ \/ fd \in {"signaled", "closed"} /\ Goto(t, "woken")
     \/ fd = "closed" /\ Goto(t, "rele")
  /\ UNCHANGED sock /\ Local

\* EINTR or ETIMEDOUT.
GiveUp(t) == At(t, "wait") /\ Goto(t, "rele") /\ UNCHANGED sock /\ Local

Made == SumFunction([o \in Socks |-> sock[o].eid - 1])

\* nn_bind and nn_connect; the state of the socket is not looked at.
nn_sock_add_ep(t) ==
  LET o == th[t].o
      x == sock[o]
  IN /\ At(t, "held") /\ th[t].op = "bind" /\ CtxFree(o)
     /\ \/ Leave(o, x)   \* the transport refuses
        \/ Made < MaxEps /\ Leave(o, [x EXCEPT !.eps = @ \cup {x.eid}, !.eid = @ + 1])
     /\ Goto(t, "rele") /\ Local

nn_sock_rm_ep(t) ==
  LET o == th[t].o
      x == sock[o]
  IN /\ At(t, "held") /\ th[t].op = "shutdown" /\ CtxFree(o)
     /\ IF x.eps = {} THEN Leave(o, x)   \* EINVAL
        ELSE \E e \in x.eps : Leave(o, [x EXCEPT !.eps = @ \ {e}, !.sdeps = @ \cup {e}])
     /\ Goto(t, "rele") /\ Local

\* Options of the socket type are asked of the socket type, destroyed or not.
nn_sock_setopt(t) ==
  LET o == th[t].o
      x == sock[o]
  IN /\ At(t, "held") /\ th[t].op = "opt" /\ CtxFree(o)
     /\ Leave(o, IF x.st = "FINI" THEN Bad(x, "sockbase") ELSE x)
     /\ Goto(t, "rele") /\ Local
-----------------------------------------------------------------------------
\* The worker threads: an endpoint has stopped, the socket type has stopped,
\* a pipe has something, a pipe goes.
EpStopped(o, e) ==
  ~Dead /\ CtxFree(o) /\ e \in sock[o].sdeps /\ Leave(o, nn_ep_stopped(sock[o], e)) /\ UNCHANGED th /\ Local

nn_sock_stopped(o) ==
  ~Dead /\ CtxFree(o) /\ sock[o].st = "STOPPING" /\ Leave(o, Finish1(sock[o])) /\ UNCHANGED th /\ Local

HasPipe(o) == sock[o].eps \cup sock[o].sdeps # {}

PipeReady(o, d) ==
  /\ ~Dead /\ CtxFree(o) /\ HasPipe(o) /\ sock[o].ready[d] < MaxReady
  /\ Leave(o, Pipe(sock[o], d)) /\ UNCHANGED th /\ Local

PipeGone(o) == ~Dead /\ CtxFree(o) /\ HasPipe(o) /\ Leave(o, nn_sock_rm(sock[o])) /\ UNCHANGED th /\ Local
-----------------------------------------------------------------------------
Others(t, o) == {u \in Threads \ {t} : th[u].o = o /\ th[u].pc = "held"}

\* nn_close takes the global lock, a hold, and stops the socket.
CloseBegin(t, s) ==
  /\ At(t, "idle") /\ Unlocked /\ CanHold(s)
  /\ glock' = t
  /\ sock' = [sock EXCEPT ![socks[s]].holds = @ + 1]
  /\ th' = [th EXCEPT ![t] = [Idle EXCEPT !.pc = "stop", !.op = "close", !.o = socks[s], !.s = s]]
  /\ UNCHANGED <<zombie, socks, unused, nsocks, stats, slip>>

CloseStop(t) ==
  LET o == th[t].o IN
  /\ At(t, "stop") /\ CtxFree(o)
  /\ Leave(o, nn_sock_stop(sock[o]))
  /\ glock' = None
  /\ th' = [th EXCEPT ![t].pc = "drop", ![t].n = 2]
  /\ slip' = (slip \/ \E u \in Others(t, o) : th[u].op \in {"bind", "opt"})
  /\ UNCHANGED <<zombie, socks, unused, nsocks, stats>>

\* nn_sock_rele twice, without the lock.
CloseDrop(t) ==
  LET o == th[t].o IN
  /\ \/ At(t, "drop") /\ th' = [th EXCEPT ![t].pc = "store", ![t].reg = sock[o].holds] /\ UNCHANGED sock
     \/ /\ At(t, "store")
        /\ sock' = [sock EXCEPT ![o].holds = th[t].reg - 1, ![o].relesem = IF th[t].reg = 1 THEN @ + 1 ELSE @]
        /\ th' = [th EXCEPT ![t].pc = IF th[t].n = 1 THEN "termsem" ELSE "drop", ![t].n = @ - 1]
  /\ Local

\* Variant: the socket goes as soon as its endpoints have gone.
nn_sock_term_hasty(t) ==
  LET o == th[t].o
      x == sock[o]
  IN /\ \/ At(t, "termsem") /\ x.termsem > 0 /\ sock' = [sock EXCEPT ![o].termsem = @ - 1] /\ Goto(t, "fini")
        \/ At(t, "fini") /\ CtxFree(o) /\ sock' = [sock EXCEPT ![o].ctx = FALSE] /\ Goto(t, "free")
     /\ Local

\* nn_sock_term: the endpoints end, then the holds, and whoever is still in
\* the context leaves it.
nn_sock_term(t) ==
  LET o == th[t].o
      x == sock[o]
  IN /\ \/ At(t, "termsem") /\ x.termsem > 0 /\ sock' = [sock EXCEPT ![o].termsem = @ - 1] /\ Goto(t, "relesem")
        \/ At(t, "relesem") /\ x.relesem > 0 /\ sock' = [sock EXCEPT ![o].relesem = @ - 1] /\ Goto(t, "fini")
        \/ /\ At(t, "fini") /\ CtxFree(o)
           /\ sock' = [sock EXCEPT ![o] = IF x.eps \cup x.sdeps # {} THEN Bad(x, "nn_list_term")
                                          ELSE [x EXCEPT !.ctx = FALSE]]
           /\ Goto(t, "free")
     /\ Local

Freed(x) == [nn_sock_init EXCEPT !.st = "FREED", !.holds = x.holds, !.relesem = x.relesem]

\* Variant: the slot goes to where the next one is taken from.
CloseFree_below(t) ==
  /\ At(t, "free") /\ Unlocked
  /\ sock' = [sock EXCEPT ![th[t].o] = Freed(@)]
  /\ socks' = [socks EXCEPT ![th[t].s] = None]
  /\ unused' = [unused EXCEPT ![MaxSockets - nsocks - 1] = th[t].s]
  /\ nsocks' = nsocks - 1
  /\ Return(t)
  /\ UNCHANGED <<glock, zombie, stats, slip>>

\* The slot is free again.  The last socket takes the worker threads with it,
\* for which the caller waits with the lock; a statistics socket never goes.
CloseFree(t) ==
  LET last == nsocks = 1 /\ stats.mode # "socket" IN
  /\ At(t, "free") /\ Unlocked
  /\ sock' = [sock EXCEPT ![th[t].o] = Freed(@)]
  /\ socks' = [socks EXCEPT ![th[t].s] = None]
  /\ unused' = [unused EXCEPT ![MaxSockets - nsocks] = th[t].s]
  /\ nsocks' = nsocks - 1
  /\ IF last THEN glock' = t /\ th' = [th EXCEPT ![t] = [Idle EXCEPT !.pc = "exit", !.op = "close"]]
     ELSE UNCHANGED glock /\ Return(t)
  /\ UNCHANGED <<zombie, stats, slip>>

\* When it comes back, nn_global_init makes a new stack of slots.
nn_global_term(t) ==
  /\ At(t, "exit") /\ stats.at = -1
  /\ glock' = None
  /\ unused' = [i \in Slots |-> MaxSockets - i - 1]
  /\ Return(t)
  /\ UNCHANGED <<zombie, socks, nsocks, sock, stats, slip>>

\* nn_term turns the sockets into zombies one by one, with the global lock.
TermBegin(t) ==
  LET open == {socks[s] : s \in Slots} \ {None} IN
  /\ At(t, "idle") /\ Unlocked
  /\ glock' = t /\ zombie' = TRUE
  /\ th' = [th EXCEPT ![t] = [Idle EXCEPT !.pc = "zombify", !.todo = {s \in Slots : socks[s] # None}]]
  /\ slip' = (slip \/ \E o \in open : sock[o].st # "ACTIVE" \/ HasPipe(o)
                                        \/ \E u \in Others(t, o) : th[u].op = "bind")
  /\ UNCHANGED <<socks, unused, nsocks, sock, stats>>

TermStep(t) ==
  /\ At(t, "zombify")
  /\ IF th[t].todo = {}
     THEN glock' = None /\ Return(t) /\ UNCHANGED sock
     ELSE LET s == CHOOSE s \in th[t].todo : \A r \in th[t].todo : s <= r IN
          /\ CtxFree(socks[s])
          /\ Leave(socks[s], nn_sock_zombify(sock[socks[s]]))
          /\ th' = [th EXCEPT ![t].todo = @ \ {s}]
          /\ UNCHANGED glock
  /\ UNCHANGED <<zombie, socks, unused, nsocks, stats, slip>>
-----------------------------------------------------------------------------
\* nn_global_submit_statistics, when the timer fires: the worker goes through
\* the slots; with the context of a socket it sends to the statistics socket,
\* which takes the global lock.
StatTimer ==
  /\ ~Dead /\ stats.mode # "off" /\ stats.at = -1 /\ stats.rounds < MaxRounds
  /\ nsocks > 0 \/ stats.mode = "socket"
  /\ stats' = [stats EXCEPT !.at = 0, !.rounds = @ + 1]
  /\ UNCHANGED <<glock, zombie, socks, unused, nsocks, sock, th, slip>>

nn_global_submit_statistics ==
  LET o == IF stats.at \in Slots THEN socks[stats.at] ELSE None
      next == IF stats.at = MaxSockets - 1 THEN -1 ELSE stats.at + 1
  IN /\ ~Dead /\ stats.at # -1
     /\ \/ stats.in = None /\ Unlocked /\ o = None /\ stats' = [stats EXCEPT !.at = next] /\ UNCHANGED sock
        \/ /\ stats.in = None /\ Unlocked /\ o # None
           /\ IF sock[o].ctx THEN stats' = [stats EXCEPT !.in = o] /\ UNCHANGED sock
              ELSE sock' = [sock EXCEPT ![o] = Bad(@, "nn_ctx_enter")] /\ UNCHANGED stats
        \/ /\ stats.in # None /\ (stats.mode = "socket" => Unlocked)
           /\ stats' = [stats EXCEPT !.in = None, !.at = next] /\ UNCHANGED sock
     /\ UNCHANGED <<glock, zombie, socks, unused, nsocks, th, slip>>
-----------------------------------------------------------------------------
Ops == Dirs \cup {"bind", "shutdown", "opt"}

Begin(t) == nn_socket(t) \/ TermBegin(t) \/ \E s \in Slots : CloseBegin(t, s) \/ \E op \in Ops : nn_global_hold_socket(t, op, s)
Continue(t) ==
  \/ nn_global_rele_socket(t) \/ Transfer(t) \/ Wake(t)
  \/ nn_sock_add_ep(t) \/ nn_sock_rm_ep(t) \/ nn_sock_setopt(t)
  \/ CloseStop(t) \/ CloseDrop(t) \/ nn_sock_term(t) \/ CloseFree(t) \/ nn_global_term(t)
  \/ TermStep(t)
TakeLock(t) == Unlocked /\ (nn_global_rele_socket(t) \/ CloseFree(t))
Worker(o) == nn_sock_stopped(o) \/ \E e \in 1 .. MaxEps : EpStopped(o, e)

Next ==
  \/ \E t \in Threads : Begin(t) \/ Continue(t) \/ GiveUp(t)
  \/ \E o \in Socks : Worker(o) \/ PipeGone(o) \/ \E d \in Dirs : PipeReady(o, d)
  \/ StatTimer \/ nn_global_submit_statistics

\* Threads that are not blocked run, a lock that is free again and again is
\* obtained, and endpoints and socket types stop in the end (modules Transports
\* and Timer); nobody has to make another call.
Spec ==
  /\ Init /\ [][Next]_vars
  /\ \A t \in Threads : WF_vars(Continue(t)) /\ SF_vars(TakeLock(t))
  /\ \A o \in Socks : WF_vars(Worker(o))
  /\ WF_vars(nn_global_submit_statistics)
-----------------------------------------------------------------------------
\* The process does not end by an error of nanomsg, however the calls of the
\* threads overlap, unless nn_bind, nn_connect or nn_setsockopt overlaps with
\* nn_close of the same socket, nn_term comes while there are endpoints or a
\* socket is being closed, or statistics are collected (the worker looks at
\* sockets that nn_close has almost deallocated).
SafeUnlessRacing == slip \/ ~Dead

\* A descriptor tells the truth: NN_RCVFD and NN_SNDFD of an active socket
\* are set exactly when the socket type can receive or send, so that nobody
\* waits although there is something to get.
SignalsTrue ==
  \A o \in Socks : sock[o].st = "ACTIVE" /\ ~Dead =>
    \A d \in Dirs : /\ d \in sock[o].flags <=> sock[o].ready[d] > 0
                    /\ sock[o].fd[d] = IF d \in sock[o].flags THEN "signaled" ELSE "idle"

\* The slots not in use are the top of the stack of unused slots, each once.
TableSound ==
  LET free == {unused[i] : i \in 0 .. MaxSockets - nsocks - 1} IN
  /\ free = {s \in Slots : socks[s] = None}
  /\ Cardinality(free) = MaxSockets - nsocks

\* Who refers to socket o: the table, the threads in a call, and twice the
\* one that closes it.
Refs(o) ==
  {<<None, 1>> : x \in {x \in {sock[o]} : x.st \in {"ACTIVE", "ZOMBIE"}}}
    \cup {<<t, 1>> : t \in {t \in Threads : th[t].o = o /\ th[t].pc \notin {"termsem", "relesem", "fini", "free"}}}
    \cup {<<t, 2>> : t \in {t \in Threads : th[t].o = o /\ th[t].n = 2}}

Ended(o) == \E t \in Threads : th[t].o = o /\ th[t].pc \in {"fini", "free"}

Stage(o) ==
  CASE sock[o].st = "NEW" -> "new"
    [] sock[o].st = "FREED" -> "freed"
    [] sock[o].st \notin {"NEW", "FREED"} /\ Ended(o) -> "ending"
    [] sock[o].st \in {"ACTIVE", "ZOMBIE"} /\ ~Ended(o) -> "open"
    [] OTHER -> "closing"

Read(o) == [t \in Threads |-> IF th[t].o = o /\ th[t].pc \in {"write", "store"} THEN th[t].reg ELSE -1]

Life(o) == INSTANCE Lifetime WITH Table <- None, st <- Stage(o), holds <- sock[o].holds,
                                  refs <- Refs(o), reg <- Read(o), relesem <- sock[o].relesem

\* The calls use a socket as its holds allow (Lifetime), so that no thread
\* refers to memory that nn_close has given back.
ImplementsLifetime ==
  /\ \A o \in Socks : Life(o)!Init
  /\ [][\A o \in Socks : Life(o)!Next \/ UNCHANGED Life(o)!vars]_vars

\* A decrement of nn_close and one of another thread have overwritten each other.
HoldsLost == \E o \in Socks : sock[o].st \notin {"NEW", "FREED"} /\ sock[o].holds > Cardinality(Refs(o))

\* The worker waits for the global lock with a context its owner waits for,
\* or the owner waits for the worker to end.
Embrace ==
  \E t \in Threads : glock = t /\ stats.at # -1 /\
    \/ th[t].pc = "exit"
    \/ th[t].pc = "stop" /\ stats.in = th[t].o
    \/ th[t].pc = "zombify" /\ \E s \in th[t].todo : stats.in = socks[s]

\* A thread that waits in nn_recv or nn_send is released when another one
\* closes the socket or calls nn_term.
Released ==
  \A t \in Threads : (th[t].pc = "wait" /\ sock[th[t].o].st # "ACTIVE") ~> (th[t].pc # "wait" \/ Dead)

\* nn_close returns unless a decrement was lost or the worker and a caller
\* wait for each other.
CloseReturns == \A t \in Threads : (th[t].op = "close") ~> (th[t].op # "close" \/ HoldsLost \/ Embrace \/ Dead)
=============================================================================
