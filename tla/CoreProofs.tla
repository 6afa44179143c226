----------------------------- MODULE CoreProofs -----------------------------
(***************************************************************************)
(* The core is safe apart from its known races, and implements Lifetime,   *)
(* for any number of threads, sockets, slots, endpoints and messages.      *)
(*                                                                         *)
(* One invariant carries all theorems.  That no reference is left when a   *)
(* socket ends (Covered) needs to know which calls refer to it and that    *)
(* nobody else closes it (Calls, Table); that no assertion fails (Orderly) *)
(* needs both, and the truth of the descriptors (Signals).                 *)
(*                                                                         *)
(* One lemma per action shows that it keeps all but Covered (Safe) and is, *)
(* for each socket, a step of Lifetime or none (Follows).  Then come what  *)
(* the steps of Lifetime do to the counter of a socket, which is Covered;  *)
(* what depends on the number of slots, which the lemmas that need it      *)
(* assume; and the theorems.                                               *)
(***************************************************************************)
EXTENDS Core, TLAPS

\* Zenon, which decides most steps of these proofs, is tried before the solver.
USE Zenon, SMTT(30)

\* The states of a socket, and the ways in which the process may end.
States == {"NEW", "ACTIVE", "ZOMBIE", "STOPPING_EPS", "STOPPING", "FINI", "FREED"}
Errors == {"no", "nn_efd_unsignal", "nn_list_empty", "nn_ctx_enter", "ZOMBIFY", "NN_EP_STOPPED", "NN_PIPE", "sockbase",
           "nn_list_term"}

\* What a socket, a call and the state as a whole are made of.
SockObj ==
  [st : States, holds : Int, eid : Nat, eps : SUBSET Nat, sdeps : SUBSET Nat, flags : SUBSET Dirs,
   fd : [Dirs -> {"idle", "signaled", "closed", "lost"}], ready : [Dirs -> Nat],
   stop : BOOLEAN, termsem : Nat, relesem : Int, ctx : BOOLEAN, bad : Errors]

\* Where a call has the global lock, and where it refers to a socket.
Locking == {"write", "stop", "zombify", "exit"}
Dropping == {"drop", "store"}
Ending == {"relesem", "fini", "free"}
Closing == Dropping \cup {"termsem"} \cup Ending
Using == {"held", "wait", "woken", "rele", "write", "stop"} \cup Closing

\* The place, the operation and the data of a call.
Call == [pc : Using \cup {"idle", "zombify", "exit"}, op : Ops \cup {"none", "close"}, o : Socks \cup {None},
         s : Slots \cup {0}, reg : Nat, n : 0 .. 2, todo : SUBSET Slots]

\* The types of all variables.
Types ==
  /\ glock \in Threads \cup {None} /\ zombie \in BOOLEAN /\ slip \in BOOLEAN
  /\ socks \in [Slots -> Socks \cup {None}] /\ unused \in [Slots -> Slots] /\ nsocks \in 0 .. MaxSockets
  /\ sock \in [Socks -> SockObj] /\ th \in [Threads -> Call]
  /\ stats \in [mode : {"off", "print", "socket"}, at : Int, in : Socks \cup {None}, rounds : Nat]

\* A thread in a call refers to a socket that has been created, the one that
\* closes it to a socket that is in its slot and closed by nobody else.
InCall(t) ==
  /\ th[t].pc \in Locking => glock = t
  /\ IF th[t].pc \in Using THEN th[t].o \in Socks /\ sock[th[t].o].st # "NEW" ELSE th[t].o = None
  /\ IF th[t].pc \in Dropping THEN th[t].n \in {1, 2} ELSE th[t].n = 0
  /\ th[t].pc \in Closing \cup {"stop"} => th[t].s \in Slots /\ socks[th[t].s] = th[t].o
  /\ th[t].pc = "stop" => sock[th[t].o].st = "ACTIVE" /\ ~zombie
  /\ th[t].pc \in Closing => sock[th[t].o].st \in {"STOPPING_EPS", "STOPPING", "FINI"}
  /\ th[t].pc \in Ending => sock[th[t].o].st = "FINI"
  /\ th[t].pc \in Closing => \A u \in Threads \ {t} : th[u].pc \in Closing => th[u].o # th[t].o
  /\ th[t].pc = "zombify" => \A s \in th[t].todo : socks[s] # None
  /\ th[t].pc = "exit" => \A s \in Slots : socks[s] = None

\* So it is with every thread.
Calls == \A t \in Threads : InCall(t)

\* A socket is in one slot from its creation to the end of nn_close.
Table ==
  /\ \A s, r \in Slots : socks[s] = socks[r] /\ socks[s] # None => s = r
  /\ \A s \in Slots : socks[s] # None => sock[socks[s]].st \notin {"NEW", "FREED"}
  /\ \A o \in Socks : sock[o].st \notin {"NEW", "FREED"} => \E s \in Slots : socks[s] = o
  /\ \A o \in Socks : sock[o].termsem > 0 => sock[o].st = "FINI"
  /\ \A o \in Socks : sock[o].st = "ACTIVE" => sock[o].ctx

\* The unused slots: the part of the stack below the top has each of them once.
Stack ==
  /\ \A i, j \in 0 .. MaxSockets - nsocks - 1 : unused[i] = unused[j] => i = j
  /\ TableSound

\* What a descriptor shows, and what the flags say.
Shown(x) == \A d \in Dirs : x.fd[d] = IF d \in x.flags THEN "signaled" ELSE "idle"
Told(x) == x.st = "ACTIVE" /\ x.bad = "no" => Shown(x) /\ \A d \in Dirs : d \in x.flags <=> x.ready[d] > 0
Signals == \A o \in Socks : Told(sock[o])

\* Without the overlaps that slip stands for: endpoints are left only where
\* their end is expected, nobody is about to add one to a socket that goes or
\* to ask its type for an option, and nn_term finds active sockets only.
Orderly ==
  ~slip =>
    /\ ~Dead /\ stats.mode = "off" /\ stats.at = -1 /\ stats.in = None
    /\ \A o \in Socks : /\ sock[o].st \notin {"ACTIVE", "STOPPING_EPS"} => sock[o].eps = {} /\ sock[o].sdeps = {}
                        /\ sock[o].st = "STOPPING_EPS" => sock[o].eps = {}
    /\ \A t \in Threads : th[t].pc = "held" /\ th[t].op = "bind" => sock[th[t].o].st = "ACTIVE" /\ ~zombie
    /\ \A t \in Threads : th[t].pc = "held" /\ th[t].op = "opt" => sock[th[t].o].st \in {"ACTIVE", "ZOMBIE"}
    /\ zombie => \A s \in Slots : socks[s] # None =>
                   /\ sock[socks[s]].st \in {"ACTIVE", "ZOMBIE"}
                   /\ sock[socks[s]].eps = {} /\ sock[socks[s]].sdeps = {}
    /\ \A t \in Threads : th[t].pc = "zombify" =>
         zombie /\ \A s \in th[t].todo : sock[socks[s]].st = "ACTIVE"

\* The counter, and whatever a thread has read of it, is never below the
\* number of references.  Together with the table's reference, which an open
\* socket has, this makes the first post of the semaphore the last decrement.
Covered(o) ==
  /\ Stage(o) \in {"new", "open", "closing", "ending", "freed"}
  /\ IsFiniteSet(Refs(o)) /\ Refs(o) \subseteq (Threads \cup {None}) \X {1, 2}
  /\ sock[o].holds \in Nat /\ sock[o].holds >= Cardinality(Refs(o))
  /\ Read(o) \in [Threads -> Nat \cup {-1}]
  /\ \A t \in Threads : Read(o)[t] # -1 => Read(o)[t] >= Cardinality(Refs(o))
  /\ sock[o].relesem \in Nat
  /\ Stage(o) = "new" => Refs(o) = {} /\ sock[o].holds = 1 /\ \A t \in Threads : Read(o)[t] = -1
  /\ Stage(o) \in {"new", "open"} => sock[o].relesem = 0 /\ \A t \in Threads : <<t, 2>> \notin Refs(o)
  /\ Stage(o) = "open" => <<None, 1>> \in Refs(o)
  /\ Stage(o) \in {"ending", "freed"} \/ sock[o].relesem > 0 => Refs(o) = {}

\* The inductive invariant, and the part of it that is shown action by action.
Inv == Types /\ Calls /\ Table /\ Stack /\ Signals /\ Orderly /\ \A o \in Socks : Covered(o)
Safe == Types /\ Calls /\ Table /\ Stack /\ Signals /\ Orderly

\* A step is one of Lifetime, or none, for each socket.
Follows == \A p \in Socks : Life(p)!Next \/ UNCHANGED Life(p)!vars

-----------------------------------------------------------------------------
\* What steps have in common.

\* All that a stay in the context does not owe to nn_sock_onleave.
Kept(x, y) ==
  /\ y.st = x.st /\ y.holds = x.holds /\ y.eid = x.eid /\ y.eps = x.eps /\ y.sdeps = x.sdeps
  /\ y.stop = x.stop /\ y.termsem = x.termsem /\ y.relesem = x.relesem /\ y.ctx = x.ctx /\ y.bad = x.bad

\* The end of a stay puts flags and descriptors in order and does nothing else,
\* provided that the descriptors showed what the flags say.
LEMMA OnLeave ==
  ASSUME NEW x \in SockObj, x.st = "ACTIVE" => Shown(x)
  PROVE  /\ nn_sock_onleave(x) \in SockObj
         /\ Kept(x, nn_sock_onleave(x)) /\ Told(nn_sock_onleave(x))
<1> DEFINE on == {d \in Dirs : x.ready[d] > 0}
           clear == x.flags \ on
           fd == [d \in Dirs |-> CASE d \in on \ x.flags -> "signaled" [] d \in clear -> "idle" [] OTHER -> x.fd[d]]
           y == [x EXCEPT !.flags = on, !.fd = fd]
<1>1. CASE x.st # "ACTIVE"
  <2>1. nn_sock_onleave(x) = x
    BY <1>1 DEF nn_sock_onleave
  <2> QED
    BY <1>1, <2>1 DEF Kept, Told
<1>2. CASE x.st = "ACTIVE"
  <2>1. Shown(x) /\ x.flags \subseteq Dirs /\ x.ready \in [Dirs -> Nat]
        /\ x.fd \in [Dirs -> {"idle", "signaled", "closed", "lost"}]
    BY <1>2 DEF SockObj
  <2>2. ~\E d \in clear : x.fd[d] # "signaled"
    BY <2>1 DEF Shown
  <2>3. nn_sock_onleave(x) = y
    BY <1>2, <2>2 DEF nn_sock_onleave
  <2>4. fd \in [Dirs -> {"idle", "signaled", "closed", "lost"}] /\ on \subseteq Dirs
    BY <2>1
  <2>5. \A d \in Dirs : fd[d] = IF d \in on THEN "signaled" ELSE "idle"
    BY <2>1 DEF Shown
  <2> HIDE DEF fd, on
  <2>6. y \in SockObj /\ Kept(x, y) /\ y.flags = on /\ y.fd = fd /\ y.ready = x.ready
    BY <2>4 DEF SockObj, Kept
  <2>7. Told(y)
    BY <2>5, <2>6 DEF Told, Shown, on
  <2> QED
    BY <2>3, <2>6, <2>7
<1> QED
  BY <1>1, <1>2

\* A stay in the context of o that ends in x.
LEMMA LeaveIs ==
  ASSUME Types, NEW o \in Socks, NEW x \in SockObj, x.st = "ACTIVE" => Shown(x), Leave(o, x)
  PROVE  /\ sock' \in [Socks -> SockObj] /\ \A p \in Socks \ {o} : sock'[p] = sock[p]
         /\ Kept(x, sock'[o]) /\ Told(sock'[o])
<1>1. nn_sock_onleave(x) \in SockObj /\ Kept(x, nn_sock_onleave(x)) /\ Told(nn_sock_onleave(x))
  BY OnLeave
<1> DEFINE y == nn_sock_onleave(x)
<1>2. sock' = [sock EXCEPT ![o] = y] /\ sock \in [Socks -> SockObj]
  BY DEF Leave, Types
<1> HIDE DEF y
<1>3. sock'[o] = y /\ \A p \in Socks \ {o} : sock'[p] = sock[p]
  BY <1>2
<1>4. sock' \in [Socks -> SockObj]
  BY <1>1, <1>2 DEF y
<1> QED
  BY <1>1, <1>3, <1>4 DEF y

\* What Lifetime sees of a socket depends on its state, its counters and the
\* calls that refer to it.
Phase(x) == IF x.st \in {"ACTIVE", "ZOMBIE"} THEN "open"
            ELSE IF x.st \in {"NEW", "FREED"} THEN x.st ELSE "closing"

\* A step that leaves these alone is none for Lifetime.
LEMMA SameLife ==
  ASSUME NEW o \in Socks, Phase(sock'[o]) = Phase(sock[o]),
         sock'[o].holds = sock[o].holds, sock'[o].relesem = sock[o].relesem,
         \A t \in Threads :
           /\ th'[t].o = o <=> th[t].o = o
           /\ th[t].o = o =>
                /\ th'[t].pc \in {"termsem", "relesem", "fini", "free"} <=> th[t].pc \in {"termsem", "relesem", "fini", "free"}
                /\ th'[t].pc \in {"fini", "free"} <=> th[t].pc \in {"fini", "free"}
                /\ th'[t].pc \in {"write", "store"} <=> th[t].pc \in {"write", "store"}
                /\ th'[t].n = th[t].n /\ th'[t].reg = th[t].reg
  PROVE  UNCHANGED Life(o)!vars
<1>1. Stage(o)' = Stage(o)
  BY DEF Stage, Ended, Phase
<1>2. Refs(o)' = Refs(o)
  BY DEF Refs, Phase
<1>3. Read(o)' = Read(o)
  BY DEF Read
<1> QED
  BY <1>1, <1>2, <1>3 DEF Life!vars

\* A step of another thread leaves a call where it is.
LEMMA StillInCall ==
  ASSUME NEW u \in Threads, InCall(u), th'[u] = th[u],
         th[u].pc \in Locking => glock' = glock,
         th[u].o \in Socks => \/ sock'[th[u].o].st = sock[th[u].o].st
                              \/ sock'[th[u].o].st # "NEW" /\ th[u].pc \notin Closing \cup {"stop"},
         th[u].pc \in Closing \cup {"stop"} => socks'[th[u].s] = socks[th[u].s],
         th[u].pc = "stop" => zombie' = zombie,
         th[u].pc \in {"zombify", "exit"} => socks' = socks,
         th[u].pc \in Closing => \A v \in Threads \ {u} : th'[v].pc \in Closing => th'[v].o # th[u].o
  PROVE  InCall(u)'
<1>1. /\ th[u].pc \in Closing => th[u].pc \in Using
      /\ th[u].pc = "stop" => th[u].pc \in Using
      /\ th[u].pc \in Ending => th[u].pc \in Using
  BY DEF Using, Closing
<1>2. th[u].pc \in Using => th[u].o \in Socks
  BY DEF InCall
<1>3. th[u].pc \in Ending => th[u].pc \in Closing
  BY DEF Closing
<1> QED
  BY <1>1, <1>2, <1>3 DEF InCall

\* A call that refers to a socket goes on without a change of the socket's life.
LEMMA UserStep ==
  ASSUME Inv, NEW t \in Threads, th[t].pc \in {"held", "wait", "woken"},
         NEW pc \in {"wait", "woken", "rele"}, Goto(t, pc), Local,
         sock' \in [Socks -> SockObj],
         \A o \in Socks : /\ sock'[o].st = sock[o].st /\ sock'[o].holds = sock[o].holds
                          /\ sock'[o].termsem = sock[o].termsem /\ sock'[o].relesem = sock[o].relesem
                          /\ sock'[o].ctx = sock[o].ctx
  PROVE  Types' /\ Calls' /\ Table' /\ Stack' /\ \A o \in Socks : UNCHANGED Life(o)!vars
<1> Types /\ Calls /\ Table /\ Stack
  BY DEF Inv
<1>2. th \in [Threads -> Call] /\ th' = [th EXCEPT ![t].pc = pc]
  BY DEF Types, Goto
<1>3. /\ th' \in [Threads -> Call] /\ th'[t] = [th[t] EXCEPT !.pc = pc]
      /\ \A u \in Threads \ {t} : th'[u] = th[u]
  BY <1>2 DEF Call, Using
<1>4. /\ th'[t].pc = pc /\ th'[t].op = th[t].op /\ th'[t].o = th[t].o /\ th'[t].s = th[t].s
      /\ th'[t].reg = th[t].reg /\ th'[t].n = th[t].n /\ th'[t].todo = th[t].todo
  BY <1>2, <1>3 DEF Call
<1>5. Types'
  BY <1>3 DEF Types, Local
<1>6. ASSUME NEW u \in Threads
      PROVE  InCall(u)'
  <2>1. InCall(u)
    BY DEF Calls
  <2>2. CASE u = t
    <3>1. /\ pc \in Using /\ pc \notin Locking /\ pc \notin Dropping /\ pc \notin Closing /\ pc \notin Ending
          /\ pc \notin {"stop", "zombify", "exit"} /\ th[t].pc \in Using /\ th[t].pc \notin Dropping
      BY DEF Locking, Using, Closing, Dropping, Ending
    <3>2. th[t].o \in Socks /\ sock[th[t].o].st # "NEW" /\ th[t].n = 0
      BY <2>1, <2>2, <3>1 DEF InCall
    <3> QED
      BY <1>4, <2>2, <3>1, <3>2 DEF InCall
  <2>3. CASE u # t
    <3>1. th'[u] = th[u] /\ th'[t].pc \notin Closing
      BY <1>3, <1>4, <2>3 DEF Closing, Dropping, Ending
    <3>2. glock' = glock /\ socks' = socks /\ zombie' = zombie
      BY DEF Local
    <3>3. th[u].pc \in Closing => \A v \in Threads \ {u} : th'[v].pc \in Closing => th'[v].o # th[u].o
      BY <1>3, <2>1, <3>1 DEF InCall
    <3> QED
      BY <2>1, <3>1, <3>2, <3>3, StillInCall
  <2> QED
    BY <2>2, <2>3
<1>7. Table'
  BY DEF Types, Table, Local
<1>8. Stack'
  BY DEF Stack, TableSound, Local
<1>9. ASSUME NEW o \in Socks
      PROVE  UNCHANGED Life(o)!vars
  <2>1. Phase(sock'[o]) = Phase(sock[o])
    BY DEF Phase
  <2>2. \A u \in Threads :
           /\ th'[u].o = o <=> th[u].o = o
           /\ th[u].o = o =>
                /\ th'[u].pc \in {"termsem", "relesem", "fini", "free"} <=> th[u].pc \in {"termsem", "relesem", "fini", "free"}
                /\ th'[u].pc \in {"fini", "free"} <=> th[u].pc \in {"fini", "free"}
                /\ th'[u].pc \in {"write", "store"} <=> th[u].pc \in {"write", "store"}
                /\ th'[u].n = th[u].n /\ th'[u].reg = th[u].reg
    BY <1>3, <1>4
  <2> QED
    BY <2>1, <2>2, SameLife
<1> QED
  BY <1>5, <1>6, <1>7, <1>8, <1>9 DEF Calls

\* The socket type or an endpoint goes on: at most, a socket that is being
\* closed comes nearer to its end.
Advance(x, y) ==
  /\ y.holds = x.holds /\ y.relesem = x.relesem /\ y.ctx = x.ctx
  /\ \/ y.st = x.st /\ y.termsem = x.termsem
     \/ x.st \in {"STOPPING_EPS", "STOPPING"} /\ y.st = "STOPPING" /\ y.termsem = x.termsem
     \/ x.st \in {"STOPPING_EPS", "STOPPING"} /\ y.st = "FINI"

\* Such a step keeps the calls, the table and Lifetime's view of the sockets.
LEMMA WorkerStep ==
  ASSUME Inv, NEW o \in Socks, UNCHANGED th, Local, sock' \in [Socks -> SockObj],
         \A p \in Socks \ {o} : sock'[p] = sock[p], Advance(sock[o], sock'[o])
  PROVE  Types' /\ Calls' /\ Table' /\ Stack' /\ \A p \in Socks : UNCHANGED Life(p)!vars
<1> Types /\ Calls /\ Table /\ Stack
  BY DEF Inv
<1>2. Types'
  BY DEF Types, Local
<1>3. Calls'
  BY DEF Types, Calls, InCall, Local, Advance, Locking, Using, Closing, Dropping, Ending
<1>4. Table'
  BY DEF Types, Table, Local, Advance
<1>5. Stack'
  BY DEF Stack, TableSound, Local
<1>6. ASSUME NEW p \in Socks
      PROVE  UNCHANGED Life(p)!vars
  BY SameLife DEF Phase, Advance
<1> QED
  BY <1>2, <1>3, <1>4, <1>5, <1>6

\* As long as no error has ended the process, the descriptors of an active
\* socket show what its flags say.
LEMMA Alive ==
  ASSUME Inv, ~Dead, NEW o \in Socks
  PROVE  sock[o] \in SockObj /\ sock[o].bad = "no" /\ (sock[o].st = "ACTIVE" => Shown(sock[o]))
  BY DEF Inv, Types, Dead, Signals, Told

\* The same for a whole stay in the context: a socket that is orderly stays so.
LEMMA WorkerInv ==
  ASSUME Inv, NEW o \in Socks, UNCHANGED th, Local,
         NEW y \in SockObj, Leave(o, y), y.st = "ACTIVE" => Shown(y), Advance(sock[o], y),
         ~slip => /\ y.bad = "no" /\ y.eps \subseteq sock[o].eps /\ y.sdeps \subseteq sock[o].sdeps
                  /\ y.st \notin {"ACTIVE", "STOPPING_EPS"} => y.eps = {} /\ y.sdeps = {}
  PROVE  Safe' /\ Follows
<1> Types /\ Signals /\ Orderly /\ \A p \in Socks : Covered(p)
  BY DEF Inv
<1>2. /\ sock' \in [Socks -> SockObj] /\ \A p \in Socks \ {o} : sock'[p] = sock[p]
      /\ Kept(y, sock'[o]) /\ Told(sock'[o])
  BY LeaveIs
<1>3. Advance(sock[o], sock'[o])
  BY <1>2 DEF Kept, Advance
<1>4. Types' /\ Calls' /\ Table' /\ Stack' /\ \A p \in Socks : UNCHANGED Life(p)!vars
  BY <1>2, <1>3, WorkerStep
<1>5. Signals'
  BY <1>2 DEF Signals
<1>6. Orderly'
  <2> SUFFICES ASSUME ~slip'
               PROVE  Orderly'
    BY DEF Orderly
  <2>1. ~slip /\ zombie' = zombie /\ socks' = socks /\ stats' = stats
    BY DEF Local
  <2>2. /\ \A p \in Socks : sock'[p].st # sock[p].st => sock[p].st \in {"STOPPING_EPS", "STOPPING"}
        /\ \A p \in Socks : sock'[p].eps \subseteq sock[p].eps /\ sock'[p].sdeps \subseteq sock[p].sdeps
        /\ sock'[o].st \notin {"ACTIVE", "STOPPING_EPS"} => sock'[o].eps = {} /\ sock'[o].sdeps = {}
        /\ sock'[o].bad = "no"
    BY <1>2, <1>3, <2>1 DEF Kept, Advance
  <2>3. ~Dead'
    BY <1>2, <2>1, <2>2 DEF Orderly, Dead
  <2>4. \A p \in Socks : /\ sock'[p].st \notin {"ACTIVE", "STOPPING_EPS"} => sock'[p].eps = {} /\ sock'[p].sdeps = {}
                         /\ sock'[p].st = "STOPPING_EPS" => sock'[p].eps = {}
    BY <1>2, <1>3, <2>1, <2>2 DEF Orderly, Advance
  <2>5. \A t \in Threads : th[t].pc = "held" => th[t].o \in Socks
    BY DEF Inv, Calls, InCall, Using
  <2>6. \A t \in Threads : th[t].pc = "zombify" => \A s \in th[t].todo : s \in Slots /\ socks[s] \in Socks
    BY DEF Inv, Calls, InCall, Types, Call
  <2>7. zombie => \A s \in Slots : socks[s] # None =>
                   /\ sock'[socks[s]].st \in {"ACTIVE", "ZOMBIE"}
                   /\ sock'[socks[s]].eps = {} /\ sock'[socks[s]].sdeps = {}
    BY <2>1, <2>2 DEF Orderly, Types
  <2>8. \A t \in Threads : th[t].pc = "zombify" =>
         zombie /\ \A s \in th[t].todo : sock'[socks[s]].st = "ACTIVE"
    BY <2>1, <2>2, <2>6 DEF Orderly
  <2>9. /\ \A t \in Threads : th[t].pc = "held" /\ th[t].op = "bind" => sock'[th[t].o].st = "ACTIVE" /\ ~zombie
        /\ \A t \in Threads : th[t].pc = "held" /\ th[t].op = "opt" => sock'[th[t].o].st \in {"ACTIVE", "ZOMBIE"}
    BY <2>1, <2>2, <2>5 DEF Orderly
  <2> QED
    BY <2>1, <2>3, <2>4, <2>7, <2>8, <2>9 DEF Orderly
<1> QED
  BY <1>4, <1>5, <1>6 DEF Safe, Follows

\* An error changes nothing else.
LEMMA BadIs ==
  ASSUME NEW x \in SockObj, NEW what \in Errors
  PROVE  /\ Bad(x, what) \in SockObj /\ Advance(x, Bad(x, what)) /\ Bad(x, what).st = x.st
         /\ Bad(x, what).eps = x.eps /\ Bad(x, what).sdeps = x.sdeps
         /\ Bad(x, what).termsem = x.termsem /\ Bad(x, what).ctx = x.ctx
         /\ Bad(x, what).holds = x.holds /\ Bad(x, what).relesem = x.relesem
  BY DEF Bad, SockObj, Advance

\* The end of the socket type leaves endpoints and counters of holds alone.
LEMMA Finish1Is ==
  ASSUME NEW x \in SockObj
  PROVE  /\ Finish1(x) \in SockObj /\ Finish1(x).st = "FINI" /\ Finish1(x).bad = x.bad
         /\ Finish1(x).eps = x.eps /\ Finish1(x).sdeps = x.sdeps
         /\ Finish1(x).holds = x.holds /\ Finish1(x).relesem = x.relesem /\ Finish1(x).ctx = x.ctx
<1> DEFINE fd == [d \in Dirs |-> IF x.fd[d] = "signaled" THEN "closed" ELSE "lost"]
<1>1. fd \in [Dirs -> {"idle", "signaled", "closed", "lost"}] /\ x.termsem + 1 \in Nat
  BY DEF SockObj
<1>2. Finish1(x) = [x EXCEPT !.st = "FINI", !.termsem = @ + 1, !.fd = fd]
  BY DEF Finish1, SockObj
<1> HIDE DEF fd
<1> QED
  BY <1>1, <1>2 DEF SockObj, States

\* The socket goes on to its end only when no endpoint is left.
LEMMA Finish2Is ==
  ASSUME NEW x \in SockObj, x.st = "STOPPING_EPS"
  PROVE  /\ Finish2(x) \in SockObj /\ Advance(x, Finish2(x))
         /\ Finish2(x).eps = x.eps /\ Finish2(x).sdeps = x.sdeps
         /\ x.eps = {} => Finish2(x).bad = x.bad
         /\ Finish2(x).st # "STOPPING_EPS" => x.eps = {} /\ x.sdeps = {}
         /\ Finish2(x).st \in {"STOPPING_EPS", "STOPPING", "FINI"}
<1>1. CASE x.sdeps # {}
  <2>1. Finish2(x) = x
    BY <1>1 DEF Finish2
  <2> QED
    BY <2>1 DEF Advance
<1>2. CASE x.sdeps = {} /\ x.eps # {}
  <2>1. Finish2(x) = Bad(x, "nn_list_empty")
    BY <1>2 DEF Finish2
  <2> QED
    BY <1>2, <2>1, BadIs DEF Errors
<1>3. CASE x.sdeps = {} /\ x.eps = {} /\ x.stop
  <2>1. Finish2(x) = [x EXCEPT !.st = "STOPPING"]
    BY <1>3 DEF Finish2
  <2> QED
    BY <1>3, <2>1 DEF Advance, SockObj, States
<1>4. CASE x.sdeps = {} /\ x.eps = {} /\ ~x.stop
  <2>1. Finish2(x) = Finish1(x)
    BY <1>4 DEF Finish2
  <2> QED
    BY <1>4, <2>1, Finish1Is DEF Advance
<1> QED
  BY <1>1, <1>2, <1>3, <1>4

\* NN_EP_STOPPED.
LEMMA EpStoppedKeeps ==
  ASSUME Inv, NEW o \in Socks, NEW e \in 1 .. MaxEps, EpStopped(o, e)
  PROVE  Safe' /\ Follows
<1> DEFINE x == sock[o]
           z == [x EXCEPT !.sdeps = @ \ {e}]
           y == nn_ep_stopped(x, e)
<1>1. ~Dead /\ e \in x.sdeps /\ Leave(o, y) /\ UNCHANGED th /\ Local
  BY DEF EpStopped
<1>2. x \in SockObj /\ x.bad = "no" /\ (x.st = "ACTIVE" => Shown(x))
  BY <1>1, Alive
<1>3. ~slip => /\ x.st \in {"ACTIVE", "STOPPING_EPS"}
               /\ x.st = "STOPPING_EPS" => x.eps = {}
  BY <1>1 DEF Inv, Orderly
<1> HIDE DEF x
<1>4. /\ z \in SockObj /\ Advance(x, z) /\ (x.st = "ACTIVE" => Shown(z)) /\ z.st = x.st /\ z.bad = x.bad
      /\ z.eps = x.eps /\ z.sdeps = x.sdeps \ {e}
  BY <1>2 DEF SockObj, Advance, Shown
<1>5. /\ y \in SockObj /\ (y.st = "ACTIVE" => Shown(y)) /\ Advance(x, y)
      /\ ~slip => /\ y.bad = "no" /\ y.eps \subseteq x.eps /\ y.sdeps \subseteq x.sdeps
                  /\ y.st \notin {"ACTIVE", "STOPPING_EPS"} => y.eps = {} /\ y.sdeps = {}
  <2>1. CASE x.st = "ACTIVE"
    <3>1. y = z
      BY <2>1 DEF nn_ep_stopped
    <3> QED
      BY <1>2, <1>4, <2>1, <3>1
  <2>2. CASE x.st = "STOPPING_EPS"
    <3>1. y = Finish2(z)
      BY <2>2 DEF nn_ep_stopped
    <3> HIDE DEF y, z
    <3>2. Advance(z, y) /\ y \in SockObj /\ y.st # "ACTIVE" /\ y.eps = x.eps /\ y.sdeps = x.sdeps \ {e}
          /\ (x.eps = {} => y.bad = "no") /\ (y.st # "STOPPING_EPS" => y.eps = {} /\ y.sdeps = {})
      BY <1>2, <1>4, <2>2, <3>1, Finish2Is
    <3>3. Advance(x, y)
      BY <1>4, <2>2, <3>2 DEF Advance
    <3> QED
      BY <1>3, <2>2, <3>2, <3>3
  <2>3. CASE x.st \notin {"ACTIVE", "STOPPING_EPS"}
    <3>1. y = Bad(x, "NN_EP_STOPPED")
      BY <2>3 DEF nn_ep_stopped
    <3>2. y \in SockObj /\ y.st = x.st /\ Advance(x, y)
      BY <1>2, <3>1, BadIs DEF Errors
    <3> QED
      BY <1>3, <2>3, <3>2
  <2> QED
    BY <2>1, <2>2, <2>3
<1> HIDE DEF y
<1> QED
  BY <1>1, <1>5, WorkerInv DEF x

\* The socket type has stopped.
LEMMA StoppedKeeps ==
  ASSUME Inv, NEW o \in Socks, nn_sock_stopped(o)
  PROVE  Safe' /\ Follows
<1> DEFINE y == Finish1(sock[o])
<1>1. ~Dead /\ sock[o].st = "STOPPING" /\ Leave(o, y) /\ UNCHANGED th /\ Local
  BY DEF nn_sock_stopped
<1>2. sock[o] \in SockObj /\ sock[o].bad = "no"
  BY <1>1, Alive
<1>3. y \in SockObj /\ y.st = "FINI" /\ y.bad = "no" /\ Advance(sock[o], y) /\ y.eps = sock[o].eps /\ y.sdeps = sock[o].sdeps
  BY <1>1, <1>2, Finish1Is DEF Advance
<1>4. ~slip => sock[o].eps = {} /\ sock[o].sdeps = {}
  BY <1>1 DEF Inv, Orderly
<1> HIDE DEF y
<1> QED
  BY <1>1, <1>3, <1>4, WorkerInv

\* NN_PIPE_IN and NN_PIPE_OUT: only an active socket learns of a pipe, and
\* without slip no other has one.
LEMMA PipeReadyKeeps ==
  ASSUME Inv, NEW o \in Socks, NEW d \in Dirs, PipeReady(o, d)
  PROVE  Safe' /\ Follows
<1> DEFINE x == sock[o]
           y == Pipe(x, d)
<1>1. ~Dead /\ HasPipe(o) /\ Leave(o, y) /\ UNCHANGED th /\ Local
  BY DEF PipeReady
<1>2. x \in SockObj /\ x.bad = "no" /\ (x.st = "ACTIVE" => Shown(x))
  BY <1>1, Alive
<1>3. ~slip => x.st \in {"ACTIVE", "STOPPING_EPS"}
  BY <1>1 DEF Inv, Orderly, HasPipe
<1> HIDE DEF x
<1>4. y \in SockObj /\ (x.st = "ACTIVE" => Shown(y)) /\ y.st = x.st /\ Advance(x, y)
      /\ y.eps = x.eps /\ y.sdeps = x.sdeps /\ (~slip => y.bad = "no")
  <2>1. CASE x.st = "ACTIVE"
    <3>1. y = [x EXCEPT !.ready[d] = @ + 1]
      BY <2>1 DEF Pipe
    <3> QED
      BY <1>2, <3>1 DEF SockObj, Advance, Shown
  <2>2. CASE x.st = "STOPPING_EPS"
    BY <1>2, <2>2 DEF Pipe, Advance
  <2>3. CASE x.st \notin {"ACTIVE", "STOPPING_EPS"}
    <3>1. y = Bad(x, "NN_PIPE")
      BY <2>3 DEF Pipe
    <3> QED
      BY <1>2, <1>3, <2>3, <3>1, BadIs DEF Errors
  <2> QED
    BY <2>1, <2>2, <2>3
<1> HIDE DEF y
<1> QED
  BY <1>1, <1>3, <1>4, WorkerInv DEF x

\* A pipe goes.
LEMMA PipeGoneKeeps ==
  ASSUME Inv, NEW o \in Socks, PipeGone(o)
  PROVE  Safe' /\ Follows
<1> DEFINE x == sock[o]
           y == nn_sock_rm(x)
<1>1. ~Dead /\ HasPipe(o) /\ Leave(o, y) /\ UNCHANGED th /\ Local
  BY DEF PipeGone
<1>2. x \in SockObj /\ x.bad = "no" /\ (x.st = "ACTIVE" => Shown(x))
  BY <1>1, Alive
<1>3. ~slip => x.st \in {"ACTIVE", "STOPPING_EPS"}
  BY <1>1 DEF Inv, Orderly, HasPipe
<1> HIDE DEF x
<1>4. y \in SockObj /\ (x.st = "ACTIVE" => Shown(y)) /\ y.st = x.st /\ y.bad = x.bad /\ Advance(x, y)
      /\ y.eps = x.eps /\ y.sdeps = x.sdeps
  BY <1>2 DEF nn_sock_rm, SockObj, Advance, Shown
<1> HIDE DEF y
<1> QED
  BY <1>1, <1>2, <1>3, <1>4, WorkerInv DEF x

-----------------------------------------------------------------------------
\* The calls that use a socket.

\* A stay of a call in the context: endpoints come only where they may.
LEMMA UserInv ==
  ASSUME Inv, NEW t \in Threads, th[t].pc \in {"held", "woken"},
         NEW pc \in {"wait", "rele"}, Goto(t, pc), Local,
         NEW o \in Socks, o = th[t].o, NEW x, x = sock[o],
         NEW y \in SockObj, Leave(o, y), y.st = "ACTIVE" => Shown(y),
         y.st = x.st, y.holds = x.holds, y.termsem = x.termsem, y.relesem = x.relesem, y.ctx = x.ctx,
         ~slip => /\ y.bad = "no"
                  /\ (y.eps = x.eps /\ y.sdeps = x.sdeps) \/ (x.st = "ACTIVE" /\ ~zombie)
  PROVE  Safe' /\ Follows
<1> Types /\ Calls /\ Signals /\ Orderly /\ \A p \in Socks : Covered(p)
  BY DEF Inv
<1>3. /\ sock' \in [Socks -> SockObj] /\ \A p \in Socks \ {o} : sock'[p] = sock[p]
      /\ Kept(y, sock'[o]) /\ Told(sock'[o])
  BY LeaveIs
<1>4. \A p \in Socks : /\ sock'[p].st = sock[p].st /\ sock'[p].holds = sock[p].holds
                       /\ sock'[p].termsem = sock[p].termsem /\ sock'[p].relesem = sock[p].relesem
                       /\ sock'[p].ctx = sock[p].ctx
  BY <1>3 DEF Kept
<1>5. Types' /\ Calls' /\ Table' /\ Stack' /\ \A p \in Socks : UNCHANGED Life(p)!vars
  BY <1>3, <1>4, UserStep
<1>6. Signals'
  BY <1>3 DEF Signals
<1>7. Orderly'
  <2> SUFFICES ASSUME ~slip'
               PROVE  Orderly'
    BY DEF Orderly
  <2>1. ~slip /\ zombie' = zombie /\ socks' = socks /\ stats' = stats
    BY DEF Local
  <2>2. /\ sock'[o].bad = "no"
        /\ (sock'[o].eps = sock[o].eps /\ sock'[o].sdeps = sock[o].sdeps) \/ (sock[o].st = "ACTIVE" /\ ~zombie)
    BY <1>3, <2>1 DEF Kept
  <2>3. ~Dead'
    <3>1. \A p \in Socks : sock[p].bad = "no"
      BY <2>1 DEF Orderly, Dead
    <3> QED
      BY <1>3, <2>2, <3>1 DEF Dead
  <2>4. \A p \in Socks : /\ sock'[p].st \notin {"ACTIVE", "STOPPING_EPS"} => sock'[p].eps = {} /\ sock'[p].sdeps = {}
                         /\ sock'[p].st = "STOPPING_EPS" => sock'[p].eps = {}
    BY <1>3, <1>4, <2>1, <2>2 DEF Orderly
  <2>5. th'[t].pc # "held" /\ th'[t].pc # "zombify" /\ \A u \in Threads \ {t} : th'[u] = th[u]
    BY DEF Goto, Types, Call
  <2>6. \A u \in Threads : th[u].pc = "held" => th[u].o \in Socks
    BY DEF Calls, InCall, Using
  <2>7. \A u \in Threads : th[u].pc = "zombify" => \A s \in th[u].todo : s \in Slots /\ socks[s] \in Socks
    BY DEF Calls, InCall, Types, Call
  <2>8. zombie => \A s \in Slots : socks[s] # None =>
                   /\ sock'[socks[s]].st \in {"ACTIVE", "ZOMBIE"}
                   /\ sock'[socks[s]].eps = {} /\ sock'[socks[s]].sdeps = {}
    BY <1>3, <1>4, <2>1, <2>2 DEF Orderly, Types
  <2>9. \A u \in Threads : th'[u].pc = "zombify" =>
         zombie /\ \A s \in th'[u].todo : sock'[socks[s]].st = "ACTIVE"
    <3>1. \A u \in Threads : th[u].pc = "zombify" => zombie /\ \A s \in th[u].todo : sock[socks[s]].st = "ACTIVE"
      BY <2>1 DEF Orderly
    <3> QED
      BY <1>4, <2>5, <2>7, <3>1
  <2>10. /\ \A u \in Threads : th'[u].pc = "held" /\ th'[u].op = "bind" => sock'[th'[u].o].st = "ACTIVE" /\ ~zombie
         /\ \A u \in Threads : th'[u].pc = "held" /\ th'[u].op = "opt" => sock'[th'[u].o].st \in {"ACTIVE", "ZOMBIE"}
    BY <1>4, <2>1, <2>5, <2>6 DEF Orderly
  <2> QED
    BY <2>1, <2>3, <2>4, <2>8, <2>9, <2>10 DEF Orderly
<1> QED
  BY <1>5, <1>6, <1>7 DEF Safe, Follows

\* nn_recv and nn_send.  The flag that a woken thread sets is the one its
\* descriptor shows.
LEMMA TransferKeeps ==
  ASSUME Inv, NEW t \in Threads, Transfer(t)
  PROVE  Safe' /\ Follows
<1> DEFINE o == th[t].o
           d == th[t].op
           w == sock[o]
           x == IF th[t].pc = "woken" /\ w.fd[d] = "signaled" THEN [w EXCEPT !.flags = @ \cup {d}] ELSE w
           z == [x EXCEPT !.ready[d] = @ - 1]
<1>1. ~Dead /\ th[t].pc \in {"held", "woken"} /\ d \in Dirs /\ Local
  BY DEF Transfer
<1>2. o \in Socks
  BY <1>1 DEF Inv, Calls, InCall, Using
<1>3. w \in SockObj /\ w.bad = "no" /\ (w.st = "ACTIVE" => Shown(w))
  BY <1>1, <1>2, Alive
<1>4. \/ x.st # "ACTIVE" /\ Leave(o, x) /\ Goto(t, "rele")
      \/ x.st = "ACTIVE" /\ x.ready[d] > 0 /\ Leave(o, z) /\ Goto(t, "rele")
      \/ Leave(o, x) /\ \E pc \in {"rele", "wait"} : Goto(t, pc)
  BY DEF Transfer
<1> HIDE DEF o, d, w
<1>5. /\ x \in SockObj /\ (x.st = "ACTIVE" => Shown(x)) /\ x.bad = "no"
      /\ x.st = w.st /\ x.holds = w.holds /\ x.termsem = w.termsem /\ x.relesem = w.relesem /\ x.ctx = w.ctx
      /\ x.eps = w.eps /\ x.sdeps = w.sdeps
  <2>1. CASE th[t].pc = "woken" /\ w.fd[d] = "signaled"
    <3>1. x = [w EXCEPT !.flags = @ \cup {d}]
      BY <2>1
    <3>2. w.flags \cup {d} \subseteq Dirs
      BY <1>1, <1>3 DEF SockObj
    <3> HIDE DEF x
    <3>3. x \in SockObj /\ x.flags = w.flags \cup {d} /\ x.fd = w.fd /\ x.st = w.st
      BY <1>3, <3>1, <3>2 DEF SockObj
    <3>4. w.st = "ACTIVE" => Shown(x)
      BY <1>3, <2>1, <3>3 DEF Shown
    <3> QED
      BY <1>3, <3>1, <3>3, <3>4 DEF SockObj
  <2>2. CASE ~(th[t].pc = "woken" /\ w.fd[d] = "signaled")
    BY <1>3, <2>2
  <2> QED
    BY <2>1, <2>2
<1> HIDE DEF x
<1>6. x.ready[d] > 0 =>
        /\ z \in SockObj /\ (x.st = "ACTIVE" => Shown(z)) /\ z.bad = "no"
        /\ z.st = x.st /\ z.holds = x.holds /\ z.termsem = x.termsem /\ z.relesem = x.relesem /\ z.ctx = x.ctx
        /\ z.eps = x.eps /\ z.sdeps = x.sdeps
  BY <1>1, <1>5 DEF SockObj, Shown
<1> HIDE DEF z
<1>7. PICK y \in SockObj, pc \in {"wait", "rele"} :
        /\ Leave(o, y) /\ Goto(t, pc) /\ (y.st = "ACTIVE" => Shown(y)) /\ y.bad = "no"
        /\ y.st = w.st /\ y.holds = w.holds /\ y.termsem = w.termsem /\ y.relesem = w.relesem /\ y.ctx = w.ctx
        /\ y.eps = w.eps /\ y.sdeps = w.sdeps
  BY <1>4, <1>5, <1>6
<1>8. o = th[t].o /\ w = sock[o]
  BY DEF o, w
<1>9. y \in SockObj /\ pc \in {"wait", "rele"}
  BY <1>7
<1>10. th[t].pc \in {"held", "woken"} /\ Local /\ Goto(t, pc) /\ Leave(o, y)
  BY <1>1, <1>7
<1> QED
  BY <1>2, <1>7, <1>8, <1>9, <1>10, UserInv

\* A wait ends: the call goes on and no socket changes.
LEMMA WaitEnds ==
  ASSUME Inv, NEW t \in Threads, th[t].pc = "wait", NEW pc \in {"woken", "rele"}, Goto(t, pc), UNCHANGED sock, Local
  PROVE  Safe' /\ Follows
<1> Types /\ Signals /\ Orderly /\ \A p \in Socks : Covered(p)
  BY DEF Inv
<1>2. Types' /\ Calls' /\ Table' /\ Stack' /\ \A p \in Socks : UNCHANGED Life(p)!vars
  <2>1. sock' \in [Socks -> SockObj]
    BY DEF Types
  <2>2. th[t].pc \in {"held", "wait", "woken"} /\ pc \in {"wait", "woken", "rele"}
    OBVIOUS
  <2>3. \A o \in Socks : /\ sock'[o].st = sock[o].st /\ sock'[o].holds = sock[o].holds
                         /\ sock'[o].termsem = sock[o].termsem /\ sock'[o].relesem = sock[o].relesem
                         /\ sock'[o].ctx = sock[o].ctx
    OBVIOUS
  <2> QED
    BY <2>1, <2>2, <2>3, UserStep
<1>3. Signals'
  BY DEF Signals, Told, Shown
<1>4. th'[t].pc # "held" /\ th'[t].pc # "zombify" /\ \A u \in Threads \ {t} : th'[u] = th[u]
  BY DEF Goto, Types, Call
<1>5. Orderly'
  BY <1>4 DEF Orderly, Local, Dead
<1> QED
  BY <1>2, <1>3, <1>5 DEF Safe, Follows

\* nn_bind and nn_connect.  Without slip the socket is active.
LEMMA AddEpKeeps ==
  ASSUME Inv, NEW t \in Threads, nn_sock_add_ep(t)
  PROVE  Safe' /\ Follows
<1> DEFINE o == th[t].o
           x == sock[o]
           z == [x EXCEPT !.eps = @ \cup {x.eid}, !.eid = @ + 1]
<1>1. ~Dead /\ th[t].pc = "held" /\ th[t].op = "bind" /\ Local /\ Goto(t, "rele") /\ (Leave(o, x) \/ Leave(o, z))
  BY DEF nn_sock_add_ep, At
<1>2. o \in Socks
  BY <1>1 DEF Inv, Calls, InCall, Using
<1>3. x \in SockObj /\ x.bad = "no" /\ (x.st = "ACTIVE" => Shown(x))
  BY <1>1, <1>2, Alive
<1>4. ~slip => x.st = "ACTIVE" /\ ~zombie
  BY <1>1 DEF Inv, Orderly
<1>5. o = th[t].o /\ x = sock[o]
  OBVIOUS
<1> HIDE DEF o, x
<1>6. /\ z \in SockObj /\ (z.st = "ACTIVE" => Shown(z)) /\ z.bad = "no"
      /\ z.st = x.st /\ z.holds = x.holds /\ z.termsem = x.termsem /\ z.relesem = x.relesem /\ z.ctx = x.ctx
  <2>1. x.eps \cup {x.eid} \in SUBSET Nat /\ x.eid + 1 \in Nat
    BY <1>3 DEF SockObj
  <2> DEFINE eps == x.eps \cup {x.eid}
             eid == x.eid + 1
  <2> HIDE DEF eps, eid
  <2>2. z = [x EXCEPT !.eps = eps, !.eid = eid] /\ eps \in SUBSET Nat /\ eid \in Nat
    BY <1>3, <2>1 DEF SockObj, eps, eid
  <2> HIDE DEF z
  <2> QED
    BY <1>3, <2>2 DEF SockObj, Shown
<1> HIDE DEF z
<1>7. PICK y \in {x, z} : Leave(o, y)
  BY <1>1
<1>8. /\ y \in SockObj /\ (y.st = "ACTIVE" => Shown(y)) /\ y.bad = "no"
      /\ y.st = x.st /\ y.holds = x.holds /\ y.termsem = x.termsem /\ y.relesem = x.relesem /\ y.ctx = x.ctx
  BY <1>3, <1>6, <1>7
<1> QED
  BY <1>1, <1>2, <1>4, <1>5, <1>7, <1>8, UserInv

\* nn_shutdown.  Without slip a socket with endpoints of its own is active,
\* and there is none after nn_term.
LEMMA RmEpKeeps ==
  ASSUME Inv, NEW t \in Threads, nn_sock_rm_ep(t)
  PROVE  Safe' /\ Follows
<1> DEFINE o == th[t].o
           x == sock[o]
           z(e) == [x EXCEPT !.eps = @ \ {e}, !.sdeps = @ \cup {e}]
<1>1. ~Dead /\ th[t].pc = "held" /\ Local /\ Goto(t, "rele") /\ (Leave(o, x) \/ \E e \in x.eps : Leave(o, z(e)))
  BY DEF nn_sock_rm_ep, At
<1>2. o \in Socks
  BY <1>1 DEF Inv, Calls, InCall, Using
<1>3. x \in SockObj /\ x.bad = "no" /\ (x.st = "ACTIVE" => Shown(x))
  BY <1>1, <1>2, Alive
<1>4. ~slip /\ x.eps # {} => x.st = "ACTIVE" /\ ~zombie
  <2>1. ~slip /\ x.eps # {} => x.st = "ACTIVE"
    BY <1>1, <1>2 DEF Inv, Orderly
  <2>2. x.st = "ACTIVE" => \E s \in Slots : socks[s] = o /\ socks[s] # None
    BY <1>2, CoreAssumption DEF Inv, Table
  <2> QED
    BY <2>1, <2>2 DEF Inv, Orderly
<1>5. o = th[t].o /\ x = sock[o]
  OBVIOUS
<1> HIDE DEF o, x
<1>6. ASSUME NEW e \in x.eps
      PROVE  /\ z(e) \in SockObj /\ (z(e).st = "ACTIVE" => Shown(z(e))) /\ z(e).bad = "no"
             /\ z(e).st = x.st /\ z(e).holds = x.holds /\ z(e).termsem = x.termsem
             /\ z(e).relesem = x.relesem /\ z(e).ctx = x.ctx
  <2> DEFINE eps == x.eps \ {e}
             sdeps == x.sdeps \cup {e}
  <2>1. eps \in SUBSET Nat /\ sdeps \in SUBSET Nat
    BY <1>3 DEF SockObj
  <2>2. z(e) = [x EXCEPT !.eps = eps, !.sdeps = sdeps]
    BY <1>3 DEF SockObj
  <2> HIDE DEF eps, sdeps, z
  <2> QED
    BY <1>3, <2>1, <2>2 DEF SockObj, Shown
<1> HIDE DEF z
<1>7. PICK y : Leave(o, y) /\ (y = x \/ \E e \in x.eps : y = z(e))
  BY <1>1
<1>8. /\ y \in SockObj /\ (y.st = "ACTIVE" => Shown(y)) /\ y.bad = "no"
      /\ y.st = x.st /\ y.holds = x.holds /\ y.termsem = x.termsem /\ y.relesem = x.relesem /\ y.ctx = x.ctx
      /\ y = x \/ x.eps # {}
  BY <1>3, <1>6, <1>7
<1> QED
  BY <1>1, <1>2, <1>4, <1>5, <1>7, <1>8, UserInv

\* nn_setsockopt and nn_getsockopt.  Without slip the socket type is there.
LEMMA SetOptKeeps ==
  ASSUME Inv, NEW t \in Threads, nn_sock_setopt(t)
  PROVE  Safe' /\ Follows
<1> DEFINE o == th[t].o
           x == sock[o]
           y == IF x.st = "FINI" THEN Bad(x, "sockbase") ELSE x
<1>1. ~Dead /\ th[t].pc = "held" /\ th[t].op = "opt" /\ Local /\ Goto(t, "rele") /\ Leave(o, y)
  BY DEF nn_sock_setopt, At
<1>2. o \in Socks
  BY <1>1 DEF Inv, Calls, InCall, Using
<1>3. x \in SockObj /\ x.bad = "no" /\ (x.st = "ACTIVE" => Shown(x))
  BY <1>1, <1>2, Alive
<1>4. ~slip => x.st # "FINI"
  BY <1>1 DEF Inv, Orderly
<1>5. o = th[t].o /\ x = sock[o]
  OBVIOUS
<1> HIDE DEF o, x
<1>6. /\ Bad(x, "sockbase") \in SockObj /\ Bad(x, "sockbase").st = x.st /\ Bad(x, "sockbase").holds = x.holds
      /\ Bad(x, "sockbase").termsem = x.termsem /\ Bad(x, "sockbase").relesem = x.relesem
      /\ Bad(x, "sockbase").ctx = x.ctx
  BY <1>3, BadIs DEF Errors
<1>7. /\ y \in SockObj /\ (y.st = "ACTIVE" => Shown(y))
      /\ y.st = x.st /\ y.holds = x.holds /\ y.termsem = x.termsem /\ y.relesem = x.relesem /\ y.ctx = x.ctx
      /\ ~slip => y = x
  BY <1>3, <1>4, <1>6
<1> HIDE DEF y
<1> QED
  BY <1>1, <1>2, <1>3, <1>5, <1>7, UserInv

-----------------------------------------------------------------------------
\* The calls that count holds and wait for semaphores.

\* What Lifetime sees of a socket that no changed call refers to.
LEMMA OtherLife ==
  ASSUME NEW p \in Socks, sock'[p] = sock[p], NEW t \in Threads,
         \A u \in Threads \ {t} : th'[u] = th[u], th[t].o # p, th'[t].o # p
  PROVE  UNCHANGED Life(p)!vars
<1>1. Phase(sock'[p]) = Phase(sock[p]) /\ sock'[p].holds = sock[p].holds /\ sock'[p].relesem = sock[p].relesem
  BY DEF Phase
<1>2. \A u \in Threads :
           /\ th'[u].o = p <=> th[u].o = p
           /\ th[u].o = p => th'[u] = th[u]
  OBVIOUS
<1> QED
  BY <1>1, <1>2, SameLife

\* Only counters and the context of a socket that has ended change.
Same(x, y) ==
  /\ y.st = x.st /\ y.eps = x.eps /\ y.sdeps = x.sdeps /\ y.flags = x.flags /\ y.fd = x.fd /\ y.ready = x.ready
  /\ y.termsem > 0 => x.termsem > 0
  /\ x.st = "ACTIVE" => y.ctx = x.ctx /\ y.bad = x.bad
  /\ y.bad = x.bad \/ slip

\* A step of thread t that leaves the table alone.
LEMMA CallStep ==
  ASSUME Inv, NEW t \in Threads, UNCHANGED <<zombie, socks, unused, nsocks, stats, slip>>,
         glock' = glock \/ (glock \in {None, t} /\ glock' \in {None, t}),
         sock' \in [Socks -> SockObj], \A p \in Socks : Same(sock[p], sock'[p]),
         th' \in [Threads -> Call], \A u \in Threads \ {t} : th'[u] = th[u], InCall(t)',
         th'[t].pc \in Closing => th[t].pc \in Closing /\ th'[t].o = th[t].o,
         th'[t].pc = "held" => th'[t].o \in Socks /\ sock[th'[t].o].st = "ACTIVE" /\ ~zombie,
         th'[t].pc # "zombify"
  PROVE  Types' /\ Calls' /\ Table' /\ Stack' /\ Signals' /\ Orderly'
<1> Types /\ Calls /\ Table /\ Stack /\ Signals /\ Orderly
  BY DEF Inv
<1>2. Types'
  BY DEF Types
<1>3. ASSUME NEW u \in Threads \ {t}
      PROVE  InCall(u)'
  <2>1. InCall(u) /\ th'[u] = th[u]
    BY DEF Calls
  <2>2. th[u].pc \in Locking => glock' = glock
    BY <2>1, CoreAssumption DEF InCall
  <2>3. th[u].o \in Socks => sock'[th[u].o].st = sock[th[u].o].st
    BY DEF Same
  <2>4. th[u].pc \in Closing => \A v \in Threads \ {u} : th'[v].pc \in Closing => th'[v].o # th[u].o
    BY <2>1 DEF InCall
  <2> QED
    BY <2>1, <2>2, <2>3, <2>4, StillInCall
<1>4. Calls'
  BY <1>3 DEF Calls
<1>5. Table'
  BY DEF Types, Table, Same
<1>6. Stack'
  BY DEF Stack, TableSound
<1>7. Signals'
  BY DEF Signals, Told, Shown, Same
<1>8. Orderly'
  <2> SUFFICES ASSUME ~slip
               PROVE  Orderly'
    BY DEF Orderly
  <2>1. /\ \A p \in Socks : /\ sock'[p].st = sock[p].st /\ sock'[p].bad = sock[p].bad
                            /\ sock'[p].eps = sock[p].eps /\ sock'[p].sdeps = sock[p].sdeps
    BY DEF Same
  <2>2. ~Dead'
    BY <2>1 DEF Orderly, Dead
  <2>3. \A u \in Threads : th[u].pc = "held" => th[u].o \in Socks
    BY DEF Calls, InCall, Using
  <2>4. \A u \in Threads : th[u].pc = "zombify" => \A s \in th[u].todo : s \in Slots /\ socks[s] \in Socks
    BY DEF Calls, InCall, Types, Call
  <2>5. \A p \in Socks : /\ sock'[p].st \notin {"ACTIVE", "STOPPING_EPS"} => sock'[p].eps = {} /\ sock'[p].sdeps = {}
                         /\ sock'[p].st = "STOPPING_EPS" => sock'[p].eps = {}
    BY <2>1 DEF Orderly
  <2>6. zombie => \A s \in Slots : socks[s] # None =>
                   /\ sock'[socks[s]].st \in {"ACTIVE", "ZOMBIE"}
                   /\ sock'[socks[s]].eps = {} /\ sock'[socks[s]].sdeps = {}
    BY <2>1 DEF Orderly, Types
  <2>7. \A u \in Threads : th'[u].pc = "zombify" =>
         zombie /\ \A s \in th'[u].todo : sock'[socks[s]].st = "ACTIVE"
    BY <2>1, <2>4 DEF Orderly
  <2>8. /\ \A u \in Threads : th'[u].pc = "held" /\ th'[u].op = "bind" => sock'[th'[u].o].st = "ACTIVE" /\ ~zombie
        /\ \A u \in Threads : th'[u].pc = "held" /\ th'[u].op = "opt" => sock'[th'[u].o].st \in {"ACTIVE", "ZOMBIE"}
    BY <2>1, <2>3 DEF Orderly
  <2> QED
    BY <2>2, <2>5, <2>6, <2>7, <2>8 DEF Orderly
<1> QED
  BY <1>2, <1>4, <1>5, <1>6, <1>7, <1>8

\* Nobody is in the middle of a decrement of an active socket when the lock is
\* free, or near its end.
LEMMA ActiveIsOpen ==
  ASSUME Inv, NEW o \in Socks, sock[o].st \in {"ACTIVE", "ZOMBIE"}
  PROVE  /\ Stage(o) = "open"
         /\ \A u \in Threads : th[u].o = o => th[u].pc \notin Closing
         /\ glock = None => \A u \in Threads : Read(o)[u] = -1
<1>1. \A u \in Threads : th[u].o = o => th[u].pc \notin Closing
  BY DEF Inv, Calls, InCall
<1>2. ~Ended(o)
  BY <1>1 DEF Ended, Closing, Ending
<1>3. Stage(o) = "open"
  BY <1>2 DEF Stage
<1>4. glock = None => \A u \in Threads : th[u].pc # "write"
  BY CoreAssumption DEF Inv, Calls, InCall, Locking
<1>5. \A u \in Threads : th[u].o = o => th[u].pc # "store"
  BY <1>1 DEF Closing, Dropping
<1> QED
  BY <1>1, <1>3, <1>4, <1>5 DEF Read

\* Who refers to a socket, one by one, before and after a step.
LEMMA RefsAre ==
  ASSUME NEW o \in Socks, NEW r
  PROVE  /\ r \in Refs(o) <=>
              \/ r = <<None, 1>> /\ sock[o].st \in {"ACTIVE", "ZOMBIE"}
              \/ \E u \in Threads : r = <<u, 1>> /\ th[u].o = o /\ th[u].pc \notin {"termsem", "relesem", "fini", "free"}
              \/ \E u \in Threads : r = <<u, 2>> /\ th[u].o = o /\ th[u].n = 2
         /\ r \in Refs(o)' <=>
              \/ r = <<None, 1>> /\ sock'[o].st \in {"ACTIVE", "ZOMBIE"}
              \/ \E u \in Threads : r = <<u, 1>> /\ th'[u].o = o /\ th'[u].pc \notin {"termsem", "relesem", "fini", "free"}
              \/ \E u \in Threads : r = <<u, 2>> /\ th'[u].o = o /\ th'[u].n = 2
  BY DEF Refs

\* A step that changes the counters of a socket and nothing else.
Count(x, h, r) == [x EXCEPT !.holds = h, !.relesem = r]

\* It leaves a socket that has its type and is otherwise the same.
LEMMA Counted ==
  ASSUME NEW x \in SockObj, NEW h \in Int, NEW r \in Int, NEW y,
         y = Count(x, h, r) \/ (r = x.relesem /\ y = [x EXCEPT !.holds = h])
  PROVE  y \in SockObj /\ Same(x, y) /\ y.holds = h /\ y.relesem = r
<1>1. CASE y = Count(x, h, r)
  <2>1. y \in SockObj /\ y.holds = h /\ y.relesem = r
    BY <1>1 DEF Count, SockObj
  <2>2. Same(x, y)
    BY <1>1 DEF Count, SockObj, Same
  <2> QED
    BY <2>1, <2>2
<1>2. CASE r = x.relesem /\ y = [x EXCEPT !.holds = h]
  <2>1. y \in SockObj /\ y.holds = h /\ y.relesem = r
    BY <1>2 DEF SockObj
  <2>2. Same(x, y)
    BY <1>2 DEF SockObj, Same
  <2> QED
    BY <2>1, <2>2
<1> QED
  BY <1>1, <1>2

\* A call begins with a hold, nn_close among them.
LEMMA HoldKeeps ==
  ASSUME Inv, NEW t \in Threads, NEW s \in Slots, NEW o \in Socks, o = socks[s],
         th[t].pc = "idle", glock = None, CanHold(s),
         NEW pc, NEW op, (pc = "held" /\ op \in Ops /\ glock' = None) \/ (pc = "stop" /\ op = "close" /\ glock' = t),
         sock' = [sock EXCEPT ![o].holds = @ + 1],
         th' = [th EXCEPT ![t] = [Idle EXCEPT !.pc = pc, !.op = op, !.o = o, !.s = s]],
         UNCHANGED <<zombie, socks, unused, nsocks, stats, slip>>
  PROVE  Safe' /\ Follows
<1> DEFINE c == [Idle EXCEPT !.pc = pc, !.op = op, !.o = o, !.s = s]
<1> Types /\ Calls /\ \A p \in Socks : Covered(p)
  BY DEF Inv
<1>2. sock[o].st = "ACTIVE" /\ ~zombie
  BY DEF CanHold
<1>3. c \in Call /\ c.pc = pc /\ c.op = op /\ c.o = o /\ c.s = s /\ c.n = 0
  <2>1. pc \in Using /\ op \in Ops \cup {"close"}
    BY DEF Using
  <2>2. c = [Idle EXCEPT !.pc = pc, !.op = op, !.o = o, !.s = s]
    OBVIOUS
  <2>3. Idle \in Call /\ Idle.n = 0
    BY DEF Idle, Call
  <2> HIDE DEF c
  <2> QED
    BY <2>1, <2>2, <2>3 DEF Call
<1>4. th' = [th EXCEPT ![t] = c]
  OBVIOUS
<1> HIDE DEF c
<1>5. th' \in [Threads -> Call] /\ th'[t] = c /\ \A u \in Threads \ {t} : th'[u] = th[u]
  BY <1>3, <1>4 DEF Types
<1>6. /\ sock' \in [Socks -> SockObj] /\ \A p \in Socks \ {o} : sock'[p] = sock[p]
      /\ sock'[o] = [sock[o] EXCEPT !.holds = @ + 1] /\ sock[o] \in SockObj
  <2>1. sock \in [Socks -> SockObj]
    BY DEF Types
  <2>2. sock[o].holds + 1 \in Int
    BY <2>1 DEF SockObj
  <2>3. [sock[o] EXCEPT !.holds = @ + 1] \in SockObj
    <3> DEFINE x == sock[o]
               h == x.holds + 1
               y == [x EXCEPT !.holds = h]
    <3>1. x \in SockObj /\ x.relesem \in Int /\ h \in Int
      BY <2>1, <2>2 DEF SockObj
    <3>2. y = [x EXCEPT !.holds = h]
      OBVIOUS
    <3>3. [sock[o] EXCEPT !.holds = @ + 1] = y
      OBVIOUS
    <3> HIDE DEF x, h, y
    <3>4. y \in SockObj
      BY <3>1, <3>2, Counted
    <3> QED
      BY <3>3, <3>4
  <2> QED
    BY <2>1, <2>3
<1>7. \A p \in Socks : Same(sock[p], sock'[p])
  BY <1>6 DEF Same, SockObj
<1>8. InCall(t)'
  <2>1. /\ pc \in Using /\ pc \notin Dropping /\ pc \notin Closing /\ pc \notin Ending /\ pc \notin {"zombify", "exit"}
        /\ pc \in Locking => pc = "stop"
    BY DEF Locking, Using, Closing, Dropping, Ending
  <2>2. sock'[o].st = "ACTIVE"
    BY <1>2, <1>7 DEF Same
  <2> QED
    BY <1>2, <1>3, <1>4, <1>5, <2>1, <2>2 DEF InCall
<1>9. c.pc \notin Closing /\ c.pc # "zombify"
  BY <1>3 DEF Closing, Dropping, Ending
<1>10. Types' /\ Calls' /\ Table' /\ Stack' /\ Signals' /\ Orderly'
  BY <1>2, <1>3, <1>5, <1>6, <1>7, <1>8, <1>9, CallStep
<1>11. th[t].o = None
  BY DEF Calls, InCall, Using, Closing, Dropping, Ending
<1>12. Life(o)!Hold(t)
  <2>1. Stage(o) = "open" /\ (\A u \in Threads : Read(o)[u] = -1)
    BY <1>2, ActiveIsOpen
  <2>2. ~Ended(o)'
    <3>1. \A u \in Threads : th[u].o = o => th[u].pc \notin {"fini", "free"}
      BY <1>2, ActiveIsOpen DEF Closing, Ending
    <3> QED
      BY <1>3, <1>5, <3>1 DEF Ended
  <2>3. sock'[o].st = "ACTIVE" /\ sock'[o].holds = sock[o].holds + 1 /\ sock'[o].relesem = sock[o].relesem
    BY <1>2, <1>6 DEF SockObj
  <2>4. Stage(o)' = "open"
    BY <2>2, <2>3 DEF Stage
  <2>5. Read(o)' = Read(o)
    BY <1>3, <1>5, <1>11, <1>2, CoreAssumption DEF Read
  <2>6. <<t, 1>> \notin Refs(o)
    BY <1>2, <1>11, CoreAssumption DEF Refs
  <2>7. Refs(o)' = Refs(o) \cup {<<t, 1>>}
    <3> SUFFICES ASSUME NEW r
                 PROVE  r \in Refs(o)' <=> r \in Refs(o) \/ r = <<t, 1>>
      OBVIOUS
    <3>0. th[t].o # o /\ pc \in {"held", "stop"}
      BY <1>11, CoreAssumption
    <3>1. th'[t].o = o /\ th'[t].n = 0 /\ th'[t].pc \notin {"termsem", "relesem", "fini", "free"}
      BY <1>3, <1>5, <3>0
    <3> QED
      BY <1>2, <1>5, <2>3, <3>0, <3>1, RefsAre
  <2> QED
    BY <2>1, <2>3, <2>4, <2>5, <2>6, <2>7 DEF Life!Hold, Life!Between
<1>13. \A p \in Socks : Life(p)!Next \/ UNCHANGED Life(p)!vars
  <2>1. Life(o)!Next
    BY <1>12 DEF Life!Next
  <2>2. \A p \in Socks \ {o} : UNCHANGED Life(p)!vars
    BY <1>3, <1>5, <1>6, <1>11, OtherLife, CoreAssumption
  <2> QED
    BY <2>1, <2>2
<1> QED
  BY <1>10, <1>13 DEF Safe, Follows

\* What Lifetime sees of the stage of a socket, for a step that neither begins
\* nor ends it.
LEMMA SameStage ==
  ASSUME NEW o \in Socks, NEW t \in Threads, sock'[o].st = sock[o].st,
         \A u \in Threads \ {t} : th'[u] = th[u],
         (th'[t].o = o /\ th'[t].pc \in {"fini", "free"}) <=> (th[t].o = o /\ th[t].pc \in {"fini", "free"})
  PROVE  Stage(o)' = Stage(o)
<1>1. Ended(o)' <=> Ended(o)
  BY DEF Ended
<1> QED
  BY <1>1 DEF Stage

\* The first half of nn_sock_rele, with the lock or without.
LEMMA ReadKeeps ==
  ASSUME Inv, NEW t \in Threads, NEW o \in Socks, o = th[t].o, NEW pc,
         \/ th[t].pc = "rele" /\ pc = "write" /\ glock = None /\ glock' = t
         \/ th[t].pc = "drop" /\ pc = "store" /\ glock' = glock,
         th' \in [Threads -> Call], \A u \in Threads \ {t} : th'[u] = th[u],
         th'[t].pc = pc, th'[t].o = o, th'[t].n = th[t].n, th'[t].s = th[t].s, th'[t].reg = sock[o].holds,
         UNCHANGED <<zombie, socks, unused, nsocks, sock, stats, slip>>
  PROVE  Safe' /\ Follows
<1> Types /\ Calls /\ InCall(t) /\ \A p \in Socks : Covered(p)
  BY DEF Inv, Calls
<1>2. pc \in {"write", "store"} /\ th[t].pc \in {"rele", "drop"}
  OBVIOUS
<1>3. pc \in Using
  BY <1>2 DEF Using, Closing, Dropping
<1>7. sock' \in [Socks -> SockObj] /\ \A p \in Socks : Same(sock[p], sock'[p])
  BY DEF Types, Same
<1>8. /\ pc \notin Ending /\ pc \notin {"stop", "zombify", "exit", "held"}
      /\ pc \in Dropping <=> th[t].pc \in Dropping
      /\ pc \in Closing <=> th[t].pc \in Closing
      /\ pc \in Locking => glock' = t
      /\ th[t].pc \in Using
  BY DEF Locking, Using, Closing, Dropping, Ending
<1>9. InCall(t)'
  <2>1. pc \in Closing => \A u \in Threads \ {t} : th'[u].pc \in Closing => th'[u].o # o
    BY <1>8 DEF InCall
  <2> QED
    BY <1>3, <1>8, <2>1 DEF InCall
<1>10. Types' /\ Calls' /\ Table' /\ Stack' /\ Signals' /\ Orderly'
  BY <1>7, <1>8, <1>9, CallStep
<1>11. Life(o)!Read(t)
  <2>1. Stage(o)' = Stage(o)
    BY <1>2, SameStage
  <2>2. Refs(o)' = Refs(o)
    <3> SUFFICES ASSUME NEW r
                 PROVE  r \in Refs(o)' <=> r \in Refs(o)
      OBVIOUS
    <3>1. \A u \in Threads :
            /\ th'[u].o = th[u].o /\ th'[u].n = th[u].n
            /\ th'[u].pc \in {"termsem", "relesem", "fini", "free"} <=> th[u].pc \in {"termsem", "relesem", "fini", "free"}
      BY <1>2
    <3> QED
      BY <3>1, RefsAre
  <2>3. <<t, 1>> \in Refs(o)
    BY RefsAre
  <2>4. Read(o)[t] = -1
    BY DEF Read
  <2>5. Read(o)' = [Read(o) EXCEPT ![t] = sock[o].holds]
    BY <1>2 DEF Read
  <2> QED
    BY <2>1, <2>2, <2>3, <2>4, <2>5 DEF Life!Read
<1>12. \A p \in Socks : Life(p)!Next \/ UNCHANGED Life(p)!vars
  <2>1. Life(o)!Next
    BY <1>11 DEF Life!Next
  <2>2. \A p \in Socks \ {o} : UNCHANGED Life(p)!vars
    BY OtherLife
  <2> QED
    BY <2>1, <2>2
<1> QED
  BY <1>10, <1>12 DEF Safe, Follows

\* The second half: one of the references of the thread goes.
LEMMA WriteKeeps ==
  ASSUME Inv, NEW t \in Threads, NEW o \in Socks, o = th[t].o, NEW k \in {1, 2},
         th' \in [Threads -> Call], \A u \in Threads \ {t} : th'[u] = th[u],
         \/ /\ th[t].pc = "write" /\ k = 1 /\ glock' = None /\ th'[t].pc = "idle" /\ th'[t].o = None /\ th'[t].n = 0
         \/ /\ th[t].pc = "store" /\ glock' = glock /\ th'[t].o = o /\ th'[t].s = th[t].s
            /\ \/ th[t].n = 1 /\ k = 1 /\ th'[t].pc = "termsem" /\ th'[t].n = 0
               \/ th[t].n = 2 /\ k = 2 /\ th'[t].pc = "drop" /\ th'[t].n = 1,
         sock' \in [Socks -> SockObj], \A p \in Socks \ {o} : sock'[p] = sock[p], Same(sock[o], sock'[o]),
         sock'[o].holds = th[t].reg - 1,
         sock'[o].relesem = IF th[t].reg = 1 THEN sock[o].relesem + 1 ELSE sock[o].relesem,
         UNCHANGED <<zombie, socks, unused, nsocks, stats, slip>>
  PROVE  Safe' /\ Follows
<1> Types /\ Calls /\ InCall(t) /\ \A p \in Socks : Covered(p)
  BY DEF Inv, Calls
<1>2. /\ th[t].pc \in {"write", "store"} /\ th'[t].pc \in {"idle", "termsem", "drop"} /\ th[t].reg \in Nat
      /\ th[t].pc = "write" => th[t].n = 0
  BY DEF Types, Call, InCall, Dropping
<1>3. \A p \in Socks : Same(sock[p], sock'[p])
  BY DEF Same
<1>4. /\ th'[t].pc \in Closing <=> th[t].pc \in Closing
      /\ th'[t].pc \in Using <=> th[t].pc \in Closing
      /\ th'[t].pc \in Dropping <=> th'[t].pc = "drop"
      /\ th'[t].pc \notin Ending /\ th'[t].pc \notin Locking /\ th[t].pc \in Using
      /\ th[t].pc \in Closing <=> th[t].pc = "store"
      /\ th[t].pc = "write" => th[t].pc \in Locking
  BY <1>2 DEF Locking, Using, Closing, Dropping, Ending
<1>5. InCall(t)'
  <2>1. th[t].pc \in Closing => \A u \in Threads \ {t} : th'[u].pc \in Closing => th'[u].o # o
    BY DEF InCall
  <2>2. sock'[o].st = sock[o].st
    BY DEF Same
  <2>3. th[t].pc \in Closing => th[t].s \in Slots /\ socks[th[t].s] = o /\ sock[o].st \in {"STOPPING_EPS", "STOPPING", "FINI"}
    BY DEF InCall
  <2> QED
    BY <1>2, <1>4, <2>1, <2>2, <2>3 DEF InCall
<1>6. glock' = glock \/ (glock \in {None, t} /\ glock' \in {None, t})
  BY <1>4 DEF InCall
<1>7. Types' /\ Calls' /\ Table' /\ Stack' /\ Signals' /\ Orderly'
  BY <1>2, <1>3, <1>4, <1>5, <1>6, CallStep
<1>8. Life(o)!Write(t)
  <2>1. Stage(o)' = Stage(o)
    BY <1>2, SameStage DEF Same
  <2>2. <<t, k>> \in Refs(o)
    BY <1>2, RefsAre
  <2>3. Refs(o)' = Refs(o) \ {<<t, k>>}
    <3> SUFFICES ASSUME NEW r
                 PROVE  r \in Refs(o)' <=> r \in Refs(o) /\ r # <<t, k>>
      OBVIOUS
    <3>1. sock'[o].st = sock[o].st /\ t # None
      BY CoreAssumption DEF Same
    <3>2. ASSUME NEW u \in Threads \ {t}
          PROVE  th'[u] = th[u]
      OBVIOUS
    <3>3. CASE th[t].pc = "write"
      <4>1. k = 1 /\ th'[t].o # o /\ th[t].n = 0
        BY <1>2, <3>3, CoreAssumption
      <4> QED
        BY <1>2, <3>1, <3>2, <4>1, RefsAre
    <3>4. CASE th[t].pc = "store"
      BY <1>2, <3>1, <3>2, <3>4, RefsAre
    <3> QED
      BY <1>2, <3>3, <3>4
  <2>4. Read(o)[t] = th[t].reg /\ th[t].reg # -1
    BY <1>2 DEF Read
  <2>5. Read(o)' = [Read(o) EXCEPT ![t] = -1]
    BY <1>2 DEF Read
  <2> QED
    BY <2>1, <2>2, <2>3, <2>4, <2>5 DEF Life!Write
<1>9. \A p \in Socks : Life(p)!Next \/ UNCHANGED Life(p)!vars
  <2>1. Life(o)!Next
    BY <1>8 DEF Life!Next
  <2>2. \A p \in Socks \ {o} : UNCHANGED Life(p)!vars
    <3>1. \A p \in Socks \ {o} : th'[t].o # p
      BY CoreAssumption
    <3> QED
      BY <3>1, OtherLife
  <2> QED
    BY <2>1, <2>2
<1> QED
  BY <1>7, <1>9 DEF Safe, Follows

\* The first half of a decrement, as the call records it.
Halfway(t, pc, h) == th' = [th EXCEPT ![t].pc = pc, ![t].reg = h]

\* The call goes on with what it has read and is otherwise the same.
LEMMA HalfDone ==
  ASSUME Types, NEW t \in Threads, NEW pc \in Using, NEW h \in Nat, Halfway(t, pc, h)
  PROVE  /\ th' \in [Threads -> Call] /\ \A u \in Threads \ {t} : th'[u] = th[u]
         /\ th'[t].pc = pc /\ th'[t].o = th[t].o /\ th'[t].n = th[t].n /\ th'[t].s = th[t].s /\ th'[t].reg = h
<1> DEFINE x == th[t]
           y == [x EXCEPT !.pc = pc, !.reg = h]
<1>1. th \in [Threads -> Call] /\ x \in Call /\ th' = [th EXCEPT ![t] = y]
  BY DEF Types, Halfway
<1> HIDE DEF x
<1>2. y \in Call /\ y.pc = pc /\ y.o = x.o /\ y.n = x.n /\ y.s = x.s /\ y.reg = h
  BY <1>1 DEF Call
<1> HIDE DEF y
<1>3. th'[t] = y /\ \A u \in Threads \ {t} : th'[u] = th[u]
  BY <1>1
<1> QED
  BY <1>1, <1>2, <1>3 DEF x

\* The second half: the counter is what was read less one, and the semaphore
\* is posted when that is zero.
LEMMA HoldsDown ==
  ASSUME Types, NEW o \in Socks, NEW g \in Nat,
         sock' = [sock EXCEPT ![o].holds = g - 1, ![o].relesem = IF g = 1 THEN @ + 1 ELSE @]
  PROVE  /\ sock' \in [Socks -> SockObj] /\ \A p \in Socks \ {o} : sock'[p] = sock[p]
         /\ sock'[o].holds = g - 1
         /\ sock'[o].relesem = IF g = 1 THEN sock[o].relesem + 1 ELSE sock[o].relesem
         /\ Same(sock[o], sock'[o])
<1> DEFINE x == sock[o]
           h == g - 1
           r == IF g = 1 THEN x.relesem + 1 ELSE x.relesem
           y == Count(x, h, r)
<1>1. sock \in [Socks -> SockObj] /\ x \in SockObj
  BY DEF Types
<1>2. x.relesem \in Int
  BY <1>1 DEF SockObj
<1>3. h \in Int /\ r \in Int
  BY <1>2
<1>4. sock' = [sock EXCEPT ![o] = y]
  BY <1>1 DEF SockObj, Count
<1>5. y = Count(x, h, r)
  OBVIOUS
<1> HIDE DEF x, h, r, y
<1>6. y \in SockObj /\ Same(x, y) /\ y.holds = h /\ y.relesem = r
  BY <1>1, <1>3, <1>5, Counted
<1>7. sock'[o] = y /\ sock' \in [Socks -> SockObj] /\ \A p \in Socks \ {o} : sock'[p] = sock[p]
  BY <1>1, <1>4, <1>6
<1> QED
  BY <1>6, <1>7 DEF x, h, r

\* nn_sock_rele with the global lock.
LEMMA ReleKeeps ==
  ASSUME Inv, NEW t \in Threads, nn_global_rele_socket(t)
  PROVE  Safe' /\ Follows
<1> Types /\ InCall(t) /\ \A p \in Socks : Covered(p)
  BY DEF Inv, Calls
<1>2. CASE th[t].pc = "rele"
  <2>1. /\ glock = None /\ glock' = t
        /\ th' = [th EXCEPT ![t].pc = "write", ![t].reg = sock[th[t].o].holds]
        /\ UNCHANGED <<zombie, socks, unused, nsocks, sock, stats, slip>>
    BY <1>2 DEF nn_global_rele_socket, At, Unlocked
  <2>2. PICK o \in Socks : o = th[t].o
    BY <1>2 DEF InCall, Using
  <2>3. PICK h \in Nat : h = sock[o].holds
    BY DEF Covered
  <2>4. Halfway(t, "write", h) /\ "write" \in Using
    BY <2>1, <2>2, <2>3 DEF Halfway, Using
  <2>5. /\ th' \in [Threads -> Call] /\ \A u \in Threads \ {t} : th'[u] = th[u]
        /\ th'[t].pc = "write" /\ th'[t].o = th[t].o /\ th'[t].n = th[t].n /\ th'[t].s = th[t].s /\ th'[t].reg = h
    BY <2>4, HalfDone
  <2> QED
    BY <1>2, <2>1, <2>2, <2>3, <2>5, ReadKeeps
<1>3. CASE th[t].pc = "write"
  <2>1. /\ glock' = None /\ th' = [th EXCEPT ![t] = Idle]
        /\ sock' = [sock EXCEPT ![th[t].o].holds = th[t].reg - 1,
                                ![th[t].o].relesem = IF th[t].reg = 1 THEN @ + 1 ELSE @]
        /\ UNCHANGED <<zombie, socks, unused, nsocks, stats, slip>>
    BY <1>3 DEF nn_global_rele_socket, At, Return
  <2>2. PICK o \in Socks : o = th[t].o
    BY <1>3 DEF InCall, Using
  <2>3. PICK g \in Nat : g = th[t].reg
    BY DEF Types, Call
  <2>4. sock' = [sock EXCEPT ![o].holds = g - 1, ![o].relesem = IF g = 1 THEN @ + 1 ELSE @]
    BY <2>1, <2>2, <2>3
  <2>5. /\ sock' \in [Socks -> SockObj] /\ \A p \in Socks \ {o} : sock'[p] = sock[p] /\ Same(sock[o], sock'[o])
        /\ sock'[o].holds = g - 1
        /\ sock'[o].relesem = IF g = 1 THEN sock[o].relesem + 1 ELSE sock[o].relesem
        /\ Same(sock[o], sock'[o])
    BY <2>4, HoldsDown
  <2>6. Idle \in Call /\ Idle.pc = "idle" /\ Idle.o = None /\ Idle.n = 0
    BY DEF Idle, Call
  <2>7. th' \in [Threads -> Call] /\ th'[t] = Idle /\ \A u \in Threads \ {t} : th'[u] = th[u]
    BY <2>1, <2>6 DEF Types
  <2>8. th'[t].pc = "idle" /\ th'[t].o = None /\ th'[t].n = 0
    BY <2>6, <2>7
  <2>9. glock' = None /\ UNCHANGED <<zombie, socks, unused, nsocks, stats, slip>> /\ 1 \in {1, 2}
    BY <2>1
  <2>10. /\ sock'[o].holds = th[t].reg - 1
         /\ sock'[o].relesem = IF th[t].reg = 1 THEN sock[o].relesem + 1 ELSE sock[o].relesem
    BY <2>3, <2>5
  <2> QED
    BY <1>3, <2>2, <2>5, <2>7, <2>8, <2>9, <2>10, WriteKeeps
<1> QED
  BY <1>2, <1>3 DEF nn_global_rele_socket, At

\* nn_sock_rele of nn_close, without it.
LEMMA DropKeeps ==
  ASSUME Inv, NEW t \in Threads, CloseDrop(t)
  PROVE  Safe' /\ Follows
<1> Types /\ InCall(t) /\ \A p \in Socks : Covered(p)
  BY DEF Inv, Calls
<1>2. UNCHANGED <<glock, zombie, socks, unused, nsocks, stats, slip>>
  BY DEF CloseDrop, Local
<1>3. CASE th[t].pc = "drop"
  <2>1. th' = [th EXCEPT ![t].pc = "store", ![t].reg = sock[th[t].o].holds] /\ UNCHANGED sock
    BY <1>3 DEF CloseDrop, At
  <2>2. PICK o \in Socks : o = th[t].o
    BY <1>3 DEF InCall, Using, Closing, Dropping
  <2>3. PICK h \in Nat : h = sock[o].holds
    BY DEF Covered
  <2>4. Halfway(t, "store", h) /\ "store" \in Using
    BY <2>1, <2>2, <2>3 DEF Halfway, Using, Closing, Dropping
  <2>5. /\ th' \in [Threads -> Call] /\ \A u \in Threads \ {t} : th'[u] = th[u]
        /\ th'[t].pc = "store" /\ th'[t].o = th[t].o /\ th'[t].n = th[t].n /\ th'[t].s = th[t].s /\ th'[t].reg = h
    BY <2>4, HalfDone
  <2> QED
    BY <1>2, <1>3, <2>1, <2>2, <2>3, <2>5, ReadKeeps
<1>4. CASE th[t].pc = "store"
  <2> DEFINE pc == IF th[t].n = 1 THEN "termsem" ELSE "drop"
             c == [th[t] EXCEPT !.pc = pc, !.n = @ - 1]
  <2>1. /\ th' = [th EXCEPT ![t].pc = pc, ![t].n = @ - 1]
        /\ sock' = [sock EXCEPT ![th[t].o].holds = th[t].reg - 1,
                                ![th[t].o].relesem = IF th[t].reg = 1 THEN @ + 1 ELSE @]
    BY <1>4 DEF CloseDrop, At
  <2>2. PICK o \in Socks : o = th[t].o
    BY <1>4 DEF InCall, Using, Closing, Dropping
  <2>3. PICK g \in Nat : g = th[t].reg
    BY DEF Types, Call
  <2>4. sock' = [sock EXCEPT ![o].holds = g - 1, ![o].relesem = IF g = 1 THEN @ + 1 ELSE @]
    BY <2>1, <2>2, <2>3
  <2>5. /\ sock' \in [Socks -> SockObj] /\ \A p \in Socks \ {o} : sock'[p] = sock[p] /\ Same(sock[o], sock'[o])
        /\ sock'[o].holds = g - 1
        /\ sock'[o].relesem = IF g = 1 THEN sock[o].relesem + 1 ELSE sock[o].relesem
        /\ Same(sock[o], sock'[o])
    BY <2>4, HoldsDown
  <2>6. PICK n \in {1, 2} : n = th[t].n
    BY <1>4 DEF InCall, Dropping
  <2>7. /\ c \in Call /\ c.pc = pc /\ c.o = o /\ c.n = n - 1 /\ c.s = th[t].s
    <3>1. th[t] \in Call /\ n - 1 \in 0 .. 2 /\ pc \in Using /\ c = [th[t] EXCEPT !.pc = pc, !.n = n - 1]
      BY <2>6 DEF Types, Using, Closing, Dropping
    <3> HIDE DEF pc, c
    <3> QED
      BY <2>2, <2>6, <3>1 DEF Call
  <2>8. th' \in [Threads -> Call] /\ th'[t] = c /\ \A u \in Threads \ {t} : th'[u] = th[u]
    BY <2>1, <2>7 DEF Types
  <2>9. \/ n = 1 /\ pc = "termsem" /\ n - 1 = 0
        \/ n = 2 /\ pc = "drop" /\ n - 1 = 1
    BY <2>6
  <2> HIDE DEF c, pc
  <2>10. \/ th[t].n = 1 /\ n = 1 /\ th'[t].pc = "termsem" /\ th'[t].n = 0
         \/ th[t].n = 2 /\ n = 2 /\ th'[t].pc = "drop" /\ th'[t].n = 1
    BY <2>6, <2>7, <2>8, <2>9
  <2>11. th'[t].o = o /\ th'[t].s = th[t].s
    BY <2>7, <2>8
  <2> QED
    BY <1>2, <1>4, <2>2, <2>3, <2>5, <2>6, <2>8, <2>10, <2>11, WriteKeeps
<1> QED
  BY <1>3, <1>4 DEF CloseDrop, At

\* The record of a call that goes on.
LEMMA GotoIs ==
  ASSUME Types, NEW t \in Threads, NEW pc \in Using, Goto(t, pc)
  PROVE  /\ th' \in [Threads -> Call] /\ \A u \in Threads \ {t} : th'[u] = th[u]
         /\ th'[t].pc = pc /\ th'[t].op = th[t].op /\ th'[t].o = th[t].o /\ th'[t].s = th[t].s
         /\ th'[t].reg = th[t].reg /\ th'[t].n = th[t].n
<1>1. th \in [Threads -> Call] /\ th[t] \in Call /\ th' = [th EXCEPT ![t].pc = pc]
  BY DEF Types, Goto
<1>2. [th[t] EXCEPT !.pc = pc] \in Call
  BY <1>1 DEF Call
<1>3. th' \in [Threads -> Call] /\ th'[t] = [th[t] EXCEPT !.pc = pc] /\ \A u \in Threads \ {t} : th'[u] = th[u]
  BY <1>1, <1>2
<1> QED
  BY <1>1, <1>3 DEF Call

\* nn_sock_term: the next of its waits is over.
LEMMA TermGoesOn ==
  ASSUME Inv, NEW t \in Threads, NEW o \in Socks, o = th[t].o, NEW pc,
         \/ th[t].pc = "termsem" /\ pc = "relesem" /\ sock[o].st = "FINI"
         \/ th[t].pc = "relesem" /\ pc = "fini"
         \/ th[t].pc = "fini" /\ pc = "free",
         Goto(t, pc), Local,
         sock' \in [Socks -> SockObj], \A p \in Socks \ {o} : sock'[p] = sock[p], Same(sock[o], sock'[o])
  PROVE  /\ Types' /\ Calls' /\ Table' /\ Stack' /\ Signals' /\ Orderly'
         /\ \A p \in Socks \ {o} : UNCHANGED Life(p)!vars
<1> Types /\ Calls /\ InCall(t)
  BY DEF Inv, Calls
<1>2. /\ pc \in Using /\ pc \in Ending /\ pc \in Closing /\ pc \notin Locking /\ pc \notin Dropping
      /\ pc \notin {"stop", "zombify", "exit", "held"}
      /\ th[t].pc \in Closing /\ th[t].pc \in Using /\ th[t].pc \notin Dropping
      /\ th[t].pc \in {"relesem", "fini"} => th[t].pc \in Ending
  BY DEF Locking, Using, Closing, Dropping, Ending
<1>3. /\ th' \in [Threads -> Call] /\ \A u \in Threads \ {t} : th'[u] = th[u]
      /\ th'[t].pc = pc /\ th'[t].o = th[t].o /\ th'[t].n = th[t].n /\ th'[t].s = th[t].s
  BY <1>2, GotoIs
<1>4. sock[o].st = "FINI" /\ sock'[o].st = "FINI" /\ th[t].n = 0 /\ th[t].s \in Slots /\ socks[th[t].s] = o
  BY <1>2 DEF InCall, Same
<1>5. InCall(t)'
  <2>1. \A u \in Threads \ {t} : th'[u].pc \in Closing => th'[u].o # o
    BY <1>2, <1>3 DEF InCall
  <2>2. socks' = socks
    BY DEF Local
  <2> QED
    BY <1>2, <1>3, <1>4, <2>1, <2>2 DEF InCall
<1>6. \A p \in Socks : Same(sock[p], sock'[p])
  BY DEF Same
<1>7. UNCHANGED <<zombie, socks, unused, nsocks, stats, slip>> /\ glock' = glock
  BY DEF Local
<1>8. Types' /\ Calls' /\ Table' /\ Stack' /\ Signals' /\ Orderly'
  BY <1>2, <1>3, <1>5, <1>6, <1>7, CallStep
<1>9. \A p \in Socks \ {o} : UNCHANGED Life(p)!vars
  BY <1>3, OtherLife
<1> QED
  BY <1>8, <1>9

\* The wait for the last endpoint is over.
LEMMA TermSemKeeps ==
  ASSUME Inv, NEW t \in Threads, th[t].pc = "termsem", nn_sock_term(t)
  PROVE  Safe' /\ Follows
<1> Types /\ Table /\ InCall(t) /\ \A p \in Socks : Covered(p)
  BY DEF Inv, Calls
<1>2. PICK o \in Socks : o = th[t].o
  BY DEF InCall, Using, Closing
<1>3. sock[o].termsem > 0 /\ sock' = [sock EXCEPT ![o].termsem = @ - 1] /\ Goto(t, "relesem") /\ Local
  BY <1>2 DEF nn_sock_term, At
<1> DEFINE x == sock[o]
           y == [x EXCEPT !.termsem = @ - 1]
<1>4. sock \in [Socks -> SockObj] /\ x \in SockObj /\ sock' = [sock EXCEPT ![o] = y] /\ x.termsem > 0
  BY <1>3 DEF Types
<1> HIDE DEF x
<1>5. y \in SockObj /\ Same(x, y) /\ y.holds = x.holds /\ y.relesem = x.relesem /\ y.st = x.st
  <2> DEFINE k == x.termsem - 1
  <2>1. k \in Nat /\ y = [x EXCEPT !.termsem = k] /\ (k > 0 => x.termsem > 0)
    BY <1>4 DEF SockObj
  <2> HIDE DEF k, y
  <2>2. y \in SockObj /\ y.termsem = k
    BY <1>4, <2>1 DEF SockObj
  <2>3. Same(x, y) /\ y.holds = x.holds /\ y.st = x.st /\ y.relesem = x.relesem
    BY <1>4, <2>1 DEF SockObj, Same
  <2> QED
    BY <1>4, <2>1, <2>2, <2>3 DEF k
<1> HIDE DEF y
<1>6. sock' \in [Socks -> SockObj] /\ sock'[o] = y /\ \A p \in Socks \ {o} : sock'[p] = sock[p]
  BY <1>4, <1>5
<1>7. sock[o].st = "FINI"
  BY <1>3 DEF Table
<1>8. Same(sock[o], sock'[o])
  BY <1>5, <1>6 DEF x
<1>9. /\ Types' /\ Calls' /\ Table' /\ Stack' /\ Signals' /\ Orderly'
      /\ \A p \in Socks \ {o} : UNCHANGED Life(p)!vars
  BY <1>2, <1>3, <1>6, <1>7, <1>8, TermGoesOn
<1>10. UNCHANGED Life(o)!vars
  <2>1. "relesem" \in Using
    BY DEF Using, Closing, Ending
  <2>2. /\ \A u \in Threads \ {t} : th'[u] = th[u]
        /\ th'[t].pc = "relesem" /\ th'[t].o = th[t].o /\ th'[t].reg = th[t].reg /\ th'[t].n = th[t].n
    BY <1>3, <2>1, GotoIs
  <2>3. Phase(sock'[o]) = Phase(sock[o]) /\ sock'[o].holds = sock[o].holds /\ sock'[o].relesem = sock[o].relesem
    BY <1>5, <1>6 DEF Phase, x
  <2> QED
    BY <2>2, <2>3, SameLife
<1>11. \A p \in Socks : UNCHANGED Life(p)!vars
  BY <1>9, <1>10
<1> QED
  BY <1>9, <1>11 DEF Safe, Follows

\* The wait for the last hold is over: the end of the socket begins.
LEMMA ReleSemKeeps ==
  ASSUME Inv, NEW t \in Threads, th[t].pc = "relesem", nn_sock_term(t)
  PROVE  Safe' /\ Follows
<1> Types /\ InCall(t) /\ \A p \in Socks : Covered(p)
  BY DEF Inv, Calls
<1>2. PICK o \in Socks : o = th[t].o
  BY DEF InCall, Using, Closing, Ending
<1>3. sock[o].relesem > 0 /\ sock' = [sock EXCEPT ![o].relesem = @ - 1] /\ Goto(t, "fini") /\ Local
  BY <1>2 DEF nn_sock_term, At
<1> DEFINE x == sock[o]
           y == [x EXCEPT !.relesem = @ - 1]
<1>4. sock \in [Socks -> SockObj] /\ x \in SockObj /\ sock' = [sock EXCEPT ![o] = y]
  BY <1>3 DEF Types
<1> HIDE DEF x
<1>5. y \in SockObj /\ Same(x, y) /\ y.holds = x.holds /\ y.relesem = x.relesem - 1 /\ y.st = x.st
  <2> DEFINE k == x.relesem - 1
  <2>1. k \in Int /\ y = [x EXCEPT !.relesem = k]
    BY <1>4 DEF SockObj
  <2> HIDE DEF k, y
  <2>2. y \in SockObj /\ y.relesem = k
    BY <1>4, <2>1 DEF SockObj
  <2>3. Same(x, y) /\ y.holds = x.holds /\ y.st = x.st
    BY <1>4, <2>1 DEF SockObj, Same
  <2> QED
    BY <1>4, <2>1, <2>2, <2>3 DEF k
<1> HIDE DEF y
<1>6. sock' \in [Socks -> SockObj] /\ sock'[o] = y /\ \A p \in Socks \ {o} : sock'[p] = sock[p]
  BY <1>4, <1>5
<1>7. Same(sock[o], sock'[o])
  BY <1>5, <1>6 DEF x
<1>8. /\ Types' /\ Calls' /\ Table' /\ Stack' /\ Signals' /\ Orderly'
      /\ \A p \in Socks \ {o} : UNCHANGED Life(p)!vars
  BY <1>2, <1>3, <1>6, <1>7, TermGoesOn
<1>9. Life(o)!Wait
  <2>1. "fini" \in Using
    BY DEF Using, Closing, Ending
  <2>2. /\ \A u \in Threads \ {t} : th'[u] = th[u]
        /\ th'[t].pc = "fini" /\ th'[t].o = th[t].o /\ th'[t].reg = th[t].reg /\ th'[t].n = th[t].n
    BY <1>3, <2>1, GotoIs
  <2>3. sock[o].st = "FINI" /\ sock'[o].st = "FINI"
    BY <1>2, <1>5, <1>6 DEF InCall, Ending, x
  <2>4. ~Ended(o)
    <3>1. \A u \in Threads \ {t} : th[u].pc \in Closing => th[u].o # o
      BY <1>2 DEF InCall, Closing, Ending
    <3> QED
      BY <3>1 DEF Ended, Closing, Ending
  <2>5. Ended(o)'
    BY <1>2, <2>2 DEF Ended
  <2>6. Stage(o) = "closing" /\ Stage(o)' = "ending"
    BY <2>3, <2>4, <2>5 DEF Stage
  <2>7. Refs(o)' = Refs(o)
    <3> SUFFICES ASSUME NEW r
                 PROVE  r \in Refs(o)' <=> r \in Refs(o)
      OBVIOUS
    <3>1. \A u \in Threads :
            /\ th'[u].o = th[u].o /\ th'[u].n = th[u].n
            /\ th'[u].pc \in {"termsem", "relesem", "fini", "free"} <=> th[u].pc \in {"termsem", "relesem", "fini", "free"}
      BY <2>2
    <3> QED
      BY <2>3, <3>1, RefsAre
  <2>8. Read(o)' = Read(o)
    BY <2>2 DEF Read
  <2>9. sock'[o].holds = sock[o].holds /\ sock'[o].relesem = sock[o].relesem - 1
    BY <1>5, <1>6 DEF x
  <2> QED
    BY <1>3, <2>6, <2>7, <2>8, <2>9 DEF Life!Wait
<1>10. \A p \in Socks : Life(p)!Next \/ UNCHANGED Life(p)!vars
  BY <1>8, <1>9 DEF Life!Next
<1> QED
  BY <1>8, <1>10 DEF Safe, Follows

\* The socket is taken apart; without slip it has no endpoints.
LEMMA FiniKeeps ==
  ASSUME Inv, NEW t \in Threads, th[t].pc = "fini", nn_sock_term(t)
  PROVE  Safe' /\ Follows
<1> Types /\ InCall(t) /\ Orderly /\ \A p \in Socks : Covered(p)
  BY DEF Inv, Calls
<1>2. PICK o \in Socks : o = th[t].o
  BY DEF InCall, Using, Closing, Ending
<1> DEFINE x == sock[o]
           y == IF x.eps \cup x.sdeps # {} THEN Bad(x, "nn_list_term") ELSE [x EXCEPT !.ctx = FALSE]
<1>3. sock' = [sock EXCEPT ![o] = y] /\ Goto(t, "free") /\ Local
  BY <1>2 DEF nn_sock_term, At
<1>4. sock \in [Socks -> SockObj] /\ x \in SockObj /\ x.st = "FINI"
  BY <1>2 DEF Types, InCall, Ending
<1>5. x.eps \cup x.sdeps # {} => slip
  BY <1>4 DEF Orderly
<1> HIDE DEF x
<1>6. y \in SockObj /\ Same(x, y) /\ y.holds = x.holds /\ y.relesem = x.relesem /\ y.st = x.st
  <2>1. CASE x.eps \cup x.sdeps # {}
    <3>1. y = Bad(x, "nn_list_term")
      BY <2>1
    <3> HIDE DEF y
    <3>2. y \in SockObj
      BY <1>4, <3>1, BadIs DEF Errors
    <3> QED
      BY <1>4, <1>5, <2>1, <3>1, <3>2 DEF SockObj, Bad, Same
  <2>2. CASE x.eps \cup x.sdeps = {}
    <3>1. y = [x EXCEPT !.ctx = FALSE]
      BY <2>2
    <3> HIDE DEF y
    <3> QED
      BY <1>4, <3>1 DEF SockObj, Same
  <2> QED
    BY <2>1, <2>2
<1> HIDE DEF y
<1>7. sock' \in [Socks -> SockObj] /\ sock'[o] = y /\ \A p \in Socks \ {o} : sock'[p] = sock[p]
  BY <1>3, <1>4, <1>6
<1>8. Same(sock[o], sock'[o])
  BY <1>6, <1>7 DEF x
<1>9. /\ Types' /\ Calls' /\ Table' /\ Stack' /\ Signals' /\ Orderly'
      /\ \A p \in Socks \ {o} : UNCHANGED Life(p)!vars
  BY <1>2, <1>3, <1>7, <1>8, TermGoesOn
<1>10. UNCHANGED Life(o)!vars
  <2>1. "free" \in Using
    BY DEF Using, Closing, Ending
  <2>2. /\ \A u \in Threads \ {t} : th'[u] = th[u]
        /\ th'[t].pc = "free" /\ th'[t].o = th[t].o /\ th'[t].reg = th[t].reg /\ th'[t].n = th[t].n
    BY <1>3, <2>1, GotoIs
  <2>3. Phase(sock'[o]) = Phase(sock[o]) /\ sock'[o].holds = sock[o].holds /\ sock'[o].relesem = sock[o].relesem
    BY <1>6, <1>7 DEF Phase, x
  <2> QED
    BY <2>2, <2>3, SameLife
<1>11. \A p \in Socks : UNCHANGED Life(p)!vars
  BY <1>9, <1>10
<1> QED
  BY <1>9, <1>11 DEF Safe, Follows

-----------------------------------------------------------------------------
\* The table.

\* nn_socket: nobody refers to the object, and it is in no slot.
LEMMA SocketKeeps ==
  ASSUME Inv, NEW t \in Threads, nn_socket(t), Stack'
  PROVE  Safe' /\ Follows
<1> DEFINE slot == unused[MaxSockets - nsocks - 1]
<1> /\ Types /\ Calls /\ Table /\ Stack /\ Signals /\ Orderly /\ \A p \in Socks : Covered(p)
  BY DEF Inv
<1>2. /\ glock = None /\ ~zombie /\ nsocks < MaxSockets /\ nsocks' = nsocks + 1
      /\ UNCHANGED <<glock, zombie, unused, th, stats, slip>>
  BY DEF nn_socket, Unlocked
<1>3. PICK o \in Socks : /\ sock[o].st = "NEW"
                         /\ sock' = [sock EXCEPT ![o] = [nn_sock_init EXCEPT !.stop = o \in Delayed]]
                         /\ socks' = [socks EXCEPT ![slot] = o]
  BY CoreAssumption DEF nn_socket
<1>4. PICK s : s = slot
  OBVIOUS
<1> HIDE DEF slot
<1>5. s \in Slots /\ socks[s] = None /\ Stack' /\ socks' = [socks EXCEPT ![s] = o]
  <2>1. PICK top \in Slots : top = MaxSockets - nsocks - 1 /\ top \in 0 .. top
    BY <1>2, CoreAssumption DEF Types, Slots
  <2>2. s = unused[top] /\ s \in Slots
    BY <1>4, <2>1 DEF Types, slot
  <2>3. {unused[i] : i \in 0 .. top} = {r \in Slots : socks[r] = None}
    BY <2>1 DEF Stack, TableSound
  <2>4. socks[s] = None
    BY <2>1, <2>2, <2>3
  <2> QED
    BY <1>3, <1>4, <2>2, <2>4 DEF slot
<1> DEFINE y == [nn_sock_init EXCEPT !.stop = o \in Delayed]
<1>6. /\ y \in SockObj /\ y.st = "ACTIVE" /\ y.holds = 1 /\ y.relesem = 0 /\ y.termsem = 0 /\ y.ctx /\ y.bad = "no"
      /\ Told(y)
  <2> DEFINE k == o \in Delayed
  <2>1. /\ nn_sock_init \in SockObj /\ nn_sock_init.st = "ACTIVE" /\ nn_sock_init.holds = 1 /\ nn_sock_init.relesem = 0
        /\ nn_sock_init.termsem = 0 /\ nn_sock_init.ctx /\ nn_sock_init.bad = "no"
        /\ nn_sock_init.flags = {} /\ nn_sock_init.fd = [d \in Dirs |-> "idle"] /\ nn_sock_init.ready = [d \in Dirs |-> 0]
    BY DEF nn_sock_init, SockObj, States, Errors
  <2>2. k \in BOOLEAN /\ y = [nn_sock_init EXCEPT !.stop = k]
    OBVIOUS
  <2> HIDE DEF y, k
  <2>3. y \in SockObj /\ y.st = "ACTIVE" /\ y.holds = 1 /\ y.relesem = 0 /\ y.termsem = 0 /\ y.ctx /\ y.bad = "no"
        /\ y.flags = {} /\ y.fd = [d \in Dirs |-> "idle"] /\ y.ready = [d \in Dirs |-> 0]
    BY <2>1, <2>2 DEF SockObj
  <2>4. Told(y)
    BY <2>3 DEF Told, Shown
  <2> QED
    BY <2>3, <2>4
<1>7. sock' = [sock EXCEPT ![o] = y] /\ sock \in [Socks -> SockObj] /\ socks \in [Slots -> Socks \cup {None}]
  BY <1>3 DEF Types
<1> HIDE DEF y
<1>8. sock' \in [Socks -> SockObj] /\ sock'[o] = y /\ \A p \in Socks \ {o} : sock'[p] = sock[p]
  BY <1>6, <1>7
<1>9. socks' \in [Slots -> Socks \cup {None}] /\ socks'[s] = o /\ \A r \in Slots \ {s} : socks'[r] = socks[r]
  BY <1>5, <1>7
<1>10. \A u \in Threads : th[u].o # o /\ th[u].pc \notin Locking
  BY <1>2, <1>3, CoreAssumption DEF Calls, InCall
<1>11. \A r \in Slots : socks[r] # o
  BY <1>3, CoreAssumption DEF Table
<1>12. Types'
  BY <1>2, <1>8, <1>9, CoreAssumption DEF Types
<1>13. ASSUME NEW u \in Threads
       PROVE  InCall(u)'
  <2>1. InCall(u) /\ th'[u] = th[u] /\ th[u].o # o /\ th[u].pc \notin Locking /\ th' = th
    BY <1>2, <1>10 DEF Calls
  <2>2. th[u].o \in Socks => sock'[th[u].o].st = sock[th[u].o].st
    BY <1>8, <2>1
  <2>3. th[u].pc \in Closing \cup {"stop"} => th[u].s \in Slots \ {s}
    <3>1. th[u].pc \in Closing \cup {"stop"} => th[u].pc \in Using
      BY DEF Using
    <3> QED
      BY <1>5, <2>1, <3>1, CoreAssumption DEF InCall
  <2>4. th[u].pc \in Closing => \A v \in Threads \ {u} : th'[v].pc \in Closing => th'[v].o # th[u].o
    BY <2>1 DEF InCall
  <2>5. th[u].pc \notin {"zombify", "exit", "stop"}
    BY <2>1 DEF Locking
  <2> QED
    BY <1>9, <2>1, <2>2, <2>3, <2>4, <2>5, StillInCall
<1>14. Table'
  <2>1. \A r, q \in Slots : socks'[r] = socks'[q] /\ socks'[r] # None => r = q
    BY <1>9, <1>11 DEF Table
  <2>2. \A r \in Slots : socks'[r] # None => sock'[socks'[r]].st \notin {"NEW", "FREED"}
    BY <1>6, <1>7, <1>8, <1>9, <1>11 DEF Table
  <2>3. \A p \in Socks : sock'[p].st \notin {"NEW", "FREED"} => \E r \in Slots : socks'[r] = p
    BY <1>5, <1>8, <1>9, CoreAssumption DEF Table
  <2>4. /\ \A p \in Socks : sock'[p].termsem > 0 => sock'[p].st = "FINI"
        /\ \A p \in Socks : sock'[p].st = "ACTIVE" => sock'[p].ctx
    BY <1>6, <1>8 DEF Table
  <2> QED
    BY <2>1, <2>2, <2>3, <2>4 DEF Table
<1>15. Signals'
  BY <1>6, <1>8 DEF Signals
<1>16. Orderly'
  <2> SUFFICES ASSUME ~slip
               PROVE  Orderly'
    BY <1>2 DEF Orderly
  <2>1. ~Dead'
    BY <1>6, <1>8 DEF Orderly, Dead
  <2>2. \A p \in Socks : /\ sock'[p].st \notin {"ACTIVE", "STOPPING_EPS"} => sock'[p].eps = {} /\ sock'[p].sdeps = {}
                         /\ sock'[p].st = "STOPPING_EPS" => sock'[p].eps = {}
    BY <1>6, <1>8 DEF Orderly
  <2>3. \A u \in Threads : /\ th[u].pc = "held" => th[u].o \in Socks \ {o}
                           /\ th[u].pc # "zombify"
    BY <1>10 DEF Calls, InCall, Using, Locking
  <2>4. /\ \A u \in Threads : th[u].pc = "held" /\ th[u].op = "bind" => sock'[th[u].o].st = "ACTIVE" /\ ~zombie
        /\ \A u \in Threads : th[u].pc = "held" /\ th[u].op = "opt" => sock'[th[u].o].st \in {"ACTIVE", "ZOMBIE"}
    BY <1>8, <2>3 DEF Orderly
  <2> QED
    BY <1>2, <2>1, <2>2, <2>3, <2>4 DEF Orderly
<1>17. Life(o)!Create
  <2>1. ~Ended(o) /\ ~Ended(o)'
    BY <1>2, <1>10 DEF Ended
  <2>2. Stage(o) = "new" /\ Stage(o)' = "open"
    BY <1>3, <1>6, <1>8, <2>1 DEF Stage
  <2>3. sock[o].holds = 1 /\ sock[o].relesem = 0
    BY <2>2 DEF Covered
  <2>4. Read(o)' = Read(o)
    BY <1>2 DEF Read
  <2>5. Refs(o)' = {<<None, 1>>}
    <3> SUFFICES ASSUME NEW r
                 PROVE  r \in Refs(o)' <=> r = <<None, 1>>
      OBVIOUS
    <3> QED
      BY <1>2, <1>6, <1>8, <1>10, RefsAre
  <2> QED
    BY <1>6, <1>8, <2>2, <2>3, <2>4, <2>5 DEF Life!Create
<1>18. \A p \in Socks : Life(p)!Next \/ UNCHANGED Life(p)!vars
  <2>1. Life(o)!Next
    BY <1>17 DEF Life!Next
  <2>2. ASSUME NEW p \in Socks \ {o} PROVE UNCHANGED Life(p)!vars
    <3>1. Phase(sock'[p]) = Phase(sock[p]) /\ sock'[p].holds = sock[p].holds /\ sock'[p].relesem = sock[p].relesem
      BY <1>8 DEF Phase
    <3>2. th' = th
      BY <1>2
    <3> QED
      BY <3>1, <3>2, SameLife
  <2> QED
    BY <2>1, <2>2
<1> QED
  BY <1>5, <1>12, <1>13, <1>14, <1>15, <1>16, <1>18 DEF Safe, Follows, Calls

\* The end of nn_close: no other call refers to the socket any more, because
\* the semaphore was posted with the last of the references.
LEMMA FreeKeeps ==
  ASSUME Inv, NEW t \in Threads, CloseFree(t), Stack', nsocks \in 1 .. MaxSockets,
         nsocks = 1 => \A r \in Slots : socks'[r] = None
  PROVE  Safe' /\ Follows
<1> /\ Types /\ Calls /\ Table /\ Stack /\ Signals /\ Orderly /\ InCall(t) /\ \A p \in Socks : Covered(p)
  BY DEF Inv, Calls
<1>2. /\ th[t].pc = "free" /\ glock = None /\ nsocks' = nsocks - 1
      /\ sock' = [sock EXCEPT ![th[t].o] = Freed(@)]
      /\ socks' = [socks EXCEPT ![th[t].s] = None]
      /\ unused' = [unused EXCEPT ![MaxSockets - nsocks] = th[t].s]
      /\ UNCHANGED <<zombie, stats, slip>>
  BY DEF CloseFree, Unlocked, At
<1>3. PICK o \in Socks, s \in Slots : o = th[t].o /\ s = th[t].s /\ socks[s] = o /\ sock[o].st = "FINI" /\ th[t].n = 0
  BY <1>2 DEF InCall, Using, Closing, Ending, Dropping
<1>4. socks[s] # None /\ socks' = [socks EXCEPT ![s] = None] /\ unused' = [unused EXCEPT ![MaxSockets - nsocks] = s]
  BY <1>2, <1>3, CoreAssumption
<1>5. nsocks \in 1 .. MaxSockets /\ Stack' /\ (nsocks = 1 => \A r \in Slots : socks'[r] = None)
  OBVIOUS
<1>6. PICK c \in Call : /\ th' = [th EXCEPT ![t] = c] /\ c.o = None /\ c.n = 0
                        /\ \/ c.pc = "idle" /\ glock' = None
                           \/ c.pc = "exit" /\ glock' = t /\ nsocks = 1
  <2> DEFINE e == [Idle EXCEPT !.pc = "exit", !.op = "close"]
  <2>1. Idle \in Call /\ Idle.pc = "idle" /\ Idle.o = None /\ Idle.n = 0
    BY DEF Idle, Call
  <2>2. e \in Call /\ e.pc = "exit" /\ e.o = None /\ e.n = 0
    BY <2>1 DEF Call
  <2>3. \/ glock' = None /\ th' = [th EXCEPT ![t] = Idle]
        \/ glock' = t /\ nsocks = 1 /\ th' = [th EXCEPT ![t] = e]
    BY <1>2 DEF CloseFree, Return
  <2> HIDE DEF e
  <2> QED
    BY <2>1, <2>2, <2>3
<1> DEFINE x == sock[o]
           y == Freed(x)
<1>7. x \in SockObj /\ sock \in [Socks -> SockObj] /\ sock' = [sock EXCEPT ![o] = y]
  BY <1>2, <1>3 DEF Types
<1>8. /\ y \in SockObj /\ y.st = "FREED" /\ y.holds = x.holds /\ y.relesem = x.relesem /\ y.termsem = 0 /\ y.bad = "no"
      /\ y.eps = {} /\ y.sdeps = {}
  <2> HIDE DEF x
  <2> DEFINE h == x.holds
             r == x.relesem
  <2>1. h \in Int /\ r \in Int
    BY <1>7 DEF SockObj
  <2>2. /\ nn_sock_init \in SockObj /\ nn_sock_init.termsem = 0 /\ nn_sock_init.bad = "no"
        /\ nn_sock_init.eps = {} /\ nn_sock_init.sdeps = {}
    BY DEF nn_sock_init, SockObj, States, Errors
  <2>3. y = [nn_sock_init EXCEPT !.st = "FREED", !.holds = h, !.relesem = r] /\ "FREED" \in States
    BY DEF Freed, States
  <2> HIDE DEF h, r, y
  <2>4. /\ y \in SockObj /\ y.st = "FREED" /\ y.holds = h /\ y.relesem = r /\ y.termsem = 0 /\ y.bad = "no"
        /\ y.eps = {} /\ y.sdeps = {}
    BY <2>1, <2>2, <2>3 DEF SockObj
  <2> QED
    BY <2>4 DEF h, r
<1> HIDE DEF y, x
<1>9. sock' \in [Socks -> SockObj] /\ sock'[o] = y /\ \A p \in Socks \ {o} : sock'[p] = sock[p]
  BY <1>7, <1>8
<1>10. th' \in [Threads -> Call] /\ th'[t] = c /\ \A u \in Threads \ {t} : th'[u] = th[u]
  BY <1>6 DEF Types
<1>11. socks' \in [Slots -> Socks \cup {None}] /\ socks'[s] = None /\ \A r \in Slots \ {s} : socks'[r] = socks[r]
  BY <1>4 DEF Types
<1>12. Stage(o) = "ending" /\ Refs(o) = {}
  <2>1. Ended(o)
    BY <1>2, <1>3 DEF Ended
  <2>2. Stage(o) = "ending"
    BY <1>3, <2>1 DEF Stage
  <2> QED
    BY <2>2 DEF Covered
<1>13. \A u \in Threads \ {t} : th[u].o # o
  <2> SUFFICES ASSUME NEW u \in Threads \ {t}, th[u].o = o
               PROVE  FALSE
    OBVIOUS
  <2>1. <<u, 1>> \notin Refs(o)
    BY <1>12
  <2>2. th[u].pc \in {"termsem", "relesem", "fini", "free"}
    BY <2>1, RefsAre
  <2>3. th[u].pc \in Closing /\ th[t].pc \in Closing
    BY <1>2, <2>2 DEF Closing, Ending
  <2> QED
    BY <1>3, <2>3 DEF InCall
<1>14. \A u \in Threads : th[u].pc \notin Locking
  BY <1>2, CoreAssumption DEF Calls, InCall
<1>15. Types'
  <2>0. nsocks' \in 0 .. MaxSockets
    BY <1>2, <1>5, CoreAssumption
  <2>1. unused' \in [Slots -> Slots] /\ nsocks' \in 0 .. MaxSockets
    <3> DEFINE i == MaxSockets - nsocks
    <3>1. unused' = [unused EXCEPT ![i] = s] /\ unused \in [Slots -> Slots]
      BY <1>4 DEF Types
    <3> HIDE DEF i
    <3> QED
      BY <2>0, <3>1
  <2>2. glock' \in Threads \cup {None}
    BY <1>6
  <2> QED
    BY <1>2, <1>9, <1>10, <1>11, <2>1, <2>2 DEF Types
<1>16. ASSUME NEW u \in Threads
       PROVE  InCall(u)'
  <2>1. CASE u = t
    <3>1. /\ c.pc \notin Using /\ c.pc \notin Dropping /\ c.pc \notin Closing /\ c.pc \notin Ending
          /\ c.pc \notin {"stop", "zombify"} /\ (c.pc \in Locking => glock' = t)
          /\ c.pc = "exit" => \A r \in Slots : socks'[r] = None
      BY <1>5, <1>6 DEF Locking, Using, Closing, Dropping, Ending
    <3> QED
      BY <1>6, <1>10, <2>1, <3>1 DEF InCall
  <2>2. CASE u # t
    <3>1. InCall(u) /\ th'[u] = th[u] /\ th[u].o # o /\ th[u].pc \notin Locking
      BY <1>10, <1>13, <1>14, <2>2 DEF Calls
    <3>2. th[u].o \in Socks => sock'[th[u].o].st = sock[th[u].o].st
      BY <1>9, <3>1
    <3>3. th[u].pc \in Closing \cup {"stop"} => th[u].s \in Slots \ {s}
      BY <1>3, <3>1 DEF InCall
    <3>4. c.pc \notin Closing
      BY <1>6 DEF Closing, Dropping, Ending
    <3>5. th[u].pc \in Closing => \A v \in Threads \ {u} : th'[v].pc \in Closing => th'[v].o # th[u].o
      BY <1>10, <3>1, <3>4 DEF InCall
    <3>6. th[u].pc \notin {"zombify", "exit", "stop"}
      BY <3>1 DEF Locking
    <3> QED
      BY <1>11, <3>1, <3>2, <3>3, <3>5, <3>6, StillInCall
  <2> QED
    BY <2>1, <2>2
<1>17. Table'
  <2>1. \A r \in Slots \ {s} : socks[r] # o
    BY <1>3, <1>4 DEF Table
  <2>2. \A r, q \in Slots : socks'[r] = socks'[q] /\ socks'[r] # None => r = q
    BY <1>11 DEF Table
  <2>3. \A r \in Slots : socks'[r] # None => sock'[socks'[r]].st \notin {"NEW", "FREED"}
    BY <1>9, <1>11, <2>1 DEF Table
  <2>4. \A p \in Socks : sock'[p].st \notin {"NEW", "FREED"} => \E r \in Slots : socks'[r] = p
    BY <1>3, <1>8, <1>9, <1>11 DEF Table
  <2>5. /\ \A p \in Socks : sock'[p].termsem > 0 => sock'[p].st = "FINI"
        /\ \A p \in Socks : sock'[p].st = "ACTIVE" => sock'[p].ctx
    BY <1>8, <1>9 DEF Table
  <2> QED
    BY <2>2, <2>3, <2>4, <2>5 DEF Table
<1>18. Signals'
  <2>1. Told(y)
    BY <1>8 DEF Told
  <2> QED
    BY <1>9, <2>1 DEF Signals
<1>19. Orderly'
  <2> SUFFICES ASSUME ~slip
               PROVE  Orderly'
    BY <1>2 DEF Orderly
  <2>1. ~Dead'
    BY <1>8, <1>9 DEF Orderly, Dead
  <2>2. \A p \in Socks : /\ sock'[p].st \notin {"ACTIVE", "STOPPING_EPS"} => sock'[p].eps = {} /\ sock'[p].sdeps = {}
                         /\ sock'[p].st = "STOPPING_EPS" => sock'[p].eps = {}
    BY <1>8, <1>9 DEF Orderly
  <2>3. \A u \in Threads : /\ th'[u].pc = "held" => u # t /\ th[u].o \in Socks \ {o} /\ th'[u] = th[u]
                           /\ th'[u].pc # "zombify"
    <3>1. ASSUME NEW u \in Threads \ {t}, th[u].pc = "held"
          PROVE  th[u].o \in Socks
      BY <3>1 DEF Calls, InCall, Using
    <3> QED
      BY <1>6, <1>10, <1>13, <1>14, <3>1 DEF Locking
  <2>4. /\ \A u \in Threads : th'[u].pc = "held" /\ th'[u].op = "bind" => sock'[th'[u].o].st = "ACTIVE" /\ ~zombie
        /\ \A u \in Threads : th'[u].pc = "held" /\ th'[u].op = "opt" => sock'[th'[u].o].st \in {"ACTIVE", "ZOMBIE"}
    BY <1>9, <2>3 DEF Orderly
  <2>5. zombie => \A r \in Slots : socks'[r] # None =>
                   /\ sock'[socks'[r]].st \in {"ACTIVE", "ZOMBIE"}
                   /\ sock'[socks'[r]].eps = {} /\ sock'[socks'[r]].sdeps = {}
    <3>1. \A r \in Slots \ {s} : socks[r] # o
      BY <1>3, <1>4 DEF Table
    <3>2. \A r \in Slots : socks'[r] # None => r # s /\ socks'[r] = socks[r] /\ socks[r] \in Socks \ {o}
      BY <1>11, <3>1 DEF Types
    <3> QED
      BY <1>9, <3>2 DEF Orderly
  <2> QED
    BY <1>2, <2>1, <2>2, <2>3, <2>4, <2>5 DEF Orderly
<1>20. Life(o)!Free
  <2>1. Stage(o)' = "freed"
    BY <1>8, <1>9 DEF Stage
  <2>2. \A u \in Threads : th'[u].o # o
    BY <1>6, <1>10, <1>13, CoreAssumption
  <2>3. Refs(o)' = {}
    <3> SUFFICES ASSUME NEW r
                 PROVE  r \notin Refs(o)'
      OBVIOUS
    <3> QED
      BY <1>8, <1>9, <2>2, RefsAre
  <2>4. Read(o)' = Read(o)
    BY <1>2, <1>13, <2>2 DEF Read
  <2>5. sock'[o].holds = sock[o].holds /\ sock'[o].relesem = sock[o].relesem
    BY <1>8, <1>9 DEF x
  <2> QED
    BY <1>12, <2>1, <2>3, <2>4, <2>5 DEF Life!Free
<1>21. \A p \in Socks : Life(p)!Next \/ UNCHANGED Life(p)!vars
  <2>1. Life(o)!Next
    BY <1>20 DEF Life!Next
  <2>2. ASSUME NEW p \in Socks \ {o} PROVE UNCHANGED Life(p)!vars
    BY <1>3, <1>6, <1>9, <1>10, OtherLife, CoreAssumption
  <2> QED
    BY <2>1, <2>2
<1> QED
  BY <1>5, <1>15, <1>16, <1>17, <1>18, <1>19, <1>21 DEF Safe, Follows, Calls

\* nn_close stops the socket.  Those who are in a call on it stay there; slip
\* notes the ones that will not expect it.
LEMMA StopKeeps ==
  ASSUME Inv, NEW t \in Threads, CloseStop(t)
  PROVE  Safe' /\ Follows
<1> /\ Types /\ Calls /\ Table /\ Stack /\ Signals /\ Orderly /\ InCall(t) /\ \A p \in Socks : Covered(p)
  BY DEF Inv, Calls
<1>2. /\ th[t].pc = "stop" /\ ~Dead /\ Leave(th[t].o, nn_sock_stop(sock[th[t].o])) /\ glock' = None
      /\ th' = [th EXCEPT ![t].pc = "drop", ![t].n = 2]
      /\ slip' = (slip \/ \E u \in Others(t, th[t].o) : th[u].op \in {"bind", "opt"})
      /\ UNCHANGED <<zombie, socks, unused, nsocks, stats>>
  BY DEF CloseStop, At
<1>3. /\ th[t].pc \in Using /\ th[t].pc \in Locking /\ th[t].pc \notin Dropping
      /\ "drop" \in Using /\ "drop" \in Closing /\ "drop" \in Dropping /\ "drop" \notin Locking /\ "drop" \notin Ending
  BY <1>2 DEF Using, Locking, Dropping, Closing, Ending
<1>4. PICK o \in Socks, s \in Slots : /\ o = th[t].o /\ s = th[t].s /\ socks[s] = o /\ sock[o].st = "ACTIVE" /\ th[t].n = 0
                                      /\ ~zombie /\ glock = t
  BY <1>2, <1>3 DEF InCall
<1> DEFINE x == sock[o]
           z == [x EXCEPT !.st = "STOPPING_EPS", !.fd = [d \in Dirs |-> "signaled"], !.eps = {}, !.sdeps = @ \cup x.eps]
           y == Finish2(z)
<1>5. x \in SockObj /\ x.bad = "no" /\ x.st = "ACTIVE"
  BY <1>2, <1>4, Alive
<1>6. nn_sock_stop(sock[o]) = y
  BY DEF nn_sock_stop
<1> HIDE DEF x
<1>7. /\ z \in SockObj /\ z.st = "STOPPING_EPS" /\ z.eps = {} /\ z.bad = x.bad /\ z.termsem = x.termsem
      /\ z.holds = x.holds /\ z.relesem = x.relesem
  <2> DEFINE fd == [d \in Dirs |-> "signaled"]
             e == x.sdeps \cup x.eps
  <2>1. fd \in [Dirs -> {"idle", "signaled", "closed", "lost"}] /\ e \in SUBSET Nat /\ "STOPPING_EPS" \in States
    BY <1>5 DEF SockObj, States
  <2>2. z = [x EXCEPT !.st = "STOPPING_EPS", !.fd = fd, !.eps = {}, !.sdeps = e]
    BY <1>5 DEF SockObj
  <2> HIDE DEF fd, e, z
  <2> QED
    BY <1>5, <2>1, <2>2 DEF SockObj
<1> HIDE DEF z
<1>8. /\ y \in SockObj /\ Advance(z, y) /\ y.eps = {} /\ y.bad = "no" /\ (y.st # "STOPPING_EPS" => y.sdeps = {})
      /\ y.st \in {"STOPPING_EPS", "STOPPING", "FINI"}
  BY <1>5, <1>7, Finish2Is
<1> HIDE DEF y
<1>9. y.st # "ACTIVE" /\ Leave(o, y)
  BY <1>2, <1>4, <1>6, <1>8
<1>10. /\ sock' \in [Socks -> SockObj] /\ \A p \in Socks \ {o} : sock'[p] = sock[p]
       /\ Kept(y, sock'[o]) /\ Told(sock'[o])
  BY <1>8, <1>9, LeaveIs
<1>11. /\ sock'[o].st \in {"STOPPING_EPS", "STOPPING", "FINI"} /\ sock'[o].holds = x.holds /\ sock'[o].relesem = x.relesem
       /\ sock'[o].eps = {} /\ sock'[o].bad = "no" /\ (sock'[o].st # "STOPPING_EPS" => sock'[o].sdeps = {})
       /\ sock'[o].termsem = x.termsem \/ sock'[o].st = "FINI"
  BY <1>7, <1>8, <1>10 DEF Kept, Advance
<1>12. /\ th' \in [Threads -> Call] /\ \A u \in Threads \ {t} : th'[u] = th[u]
       /\ th'[t].pc = "drop" /\ th'[t].o = o /\ th'[t].n = 2 /\ th'[t].s = s
  <2>1. th \in [Threads -> Call] /\ th[t] \in Call
    BY DEF Types
  <2> DEFINE b == th[t]
             c == [b EXCEPT !.pc = "drop", !.n = 2]
  <2>2. c \in Call /\ c.pc = "drop" /\ c.o = o /\ c.n = 2 /\ c.s = s
    <3>1. b \in Call /\ b.o = o /\ b.s = s
      BY <1>4, <2>1
    <3>2. PICK k \in 0 .. 2 : k = 2
      OBVIOUS
    <3>3. c = [b EXCEPT !.pc = "drop", !.n = k]
      BY <3>2
    <3> HIDE DEF b, c
    <3>4. c \in Call /\ c.pc = "drop" /\ c.o = b.o /\ c.n = k /\ c.s = b.s
      BY <1>3, <3>1, <3>3 DEF Call
    <3> QED
      BY <3>1, <3>2, <3>4
  <2>3. th' = [th EXCEPT ![t] = c]
    BY <1>2, <2>1
  <2> HIDE DEF c
  <2> QED
    BY <2>1, <2>2, <2>3
<1>13. \A u \in Threads \ {t} : th[u].pc \notin Locking /\ (th[u].o = o => th[u].pc \notin Closing)
  <2>1. \A u \in Threads : th[u].o = o => th[u].pc \notin Closing
    BY <1>4, ActiveIsOpen
  <2> QED
    BY <1>4, <2>1 DEF Calls, InCall
<1>14. Types'
  BY <1>2, <1>10, <1>12 DEF Types
<1>15. ASSUME NEW u \in Threads
       PROVE  InCall(u)'
  <2>1. CASE u = t
    <3>1. \A v \in Threads \ {t} : th'[v].pc \in Closing => th'[v].o # o
      BY <1>12, <1>13
    <3>2. socks' = socks
      BY <1>2
    <3> QED
      BY <1>3, <1>4, <1>11, <1>12, <2>1, <3>1, <3>2 DEF InCall
  <2>2. CASE u # t
    <3>1. InCall(u) /\ th'[u] = th[u] /\ th[u].pc \notin Locking /\ (th[u].o = o => th[u].pc \notin Closing)
      BY <1>12, <1>13, <2>2 DEF Calls
    <3>2. th[u].pc \notin {"stop", "zombify", "exit"}
      BY <3>1 DEF Locking
    <3>3. th[u].o \in Socks => \/ sock'[th[u].o].st = sock[th[u].o].st
                               \/ sock'[th[u].o].st # "NEW" /\ th[u].pc \notin Closing \cup {"stop"}
      BY <1>10, <1>11, <3>1, <3>2
    <3>4. th[u].pc \in Closing => \A v \in Threads \ {u} : th'[v].pc \in Closing => th'[v].o # th[u].o
      BY <1>12, <3>1 DEF InCall
    <3>5. socks' = socks
      BY <1>2
    <3> QED
      BY <3>1, <3>2, <3>3, <3>4, <3>5, StillInCall
  <2> QED
    BY <2>1, <2>2
<1>16. Table'
  <2>1. x.termsem \in Nat /\ ~(x.termsem > 0)
    BY <1>4, <1>5 DEF Table, SockObj, x
  <2>2. \A p \in Socks : sock'[p].st \in {"NEW", "FREED"} <=> sock[p].st \in {"NEW", "FREED"}
    BY <1>4, <1>10, <1>11
  <2>3. socks' = socks /\ \A r \in Slots : socks[r] # None => socks[r] \in Socks
    BY <1>2 DEF Types
  <2>4. \A p \in Socks : /\ sock'[p].termsem > 0 => sock'[p].st = "FINI"
                         /\ sock'[p].st = "ACTIVE" => sock'[p].ctx
    BY <1>10, <1>11, <2>1 DEF Table
  <2> QED
    BY <2>2, <2>3, <2>4 DEF Table
<1>17. Stack'
  BY <1>2 DEF Stack, TableSound
<1>18. Signals'
  BY <1>10 DEF Signals
<1>19. Orderly'
  <2> SUFFICES ASSUME ~slip'
               PROVE  Orderly'
    BY DEF Orderly
  <2>1. ~slip /\ \A u \in Threads \ {t} : th[u].o = o /\ th[u].pc = "held" => th[u].op \notin {"bind", "opt"}
    BY <1>2, <1>4 DEF Others
  <2>2. ~Dead'
    BY <1>10, <1>11, <2>1 DEF Orderly, Dead
  <2>3. \A p \in Socks : /\ sock'[p].st \notin {"ACTIVE", "STOPPING_EPS"} => sock'[p].eps = {} /\ sock'[p].sdeps = {}
                         /\ sock'[p].st = "STOPPING_EPS" => sock'[p].eps = {}
    BY <1>10, <1>11, <2>1 DEF Orderly
  <2>4. \A u \in Threads : /\ th'[u].pc = "held" => u # t /\ th[u].o \in Socks /\ th'[u] = th[u]
                           /\ th'[u].pc # "zombify"
    <3>1. ASSUME NEW u \in Threads \ {t}, th[u].pc = "held"
          PROVE  th[u].o \in Socks
      BY <3>1 DEF Calls, InCall, Using
    <3> QED
      BY <1>12, <1>13, <3>1 DEF Locking
  <2>5. /\ \A u \in Threads : th'[u].pc = "held" /\ th'[u].op = "bind" => sock'[th'[u].o].st = "ACTIVE" /\ ~zombie
        /\ \A u \in Threads : th'[u].pc = "held" /\ th'[u].op = "opt" => sock'[th'[u].o].st \in {"ACTIVE", "ZOMBIE"}
    BY <1>10, <2>1, <2>4 DEF Orderly
  <2> QED
    BY <1>2, <1>4, <2>1, <2>2, <2>3, <2>4, <2>5 DEF Orderly
<1>20. Life(o)!Close(t)
  <2>1. Stage(o) = "open"
    BY <1>4, ActiveIsOpen
  <2>2. ~Ended(o)'
    BY <1>12, <1>13 DEF Ended, Closing, Ending
  <2>3. Stage(o)' = "closing"
    BY <1>11, <2>2 DEF Stage
  <2>4. <<t, 1>> \in Refs(o)
    BY <1>2, <1>4, RefsAre
  <2>5. Refs(o)' = (Refs(o) \ {<<None, 1>>}) \cup {<<t, 2>>}
    <3> SUFFICES ASSUME NEW r
                 PROVE  r \in Refs(o)' <=> (r \in Refs(o) /\ r # <<None, 1>>) \/ r = <<t, 2>>
      OBVIOUS
    <3>1. \A u \in Threads : u # None
      BY CoreAssumption
    <3>2. \A u \in Threads :
            /\ th'[u].o = o <=> th[u].o = o
            /\ (th'[u].o = o /\ th'[u].n = 2) <=> (u = t \/ (th[u].o = o /\ th[u].n = 2))
            /\ th'[u].pc \in {"termsem", "relesem", "fini", "free"} <=> th[u].pc \in {"termsem", "relesem", "fini", "free"}
      BY <1>2, <1>4, <1>12
    <3>3. th[t].n # 2 /\ sock'[o].st \notin {"ACTIVE", "ZOMBIE"}
      BY <1>4, <1>11
    <3> QED
      BY <3>1, <3>2, <3>3, RefsAre
  <2>6. Read(o)' = Read(o)
    BY <1>2, <1>12 DEF Read
  <2> QED
    BY <1>11, <2>1, <2>3, <2>4, <2>5, <2>6 DEF Life!Close, x
<1>21. \A p \in Socks : Life(p)!Next \/ UNCHANGED Life(p)!vars
  <2>1. Life(o)!Next
    BY <1>20 DEF Life!Next
  <2>2. ASSUME NEW p \in Socks \ {o} PROVE UNCHANGED Life(p)!vars
    BY <1>4, <1>10, <1>12, OtherLife
  <2> QED
    BY <2>1, <2>2
<1> QED
  BY <1>14, <1>15, <1>16, <1>17, <1>18, <1>19, <1>21 DEF Safe, Follows, Calls

-----------------------------------------------------------------------------
\* nn_term, the end of the library and the statistics.

\* A new stack has every slot once.
LEMMA NewStack ==
  ASSUME NEW f, f = [i \in Slots |-> MaxSockets - i - 1]
  PROVE  /\ f \in [Slots -> Slots] /\ (\A i, j \in 0 .. MaxSockets - 1 : f[i] = f[j] => i = j)
         /\ {f[i] : i \in 0 .. MaxSockets - 1} = Slots
<1>1. MaxSockets \in Nat /\ Slots = 0 .. MaxSockets - 1
  BY CoreAssumption DEF Slots
<1>2. f \in [Slots -> Slots] /\ (\A i, j \in Slots : f[i] = f[j] => i = j)
  BY <1>1
<1>3. \A s \in Slots : f[MaxSockets - s - 1] = s /\ MaxSockets - s - 1 \in Slots
  BY <1>1
<1> QED
  BY <1>1, <1>2, <1>3

\* Nothing changes for the sockets when a call returns that refers to none.
LEMMA ReturnKeeps ==
  ASSUME Inv, NEW t \in Threads, th[t].pc \in {"zombify", "exit"}, glock' = None, Return(t),
         UNCHANGED <<zombie, socks, nsocks, sock, stats, slip>>,
         unused' \in [Slots -> Slots], Stack'
  PROVE  Safe' /\ Follows
<1> /\ Types /\ Calls /\ Table /\ Signals /\ Orderly /\ InCall(t) /\ \A p \in Socks : Covered(p)
  BY DEF Inv, Calls
<1>2. Idle \in Call /\ Idle.pc = "idle" /\ Idle.o = None /\ Idle.n = 0
  BY DEF Idle, Call
<1>3. th' \in [Threads -> Call] /\ th'[t] = Idle /\ \A u \in Threads \ {t} : th'[u] = th[u]
  BY <1>2 DEF Types, Return
<1>4. glock = t /\ th[t].o = None
  BY DEF InCall, Locking, Using, Closing, Dropping, Ending
<1>5. Types'
  BY <1>3 DEF Types
<1>6. ASSUME NEW u \in Threads
      PROVE  InCall(u)'
  <2>1. CASE u = t
    <3>1. "idle" \notin Using /\ "idle" \notin Locking /\ "idle" \notin Dropping /\ "idle" \notin Closing /\ "idle" \notin Ending
      BY DEF Locking, Using, Closing, Dropping, Ending
    <3> QED
      BY <1>2, <1>3, <2>1, <3>1 DEF InCall
  <2>2. CASE u # t
    <3>1. InCall(u) /\ th'[u] = th[u] /\ th[u].pc \notin Locking
      BY <1>3, <1>4, <2>2 DEF Calls, InCall
    <3>2. "idle" \notin Closing
      BY DEF Closing, Dropping, Ending
    <3>3. th[u].pc \in Closing => \A v \in Threads \ {u} : th'[v].pc \in Closing => th'[v].o # th[u].o
      BY <1>2, <1>3, <3>1, <3>2 DEF InCall
    <3> QED
      BY <3>1, <3>3, StillInCall
  <2> QED
    BY <2>1, <2>2
<1>7. Table' /\ Signals'
  BY DEF Table, Signals, Told, Shown
<1>8. Orderly'
  <2>1. th'[t].pc # "held" /\ th'[t].pc # "zombify"
    BY <1>2, <1>3
  <2> QED
    BY <1>3, <2>1 DEF Orderly, Dead
<1>9. \A p \in Socks : UNCHANGED Life(p)!vars
  BY <1>2, <1>3, <1>4, OtherLife, CoreAssumption
<1> QED
  BY <1>5, <1>6, <1>7, <1>8, <1>9 DEF Safe, Follows, Calls

\* nn_term begins.  Without slip it finds active sockets without endpoints,
\* and nobody about to add one.
LEMMA TermBeginKeeps ==
  ASSUME Inv, NEW t \in Threads, TermBegin(t)
  PROVE  Safe' /\ Follows
<1> DEFINE open == {socks[s] : s \in Slots} \ {None}
           todo == {s \in Slots : socks[s] # None}
           c == [Idle EXCEPT !.pc = "zombify", !.todo = todo]
<1> /\ Types /\ Calls /\ Table /\ Stack /\ Signals /\ Orderly /\ InCall(t) /\ \A p \in Socks : Covered(p)
  BY DEF Inv, Calls
<1>2. /\ th[t].pc = "idle" /\ glock = None /\ glock' = t /\ zombie' = TRUE /\ th' = [th EXCEPT ![t] = c]
      /\ slip' = (slip \/ \E o \in open : sock[o].st # "ACTIVE" \/ HasPipe(o)
                                            \/ \E u \in Others(t, o) : th[u].op = "bind")
      /\ UNCHANGED <<socks, unused, nsocks, sock, stats>>
  BY DEF TermBegin, At, Unlocked
<1>3. /\ c \in Call /\ c.pc = "zombify" /\ c.o = None /\ c.n = 0 /\ c.todo = todo
  <2>1. Idle \in Call /\ Idle.o = None /\ Idle.n = 0
    BY DEF Idle, Call
  <2>2. todo \in SUBSET Slots
    OBVIOUS
  <2> HIDE DEF todo
  <2> QED
    BY <2>1, <2>2 DEF Call
<1> HIDE DEF c
<1>4. th' \in [Threads -> Call] /\ th'[t] = c /\ \A u \in Threads \ {t} : th'[u] = th[u]
  BY <1>2, <1>3 DEF Types
<1>5. th[t].o = None /\ \A u \in Threads : th[u].pc \notin Locking
  BY <1>2, CoreAssumption DEF Calls, InCall, Using, Closing, Dropping, Ending
<1>6. Types'
  BY <1>2, <1>4 DEF Types
<1>7. ASSUME NEW u \in Threads
      PROVE  InCall(u)'
  <2>0. "zombify" \notin Using /\ "zombify" \notin Dropping /\ "zombify" \notin Closing /\ "zombify" \notin Ending
    BY DEF Using, Closing, Dropping, Ending
  <2>1. CASE u = t
    BY <1>2, <1>3, <1>4, <2>0, <2>1 DEF InCall
  <2>2. CASE u # t
    <3>1. InCall(u) /\ th'[u] = th[u] /\ th[u].pc \notin Locking
      BY <1>4, <1>5, <2>2 DEF Calls
    <3>2. th[u].pc # "stop"
      BY <3>1 DEF Locking
    <3>3. th[u].pc \in Closing => \A v \in Threads \ {u} : th'[v].pc \in Closing => th'[v].o # th[u].o
      BY <1>3, <1>4, <3>1, <2>0 DEF InCall
    <3> QED
      BY <1>2, <3>1, <3>2, <3>3, StillInCall
  <2> QED
    BY <2>1, <2>2
<1>8. Table' /\ Signals' /\ Stack'
  BY <1>2 DEF Table, Signals, Told, Shown, Stack, TableSound
<1>9. Orderly'
  <2> SUFFICES ASSUME ~slip'
               PROVE  Orderly'
    BY DEF Orderly
  <2>1. /\ ~slip
        /\ \A o \in open : /\ sock[o].st = "ACTIVE" /\ sock[o].eps = {} /\ sock[o].sdeps = {}
                           /\ \A u \in Threads \ {t} : th[u].o = o /\ th[u].pc = "held" => th[u].op # "bind"
    BY <1>2 DEF Others, HasPipe
  <2>2. \A s \in Slots : socks[s] # None => socks[s] \in open
    OBVIOUS
  <2>3. \A o \in Socks : sock[o].st = "ACTIVE" => o \in open
    BY CoreAssumption DEF Table
  <2> HIDE DEF open
  <2>4. \A u \in Threads : ~(th'[u].pc = "held" /\ th'[u].op = "bind")
    <3> SUFFICES ASSUME NEW u \in Threads, th'[u].pc = "held", th'[u].op = "bind"
                 PROVE  FALSE
      OBVIOUS
    <3>1. u # t /\ th[u].pc = "held" /\ th[u].op = "bind"
      BY <1>3, <1>4
    <3>2. th[u].o \in Socks /\ sock[th[u].o].st = "ACTIVE"
      BY <2>1, <3>1 DEF Orderly, Calls, InCall, Using
    <3> QED
      BY <2>1, <2>3, <3>1, <3>2
  <2>5. \A u \in Threads : th'[u].pc = "held" => u # t /\ th'[u] = th[u]
    BY <1>3, <1>4
  <2>6. \A u \in Threads : th'[u].pc = "zombify" => u = t /\ th'[u].todo = todo
    BY <1>3, <1>4, <1>5 DEF Locking
  <2>7. ~Dead'
    BY <1>2, <2>1 DEF Orderly, Dead
  <2>8. \A u \in Threads : th'[u].pc = "zombify" => \A s \in th'[u].todo : sock'[socks'[s]].st = "ACTIVE"
    BY <1>2, <2>1, <2>2, <2>6
  <2>9. \A s \in Slots : socks'[s] # None =>
          sock'[socks'[s]].st = "ACTIVE" /\ sock'[socks'[s]].eps = {} /\ sock'[socks'[s]].sdeps = {}
    BY <1>2, <2>1, <2>2
  <2>10. \A u \in Threads : th'[u].pc = "held" /\ th'[u].op = "opt" => sock'[th'[u].o].st \in {"ACTIVE", "ZOMBIE"}
    <3>1. \A u \in Threads : th[u].pc = "held" /\ th[u].op = "opt" => sock[th[u].o].st \in {"ACTIVE", "ZOMBIE"}
      BY <2>1 DEF Orderly
    <3> QED
      BY <1>2, <2>5, <3>1
  <2>11. /\ stats'.mode = "off" /\ stats'.at = -1 /\ stats'.in = None
         /\ \A o \in Socks : /\ sock'[o].st \notin {"ACTIVE", "STOPPING_EPS"} => sock'[o].eps = {} /\ sock'[o].sdeps = {}
                             /\ sock'[o].st = "STOPPING_EPS" => sock'[o].eps = {}
    BY <1>2, <2>1 DEF Orderly
  <2> HIDE DEF todo
  <2> QED
    BY <1>2, <2>4, <2>7, <2>8, <2>9, <2>10, <2>11 DEF Orderly
<1>10. \A p \in Socks : UNCHANGED Life(p)!vars
  BY <1>2, <1>3, <1>4, <1>5, OtherLife, CoreAssumption
<1> QED
  BY <1>6, <1>7, <1>8, <1>9, <1>10 DEF Safe, Follows, Calls

\* nn_term makes a zombie of the next socket.
LEMMA ZombifyKeeps ==
  ASSUME Inv, NEW t \in Threads, NEW s \in Slots, s \in th[t].todo, th[t].pc = "zombify", ~Dead,
         NEW o \in Socks, o = socks[s], Leave(o, nn_sock_zombify(sock[o])),
         th' = [th EXCEPT ![t].todo = @ \ {s}],
         UNCHANGED <<glock, zombie, socks, unused, nsocks, stats, slip>>
  PROVE  Safe' /\ Follows
<1> DEFINE x == sock[o]
           y == nn_sock_zombify(x)
<1> /\ Types /\ Calls /\ Table /\ Stack /\ Signals /\ Orderly /\ InCall(t) /\ \A p \in Socks : Covered(p)
  BY DEF Inv, Calls
<1>2. x \in SockObj /\ x.bad = "no" /\ (x.st = "ACTIVE" => x.ctx) /\ Leave(o, y)
  BY Alive DEF Table
<1> HIDE DEF x
<1>3. /\ y \in SockObj /\ y.st # "ACTIVE" /\ y.eps = x.eps /\ y.sdeps = x.sdeps
      /\ y.holds = x.holds /\ y.relesem = x.relesem /\ y.termsem = x.termsem
      /\ IF x.st = "ACTIVE" THEN y.st = "ZOMBIE" /\ y.bad = "no" ELSE y.st = x.st
  <2>1. CASE x.st = "ACTIVE"
    <3> DEFINE fd == [d \in Dirs |-> "signaled"]
    <3>1. y = [x EXCEPT !.st = "ZOMBIE", !.flags = Dirs, !.fd = fd]
      BY <1>2, <2>1 DEF nn_sock_zombify, nn_sock_action_zombify
    <3>2. fd \in [Dirs -> {"idle", "signaled", "closed", "lost"}] /\ "ZOMBIE" \in States
      BY DEF States
    <3> HIDE DEF fd, y
    <3> QED
      BY <1>2, <2>1, <3>1, <3>2 DEF SockObj
  <2>2. CASE x.st # "ACTIVE"
    <3>1. y = x \/ y = Bad(x, "nn_ctx_enter") \/ y = Bad(x, "ZOMBIFY")
      BY <2>2 DEF nn_sock_zombify
    <3> HIDE DEF y
    <3>2. \A w \in {"nn_ctx_enter", "ZOMBIFY"} :
            /\ Bad(x, w) \in SockObj /\ Bad(x, w).st = x.st /\ Bad(x, w).eps = x.eps /\ Bad(x, w).sdeps = x.sdeps
            /\ Bad(x, w).holds = x.holds /\ Bad(x, w).relesem = x.relesem /\ Bad(x, w).termsem = x.termsem
      BY <1>2, BadIs DEF Errors
    <3> QED
      BY <1>2, <2>2, <3>1, <3>2
  <2> QED
    BY <2>1, <2>2
<1> HIDE DEF y
<1>4. /\ sock' \in [Socks -> SockObj] /\ \A p \in Socks \ {o} : sock'[p] = sock[p]
      /\ Kept(y, sock'[o]) /\ Told(sock'[o])
  BY <1>2, <1>3, LeaveIs
<1>5. /\ sock'[o].eps = sock[o].eps /\ sock'[o].sdeps = sock[o].sdeps /\ sock'[o].holds = sock[o].holds
      /\ sock'[o].relesem = sock[o].relesem /\ sock'[o].termsem = sock[o].termsem
      /\ IF sock[o].st = "ACTIVE" THEN sock'[o].st = "ZOMBIE" /\ sock'[o].bad = "no" ELSE sock'[o].st = sock[o].st
      /\ sock'[o].st # "ACTIVE"
  BY <1>3, <1>4 DEF Kept, x
<1>6. /\ th' \in [Threads -> Call] /\ \A u \in Threads \ {t} : th'[u] = th[u]
      /\ th'[t].pc = th[t].pc /\ th'[t].op = th[t].op /\ th'[t].o = th[t].o /\ th'[t].n = th[t].n /\ th'[t].s = th[t].s
      /\ th'[t].reg = th[t].reg /\ th'[t].todo = th[t].todo \ {s}
  <2> DEFINE b == th[t]
             k == b.todo \ {s}
             c == [b EXCEPT !.todo = k]
  <2>1. th \in [Threads -> Call] /\ b \in Call /\ th' = [th EXCEPT ![t] = c]
    BY DEF Types
  <2>2. k \in SUBSET Slots
    BY <2>1 DEF Call
  <2> HIDE DEF b, k
  <2>3. c \in Call /\ c.pc = b.pc /\ c.op = b.op /\ c.o = b.o /\ c.n = b.n /\ c.s = b.s /\ c.reg = b.reg /\ c.todo = k
    BY <2>1, <2>2 DEF Call
  <2> HIDE DEF c
  <2>4. th' \in [Threads -> Call] /\ th'[t] = c /\ \A u \in Threads \ {t} : th'[u] = th[u]
    BY <2>1, <2>3
  <2> QED
    BY <2>3, <2>4 DEF b, k
<1>7. glock = t /\ \A u \in Threads \ {t} : th[u].pc \notin Locking
  BY DEF Calls, InCall, Locking
<1>8. Types'
  BY <1>4, <1>6 DEF Types
<1>9. ASSUME NEW u \in Threads
      PROVE  InCall(u)'
  <2>0. "zombify" \notin Using /\ "zombify" \notin Dropping /\ "zombify" \notin Closing /\ "zombify" \notin Ending
    BY DEF Using, Closing, Dropping, Ending
  <2>1. CASE u = t
    <3>1. th[t].o = None /\ th[t].n = 0 /\ \A r \in th[t].todo : socks[r] # None
      BY <2>0 DEF InCall
    <3> QED
      BY <1>6, <1>7, <2>0, <2>1, <3>1 DEF InCall
  <2>2. CASE u # t
    <3>1. InCall(u) /\ th'[u] = th[u] /\ th[u].pc \notin Locking
      BY <1>6, <1>7, <2>2 DEF Calls
    <3>2. sock[o].st = "ACTIVE" /\ th[u].o = o => th[u].pc \notin Closing
      BY ActiveIsOpen
    <3>3. th[u].o \in Socks => \/ sock'[th[u].o].st = sock[th[u].o].st
                               \/ sock'[th[u].o].st # "NEW" /\ th[u].pc \notin Closing \cup {"stop"}
      BY <1>4, <1>5, <3>1, <3>2 DEF Locking
    <3>4. th[u].pc \in Closing => \A v \in Threads \ {u} : th'[v].pc \in Closing => th'[v].o # th[u].o
      BY <1>6, <3>1, <2>0 DEF InCall
    <3> QED
      BY <3>1, <3>3, <3>4, StillInCall
  <2> QED
    BY <2>1, <2>2
<1>10. Table'
  <2>1. sock[o].st = "ACTIVE" => ~(sock[o].termsem > 0)
    BY DEF Table
  <2>2. \A p \in Socks : sock'[p].st \in {"NEW", "FREED"} <=> sock[p].st \in {"NEW", "FREED"}
    BY <1>4, <1>5
  <2>3. \A r \in Slots : socks[r] # None => socks[r] \in Socks
    BY DEF Types
  <2>4. \A p \in Socks : /\ sock'[p].termsem > 0 => sock'[p].st = "FINI"
                         /\ sock'[p].st = "ACTIVE" => sock'[p].ctx
    BY <1>4, <1>5, <2>1 DEF Table
  <2> QED
    BY <2>2, <2>3, <2>4 DEF Table
<1>11. Stack'
  BY DEF Stack, TableSound
<1>12. Signals'
  BY <1>4 DEF Signals
<1>13. Orderly'
  <2> SUFFICES ASSUME ~slip
               PROVE  Orderly'
    BY DEF Orderly
  <2>1. zombie /\ sock[o].st = "ACTIVE" /\ sock[o].eps = {} /\ sock[o].sdeps = {}
    BY CoreAssumption DEF Orderly
  <2>2. ~Dead'
    BY <1>4, <1>5, <2>1 DEF Orderly, Dead
  <2>3. \A p \in Socks : /\ sock'[p].st \notin {"ACTIVE", "STOPPING_EPS"} => sock'[p].eps = {} /\ sock'[p].sdeps = {}
                         /\ sock'[p].st = "STOPPING_EPS" => sock'[p].eps = {}
    BY <1>4, <1>5, <2>1 DEF Orderly
  <2>4. \A u \in Threads : th'[u].pc = "held" => u # t /\ th[u].o \in Socks /\ th'[u] = th[u]
    BY <1>6 DEF Calls, InCall, Using
  <2>5. \A u \in Threads : ~(th'[u].pc = "held" /\ th'[u].op = "bind")
    BY <2>1, <2>4 DEF Orderly
  <2>6. \A u \in Threads : th'[u].pc = "held" /\ th'[u].op = "opt" => sock'[th'[u].o].st \in {"ACTIVE", "ZOMBIE"}
    BY <1>4, <1>5, <2>1, <2>4 DEF Orderly
  <2>7. \A r \in Slots : socks[r] # None =>
                   /\ sock'[socks[r]].st \in {"ACTIVE", "ZOMBIE"}
                   /\ sock'[socks[r]].eps = {} /\ sock'[socks[r]].sdeps = {}
    BY <1>4, <1>5, <2>1 DEF Orderly, Types
  <2>8. \A u \in Threads : th'[u].pc = "zombify" => \A r \in th'[u].todo : sock'[socks[r]].st = "ACTIVE"
    <3> SUFFICES ASSUME NEW u \in Threads, th'[u].pc = "zombify", NEW r \in th'[u].todo
                 PROVE  sock'[socks[r]].st = "ACTIVE"
      OBVIOUS
    <3>1. u = t
      BY <1>6, <1>7 DEF Locking
    <3>2. r \in th[t].todo /\ r # s /\ r \in Slots
      BY <1>6, <3>1 DEF Types, Call
    <3>3. socks[r] \in Socks \ {o} /\ sock[socks[r]].st = "ACTIVE"
      BY <3>2, CoreAssumption DEF Orderly, Table, InCall, Types
    <3> QED
      BY <1>4, <3>3
  <2> QED
    BY <2>1, <2>2, <2>3, <2>5, <2>6, <2>7, <2>8 DEF Orderly
<1>14. \A p \in Socks : UNCHANGED Life(p)!vars
  <2> TAKE p \in Socks
  <2>1. Phase(sock'[p]) = Phase(sock[p]) /\ sock'[p].holds = sock[p].holds /\ sock'[p].relesem = sock[p].relesem
    BY <1>4, <1>5 DEF Phase
  <2> QED
    BY <1>6, <2>1, SameLife
<1> QED
  BY <1>8, <1>9, <1>10, <1>11, <1>12, <1>13, <1>14 DEF Safe, Follows, Calls

\* The worker that collects statistics: it changes no socket, but an error of
\* its own ends the process.
LEMMA StatStep ==
  ASSUME Inv, slip, UNCHANGED <<glock, zombie, socks, unused, nsocks, th, slip>>,
         stats' \in [mode : {"off", "print", "socket"}, at : Int, in : Socks \cup {None}, rounds : Nat],
         sock' \in [Socks -> SockObj],
         \A p \in Socks : Same(sock[p], sock'[p]) /\ sock'[p].holds = sock[p].holds /\ sock'[p].relesem = sock[p].relesem
  PROVE  Safe' /\ Follows
<1> /\ Types /\ Calls /\ Table /\ Stack /\ Signals /\ \A p \in Socks : Covered(p)
  BY DEF Inv
<1>2. Types'
  BY DEF Types
<1>3. ASSUME NEW u \in Threads
      PROVE  InCall(u)'
  <2>1. InCall(u) /\ th' = th
    BY DEF Calls
  <2>2. th[u].o \in Socks => sock'[th[u].o].st = sock[th[u].o].st
    BY DEF Same
  <2>3. th[u].pc \in Closing => \A v \in Threads \ {u} : th'[v].pc \in Closing => th'[v].o # th[u].o
    BY <2>1 DEF InCall
  <2> QED
    BY <2>1, <2>2, <2>3, StillInCall
<1>4. Table'
  BY DEF Types, Table, Same
<1>5. Stack'
  BY DEF Stack, TableSound
<1>6. Signals'
  BY DEF Signals, Told, Shown, Same
<1>7. Orderly'
  BY DEF Orderly
<1>8. \A p \in Socks : UNCHANGED Life(p)!vars
  <2> TAKE p \in Socks
  <2>1. Phase(sock'[p]) = Phase(sock[p]) /\ sock'[p].holds = sock[p].holds /\ sock'[p].relesem = sock[p].relesem
    BY DEF Phase, Same
  <2> QED
    BY <2>1, SameLife
<1> QED
  BY <1>2, <1>3, <1>4, <1>5, <1>6, <1>7, <1>8 DEF Safe, Follows, Calls

\* The timer fires.
LEMMA StatTimerKeeps ==
  ASSUME Inv, StatTimer
  PROVE  Safe' /\ Follows
<1>1. Types /\ slip
  BY DEF Inv, Orderly, StatTimer
<1>2. UNCHANGED <<glock, zombie, socks, unused, nsocks, sock, th, slip>> /\ stats' = [stats EXCEPT !.at = 0, !.rounds = @ + 1]
  BY DEF StatTimer
<1>3. stats' \in [mode : {"off", "print", "socket"}, at : Int, in : Socks \cup {None}, rounds : Nat]
  <2>1. PICK k \in Int, n \in Nat : k = 0 /\ n = stats.rounds + 1
    BY <1>1 DEF Types
  <2>2. stats' = [stats EXCEPT !.at = k, !.rounds = n]
    BY <1>2, <2>1
  <2> QED
    BY <1>1, <2>2 DEF Types
<1>4. /\ sock' \in [Socks -> SockObj]
      /\ \A p \in Socks : Same(sock[p], sock'[p]) /\ sock'[p].holds = sock[p].holds /\ sock'[p].relesem = sock[p].relesem
  BY <1>1, <1>2 DEF Types, Same
<1> QED
  BY <1>1, <1>2, <1>3, <1>4, StatStep

\* The worker goes through the slots.
LEMMA SubmitKeeps ==
  ASSUME Inv, nn_global_submit_statistics
  PROVE  Safe' /\ Follows
<1> DEFINE o == IF stats.at \in Slots THEN socks[stats.at] ELSE None
           next == IF stats.at = MaxSockets - 1 THEN -1 ELSE stats.at + 1
           Sts == [mode : {"off", "print", "socket"}, at : Int, in : Socks \cup {None}, rounds : Nat]
<1>1. Types /\ Table /\ slip
  BY DEF Inv, Orderly, nn_global_submit_statistics
<1>2. stats \in Sts /\ next \in Int /\ o \in Socks \cup {None}
  BY <1>1, CoreAssumption DEF Types
<1>3. /\ UNCHANGED <<glock, zombie, socks, unused, nsocks, th, slip>>
      /\ \/ stats' = [stats EXCEPT !.at = next] /\ UNCHANGED sock
         \/ stats' = [stats EXCEPT !.in = o] /\ UNCHANGED sock
         \/ o # None /\ ~sock[o].ctx /\ sock' = [sock EXCEPT ![o] = Bad(@, "nn_ctx_enter")] /\ UNCHANGED stats
         \/ stats' = [stats EXCEPT !.in = None, !.at = next] /\ UNCHANGED sock
  BY DEF nn_global_submit_statistics
<1> HIDE DEF o, next
<1>4. stats' \in Sts
  BY <1>2, <1>3
<1>5. /\ sock' \in [Socks -> SockObj]
      /\ \A p \in Socks : Same(sock[p], sock'[p]) /\ sock'[p].holds = sock[p].holds /\ sock'[p].relesem = sock[p].relesem
  <2>1. sock \in [Socks -> SockObj]
    BY <1>1 DEF Types
  <2>2. CASE UNCHANGED sock
    BY <2>1, <2>2 DEF Same
  <2>3. CASE o # None /\ ~sock[o].ctx /\ sock' = [sock EXCEPT ![o] = Bad(@, "nn_ctx_enter")]
    <3> DEFINE x == sock[o]
               y == Bad(x, "nn_ctx_enter")
    <3>1. o \in Socks /\ x \in SockObj /\ x.st # "ACTIVE" /\ sock' = [sock EXCEPT ![o] = y]
      BY <1>1, <1>2, <2>1, <2>3 DEF Table
    <3> HIDE DEF x
    <3>2. y \in SockObj
      BY <3>1, BadIs DEF Errors
    <3>3. Same(x, y) /\ y.holds = x.holds /\ y.relesem = x.relesem
      BY <1>1, <3>1 DEF Bad, Same, SockObj
    <3> HIDE DEF y
    <3>4. sock' \in [Socks -> SockObj] /\ sock'[o] = y /\ \A p \in Socks \ {o} : sock'[p] = sock[p]
      BY <2>1, <3>1, <3>2
    <3>5. \A p \in Socks \ {o} : Same(sock[p], sock[p])
      BY DEF Same
    <3> QED
      BY <3>3, <3>4, <3>5 DEF x
  <2> QED
    BY <1>3, <2>2, <2>3
<1> QED
  BY <1>1, <1>3, <1>4, <1>5, StatStep

-----------------------------------------------------------------------------
INSTANCE FiniteSetTheorems

\* The cardinality after one reference goes, and after one comes.
LEMMA Removed ==
  ASSUME NEW S, IsFiniteSet(S), NEW x \in S
  PROVE  /\ IsFiniteSet(S \ {x})
         /\ Cardinality(S) \in Nat /\ Cardinality(S \ {x}) = Cardinality(S) - 1
         /\ Cardinality(S) >= 1
         /\ Cardinality(S) = 1 => S \ {x} = {}
<1>1. /\ IsFiniteSet(S \ {x}) /\ Cardinality(S \ {x}) = Cardinality(S) - 1
  BY FS_RemoveElement
<1>2. Cardinality(S) \in Nat /\ Cardinality(S \ {x}) \in Nat
  BY <1>1, FS_CardinalityType
<1>3. Cardinality(S \ {x}) = 0 => S \ {x} = {}
  BY <1>1, FS_EmptySet
<1> QED
  BY <1>1, <1>2, <1>3

\* A socket that does not exist yet is referred to by nobody.
LEMMA NewIsHeld ==
  ASSUME NEW o \in Socks, Life(o)!Init
  PROVE  Covered(o)
  BY FS_EmptySet DEF Life!Init, Covered

\* A socket enters the table with the table's reference and one hold.
LEMMA CreateStep ==
  ASSUME NEW o \in Socks, Covered(o), Life(o)!Create
  PROVE  Covered(o)'
<1>1. IsFiniteSet({<<None, 1>>}) /\ Cardinality({<<None, 1>>}) = 1
  BY FS_Singleton
<1>2. sock'[o].holds = sock[o].holds /\ Read(o)' = Read(o) /\ Refs(o)' = {<<None, 1>>}
  BY DEF Life!Create
<1> QED
  BY <1>1, <1>2 DEF Covered, Life!Create

\* A call on an open socket adds a reference and one to the counter, while
\* nobody is in the middle of a decrement.
LEMMA HoldStep ==
  ASSUME NEW o \in Socks, Covered(o), NEW t \in Threads, Life(o)!Hold(t)
  PROVE  Covered(o)'
<1>1. IsFiniteSet(Refs(o)) /\ <<t, 1>> \notin Refs(o)
  BY DEF Covered, Life!Hold
<1>2. IsFiniteSet(Refs(o)') /\ Cardinality(Refs(o)') = Cardinality(Refs(o)) + 1
  BY <1>1, FS_AddElement DEF Life!Hold
<1>3. Cardinality(Refs(o)) \in Nat
  BY <1>1, FS_CardinalityType
<1>4. \A u \in Threads : Read(o)'[u] = -1
  BY DEF Life!Hold, Life!Between
<1>5. Refs(o)' \subseteq (Threads \cup {None}) \X {1, 2} /\ \A u \in Threads : <<u, 2>> \notin Refs(o)'
  BY DEF Covered, Life!Hold
<1> QED
  BY <1>2, <1>3, <1>4, <1>5 DEF Covered, Life!Hold

\* nn_close takes the table's reference over: their number stays the same.
LEMMA CloseStep ==
  ASSUME NEW o \in Socks, Covered(o), NEW t \in Threads, Life(o)!Close(t)
  PROVE  Covered(o)'
<1> DEFINE rest == Refs(o) \ {<<None, 1>>}
<1>1. IsFiniteSet(Refs(o)) /\ <<None, 1>> \in Refs(o) /\ <<t, 2>> \notin Refs(o)
  BY DEF Covered, Life!Close
<1>2. IsFiniteSet(rest) /\ Cardinality(rest) = Cardinality(Refs(o)) - 1 /\ Cardinality(Refs(o)) \in Nat
  BY <1>1, Removed
<1>3. <<t, 2>> \notin rest
  BY <1>1
<1>4. IsFiniteSet(rest \cup {<<t, 2>>}) /\ Cardinality(rest \cup {<<t, 2>>}) = Cardinality(rest) + 1
  BY <1>2, <1>3, FS_AddElement
<1>5. Refs(o)' = rest \cup {<<t, 2>>}
  BY DEF Life!Close
<1>6. IsFiniteSet(Refs(o)') /\ Cardinality(Refs(o)') = Cardinality(Refs(o))
  BY <1>2, <1>4, <1>5
<1>7. Refs(o)' \subseteq (Threads \cup {None}) \X {1, 2}
  BY <1>5 DEF Covered
<1> QED
  BY <1>6, <1>7 DEF Covered, Life!Close

\* The first half of a decrement reads a counter that is high enough.
LEMMA ReadStep ==
  ASSUME NEW o \in Socks, Covered(o), NEW t \in Threads, Life(o)!Read(t)
  PROVE  Covered(o)'
<1>1. Stage(o) # "new"
  BY DEF Covered, Life!Read
<1>2. Read(o)' \in [Threads -> Nat \cup {-1}] /\ \A u \in Threads : Read(o)'[u] # -1 => Read(o)'[u] >= Cardinality(Refs(o))
  BY DEF Covered, Life!Read
<1> QED
  BY <1>1, <1>2 DEF Covered, Life!Read

\* The second half: a reference goes, and what is written is high enough for
\* the others.  It is zero only when no reference is left.
LEMMA WriteStep ==
  ASSUME NEW o \in Socks, Covered(o), NEW t \in Threads, Life(o)!Write(t)
  PROVE  Covered(o)'
<1>1. PICK n \in 1 .. 2 : <<t, n>> \in Refs(o) /\ Refs(o)' = Refs(o) \ {<<t, n>>}
  BY DEF Life!Write
<1>2. IsFiniteSet(Refs(o))
  BY DEF Covered
<1>3. /\ IsFiniteSet(Refs(o)') /\ Cardinality(Refs(o)) \in Nat
      /\ Cardinality(Refs(o)') = Cardinality(Refs(o)) - 1 /\ Cardinality(Refs(o)) >= 1
      /\ Cardinality(Refs(o)) = 1 => Refs(o)' = {}
  BY <1>1, <1>2, Removed
<1>4. Read(o)[t] \in Nat /\ Read(o)[t] >= Cardinality(Refs(o))
  BY DEF Covered, Life!Write
<1>5. sock'[o].holds = Read(o)[t] - 1 /\ sock'[o].holds \in Nat /\ sock'[o].holds >= Cardinality(Refs(o)')
  BY <1>3, <1>4 DEF Life!Write
<1>6. Read(o)' \in [Threads -> Nat \cup {-1}]
  BY DEF Covered, Life!Write
<1>7. \A u \in Threads : Read(o)'[u] # -1 => Read(o)'[u] >= Cardinality(Refs(o)')
  BY <1>3 DEF Covered, Life!Write
<1>8. Stage(o) # "new" /\ Stage(o)' = Stage(o)
  BY <1>1 DEF Covered, Life!Write
<1>9. Stage(o) = "open" => <<None, 1>> \in Refs(o)' /\ Read(o)[t] # 1
  <2> SUFFICES ASSUME Stage(o) = "open" PROVE <<None, 1>> \in Refs(o)' /\ Read(o)[t] # 1
    OBVIOUS
  <2>1. <<None, 1>> \in Refs(o)'
    BY <1>1, CoreAssumption DEF Covered
  <2>2. Refs(o)' # {}
    BY <2>1
  <2> QED
    BY <2>1, <2>2, <1>3, <1>4
<1>10. sock'[o].relesem \in Nat /\ (sock'[o].relesem > 0 => Refs(o)' = {}) /\ (Stage(o) = "open" => sock'[o].relesem = 0)
  <2>1. sock[o].relesem \in Nat /\ (sock[o].relesem > 0 => Refs(o) = {}) /\ (Stage(o) = "open" => sock[o].relesem = 0)
    BY DEF Covered
  <2>2. sock'[o].relesem = IF Read(o)[t] = 1 THEN sock[o].relesem + 1 ELSE sock[o].relesem
    BY DEF Life!Write
  <2>3. Read(o)[t] = 1 => Refs(o)' = {}
    BY <1>3, <1>4
  <2> QED
    BY <2>1, <2>2, <2>3, <1>1, <1>9
<1>11. Refs(o)' \subseteq Refs(o)
  BY <1>1
<1>12. Stage(o) \in {"ending", "freed"} => Refs(o)' = {}
  BY <1>1 DEF Covered
<1>13. Refs(o)' \subseteq (Threads \cup {None}) \X {1, 2}
  BY <1>11 DEF Covered
<1>14. Stage(o) \in {"new", "open"} => \A u \in Threads : <<u, 2>> \notin Refs(o)'
  BY <1>11 DEF Covered
<1>15. Stage(o) \in {"new", "open", "closing", "ending", "freed"}
  BY DEF Covered
<1> QED
  BY <1>3, <1>5, <1>6, <1>7, <1>8, <1>9, <1>10, <1>12, <1>13, <1>14, <1>15 DEF Covered

\* Every use of a socket that Lifetime allows keeps the references covered.
LEMMA StaysCovered ==
  ASSUME NEW o \in Socks, Covered(o), Life(o)!Next \/ UNCHANGED Life(o)!vars
  PROVE  Covered(o)'
<1>1. CASE Life(o)!Create BY <1>1, CreateStep
<1>2. CASE Life(o)!Wait BY <1>2 DEF Covered, Life!Wait
<1>3. CASE Life(o)!Free BY <1>3 DEF Covered, Life!Free
<1>4. ASSUME NEW t \in Threads, Life(o)!Hold(t) PROVE Covered(o)' BY <1>4, HoldStep
<1>5. ASSUME NEW t \in Threads, Life(o)!Close(t) PROVE Covered(o)' BY <1>5, CloseStep
<1>6. ASSUME NEW t \in Threads, Life(o)!Read(t) PROVE Covered(o)' BY <1>6, ReadStep
<1>7. ASSUME NEW t \in Threads, Life(o)!Write(t) PROVE Covered(o)' BY <1>7, WriteStep
<1>8. CASE UNCHANGED Life(o)!vars BY <1>8 DEF Covered, Life!vars
<1> QED
  BY <1>1, <1>2, <1>3, <1>4, <1>5, <1>6, <1>7, <1>8 DEF Life!Next

-----------------------------------------------------------------------------
\* The table.

\* As many slots as MaxSockets, and finitely many of them in any part.
LEMMA SlotsAre ==
  /\ IsFiniteSet(Slots) /\ Cardinality(Slots) = MaxSockets
  /\ \A S : S \subseteq Slots => IsFiniteSet(S) /\ Cardinality(S) \in Nat /\ Cardinality(S) <= MaxSockets
                                 /\ (Cardinality(S) = MaxSockets => S = Slots)
<1>1. IsFiniteSet(Slots) /\ Cardinality(Slots) = MaxSockets
  <2>1. MaxSockets \in Nat /\ 0 \in Int /\ MaxSockets - 1 \in Int
    BY CoreAssumption
  <2>2. /\ IsFiniteSet(0 .. MaxSockets - 1)
        /\ Cardinality(0 .. MaxSockets - 1) = IF 0 > MaxSockets - 1 THEN 0 ELSE (MaxSockets - 1) - 0 + 1
    BY <2>1, FS_Interval
  <2> QED
    BY <2>1, <2>2 DEF Slots
<1> QED
  BY <1>1, FS_Subset, FS_CardinalityType

\* A slot taken from the top of the stack is an unused one.
LEMMA SlotTaken ==
  ASSUME Types, Stack, nsocks < MaxSockets, NEW s, s = unused[MaxSockets - nsocks - 1],
         NEW o \in Socks, socks' = [socks EXCEPT ![s] = o], nsocks' = nsocks + 1, UNCHANGED unused
  PROVE  s \in Slots /\ socks[s] = None /\ Stack'
<1> DEFINE top == MaxSockets - nsocks - 1
           free == {unused[i] : i \in 0 .. top}
<1>1. /\ MaxSockets \in Nat /\ nsocks \in Nat /\ top \in Slots /\ s = unused[top] /\ o # None
      /\ socks \in [Slots -> Socks \cup {None}] /\ unused \in [Slots -> Slots]
  BY CoreAssumption DEF Types, Slots
<1>2. free = {r \in Slots : socks[r] = None} /\ Cardinality(free) = MaxSockets - nsocks
  BY DEF Stack, TableSound
<1>3. \A i, j \in 0 .. top : unused[i] = unused[j] => i = j
  BY DEF Stack
<1>4. s \in free /\ s \in Slots /\ socks[s] = None
  BY <1>1, <1>2 DEF Slots
<1>5. MaxSockets - nsocks' - 1 = top - 1
  BY <1>1
<1> DEFINE rest == {unused[i] : i \in 0 .. top - 1}
<1>6. rest = free \ {s}
  <2>1. top \in Int /\ top >= 0
    BY <1>1 DEF Slots
  <2>2. 0 .. top = (0 .. top - 1) \cup {top} /\ top \notin 0 .. top - 1 /\ top \in 0 .. top
    BY <2>1
  <2> HIDE DEF top
  <2>3. \A i \in 0 .. top - 1 : unused[i] # s
    BY <1>1, <1>3, <2>2
  <2> QED
    BY <1>1, <2>2, <2>3
<1>7. Cardinality(free \ {s}) = Cardinality(free) - 1
  <2>1. IsFiniteSet(free)
    BY <1>2, SlotsAre
  <2> HIDE DEF free
  <2> QED
    BY <1>4, <2>1, FS_RemoveElement
<1>8. free \ {s} = {r \in Slots : socks'[r] = None}
  BY <1>1, <1>2, <1>4
<1>9. TableSound'
  <2>1. {unused'[i] : i \in 0 .. MaxSockets - nsocks' - 1} = rest
    BY <1>5
  <2>2. MaxSockets - nsocks' = Cardinality(free) - 1
    BY <1>1, <1>2
  <2> HIDE DEF rest, free
  <2> QED
    BY <1>6, <1>7, <1>8, <2>1, <2>2 DEF TableSound
<1>10. \A i, j \in 0 .. MaxSockets - nsocks' - 1 : unused'[i] = unused'[j] => i = j
  BY <1>1, <1>3, <1>5
<1> QED
  BY <1>4, <1>9, <1>10 DEF Stack

\* A slot given back goes on top of the stack; the last one leaves the table empty.
LEMMA SlotBack ==
  ASSUME Types, Stack, NEW s \in Slots, socks[s] # None, socks' = [socks EXCEPT ![s] = None],
         unused' = [unused EXCEPT ![MaxSockets - nsocks] = s], nsocks' = nsocks - 1
  PROVE  nsocks \in 1 .. MaxSockets /\ Stack' /\ (nsocks = 1 => \A r \in Slots : socks'[r] = None)
<1> DEFINE top == MaxSockets - nsocks
           free == {unused[i] : i \in 0 .. top - 1}
           more == {unused'[i] : i \in 0 .. top}
<1>1. /\ MaxSockets \in Nat /\ nsocks \in Nat /\ nsocks <= MaxSockets /\ top \in Nat
      /\ socks \in [Slots -> Socks \cup {None}] /\ unused \in [Slots -> Slots]
  BY CoreAssumption DEF Types
<1>2. free = {r \in Slots : socks[r] = None} /\ Cardinality(free) = top
  BY DEF Stack, TableSound
<1>3. \A i, j \in 0 .. top - 1 : unused[i] = unused[j] => i = j
  BY DEF Stack
<1>4. free \subseteq Slots /\ s \notin free /\ IsFiniteSet(free)
  BY <1>2, SlotsAre
<1>5. nsocks >= 1 /\ top \in Slots
  <2>1. top # MaxSockets
    BY <1>2, <1>4, SlotsAre
  <2> QED
    BY <1>1, <2>1 DEF Slots
<1>6. unused'[top] = s /\ \A i \in 0 .. top - 1 : unused'[i] = unused[i]
  BY <1>1, <1>5 DEF Slots
<1>7. more = free \cup {s}
  BY <1>1, <1>6
<1>8. Cardinality(free \cup {s}) = top + 1
  <2> HIDE DEF free, top
  <2> QED
    BY <1>2, <1>4, FS_AddElement
<1>9. free \cup {s} = {r \in Slots : socks'[r] = None}
  BY <1>1, <1>2
<1>10. MaxSockets - nsocks' - 1 = top /\ MaxSockets - nsocks' = top + 1
  BY <1>1
<1>11. TableSound'
  BY <1>7, <1>8, <1>9, <1>10 DEF TableSound
<1>12. \A i, j \in 0 .. top : unused'[i] = unused'[j] => i = j
  <2>1. \A i \in 0 .. top - 1 : unused'[i] \in free
    BY <1>6
  <2> QED
    BY <1>1, <1>3, <1>4, <1>6, <2>1
<1>13. nsocks = 1 => \A r \in Slots : socks'[r] = None
  BY <1>1, <1>4, <1>8, <1>9, SlotsAre
<1> QED
  BY <1>1, <1>5, <1>10, <1>11, <1>12, <1>13 DEF Stack

\* The library comes back with an empty table.
LEMMA ExitKeeps ==
  ASSUME Inv, NEW t \in Threads, nn_global_term(t)
  PROVE  Safe' /\ Follows
<1>1. /\ th[t].pc = "exit" /\ glock' = None /\ unused' = [i \in Slots |-> MaxSockets - i - 1] /\ Return(t)
      /\ UNCHANGED <<zombie, socks, nsocks, sock, stats, slip>>
  BY DEF nn_global_term, At
<1>2. Stack /\ Types /\ \A s \in Slots : socks[s] = None
  BY <1>1 DEF Inv, Calls, InCall
<1>3. nsocks = 0 /\ MaxSockets \in Nat /\ {s \in Slots : socks[s] = None} = Slots
  <2>1. MaxSockets \in Nat /\ nsocks \in 0 .. MaxSockets /\ {s \in Slots : socks[s] = None} = Slots
    BY <1>2, CoreAssumption DEF Types
  <2>2. Cardinality(Slots) = MaxSockets - nsocks
    BY <1>2, <2>1 DEF Stack, TableSound
  <2>3. Cardinality(Slots) = MaxSockets
    BY SlotsAre
  <2> QED
    BY <2>1, <2>2, <2>3
<1>4. /\ unused' \in [Slots -> Slots] /\ (\A i, j \in 0 .. MaxSockets - 1 : unused'[i] = unused'[j] => i = j)
      /\ {unused'[i] : i \in 0 .. MaxSockets - 1} = Slots
  BY <1>1, NewStack
<1>5. MaxSockets - nsocks' - 1 = MaxSockets - 1 /\ MaxSockets - nsocks' = MaxSockets
  BY <1>1, <1>3
<1>6. TableSound'
  BY <1>1, <1>3, <1>4, <1>5, SlotsAre DEF TableSound
<1>7. Stack'
  BY <1>4, <1>5, <1>6 DEF Stack
<1> QED
  BY <1>1, <1>4, <1>7, ReturnKeeps

\* A nonempty set of slots has a least element.
LEMMA LeastSlot ==
  ASSUME NEW S \in SUBSET Slots, S # {}
  PROVE  \E s \in S : \A r \in S : s <= r
<1> DEFINE R == {ss \in Nat \X Nat : ss[1] < ss[2]}
<1>1. IsWellFoundedOn(R, Nat)
  BY NatLessThanWellFounded, Zenon DEF OpToRel
<1>2. \A x, y \in Nat : <<y, x>> \in R <=> y < x
  OBVIOUS
<1>3. S \subseteq Nat
  BY CoreAssumption DEF Slots
<1> HIDE DEF R
<1>4. PICK s \in S : \A r \in S : ~ (<<r, s>> \in R)
  BY <1>1, <1>3, WFMin
<1>5. \A r \in S : ~ (r < s) /\ r \in Nat /\ s \in Nat
  BY <1>2, <1>3, <1>4
<1> QED
  BY <1>5

\* One step of nn_term.
LEMMA TermStepKeeps ==
  ASSUME Inv, NEW t \in Threads, TermStep(t)
  PROVE  Safe' /\ Follows
<1>1. th[t].pc = "zombify" /\ ~Dead /\ UNCHANGED <<zombie, socks, unused, nsocks, stats, slip>>
  BY DEF TermStep, At
<1>2. Types /\ Stack /\ InCall(t)
  BY DEF Inv, Calls
<1>3. CASE th[t].todo = {}
  <2>1. glock' = None /\ Return(t) /\ UNCHANGED sock
    BY <1>3 DEF TermStep
  <2>2. Stack' /\ unused' \in [Slots -> Slots]
    BY <1>1, <1>2 DEF Stack, TableSound, Types
  <2> QED
    BY <1>1, <2>1, <2>2, ReturnKeeps
<1>4. CASE th[t].todo # {}
  <2> DEFINE s == CHOOSE s \in th[t].todo : \A r \in th[t].todo : s <= r
  <2>1. /\ Leave(socks[s], nn_sock_zombify(sock[socks[s]]))
        /\ th' = [th EXCEPT ![t].todo = @ \ {s}] /\ UNCHANGED glock
    BY <1>4 DEF TermStep
  <2>2. th[t].todo \in SUBSET Slots
    BY <1>2 DEF Types, Call
  <2>3. s \in th[t].todo
    BY <1>4, <2>2, LeastSlot
  <2>4. PICK r : r = s
    OBVIOUS
  <2> HIDE DEF s
  <2>5. r \in Slots /\ r \in th[t].todo /\ socks[r] \in Socks
    BY <1>1, <1>2, <2>2, <2>3, <2>4 DEF InCall, Types
  <2>6. PICK o \in Socks : o = socks[r]
    BY <2>5
  <2>7. Leave(o, nn_sock_zombify(sock[o])) /\ th' = [th EXCEPT ![t].todo = @ \ {r}]
    BY <2>1, <2>4, <2>6
  <2> QED
    BY <1>1, <2>1, <2>5, <2>6, <2>7, ZombifyKeeps
<1> QED
  BY <1>3, <1>4

-----------------------------------------------------------------------------
\* The inductive argument.

\* In the beginning there is no socket and no call.
LEMMA InitInv ==
  Init => Inv /\ \A o \in Socks : Life(o)!Init
<1> SUFFICES ASSUME Init
             PROVE  Inv /\ \A o \in Socks : Life(o)!Init
  OBVIOUS
<1> DEFINE x == [nn_sock_init EXCEPT !.st = "NEW"]
<1>1. /\ x \in SockObj /\ x.st = "NEW" /\ x.holds = 1 /\ x.relesem = 0 /\ x.termsem = 0 /\ x.bad = "no"
      /\ x.eps = {} /\ x.sdeps = {}
  <2>1. /\ nn_sock_init \in SockObj /\ nn_sock_init.holds = 1 /\ nn_sock_init.relesem = 0
        /\ nn_sock_init.termsem = 0 /\ nn_sock_init.bad = "no" /\ nn_sock_init.eps = {} /\ nn_sock_init.sdeps = {}
    BY DEF nn_sock_init, SockObj, States, Errors
  <2>2. "NEW" \in States
    BY DEF States
  <2> QED
    BY <2>1, <2>2 DEF SockObj
<1>2. sock = [o \in Socks |-> x]
  BY DEF Init
<1> HIDE DEF x
<1>3. Idle \in Call /\ Idle.pc = "idle" /\ Idle.o = None /\ Idle.n = 0
  BY DEF Idle, Call
<1>4. /\ glock = None /\ zombie = FALSE /\ nsocks = 0 /\ socks = [s \in Slots |-> None]
      /\ unused = [i \in Slots |-> MaxSockets - i - 1] /\ th = [t \in Threads |-> Idle]
      /\ stats \in [mode : {"off", "print", "socket"}, at : {-1}, in : {None}, rounds : {0}]
      /\ slip = (stats.mode # "off") /\ MaxSockets \in Nat
  BY CoreAssumption DEF Init
<1>5. /\ unused \in [Slots -> Slots] /\ (\A i, j \in 0 .. MaxSockets - 1 : unused[i] = unused[j] => i = j)
      /\ {unused[i] : i \in 0 .. MaxSockets - 1} = Slots
  <2>1. unused = [i \in Slots |-> MaxSockets - i - 1]
    BY <1>4
  <2> QED
    BY <2>1, NewStack
<1>6. Types
  <2>1. sock \in [Socks -> SockObj] /\ th \in [Threads -> Call]
    BY <1>1, <1>2, <1>3, <1>4
  <2>2. stats \in [mode : {"off", "print", "socket"}, at : Int, in : Socks \cup {None}, rounds : Nat] /\ slip \in BOOLEAN
    BY <1>4
  <2>3. socks \in [Slots -> Socks \cup {None}] /\ glock \in Threads \cup {None} /\ zombie \in BOOLEAN
    BY <1>4
  <2>4. nsocks \in 0 .. MaxSockets
    BY <1>4
  <2> QED
    BY <1>5, <2>1, <2>2, <2>3, <2>4 DEF Types
<1>7. Calls
  <2>1. "idle" \notin Using /\ "idle" \notin Locking /\ "idle" \notin Dropping /\ "idle" \notin Closing /\ "idle" \notin Ending
    BY DEF Locking, Using, Closing, Dropping, Ending
  <2> QED
    BY <1>3, <1>4, <2>1 DEF Calls, InCall
<1>8. Table
  BY <1>1, <1>2, <1>4 DEF Table
<1>9. Stack
  <2>1. MaxSockets - nsocks - 1 = MaxSockets - 1 /\ MaxSockets - nsocks = MaxSockets
    BY <1>4
  <2>2. {s \in Slots : socks[s] = None} = Slots
    BY <1>4
  <2>3. TableSound
    BY <1>5, <2>1, <2>2, SlotsAre DEF TableSound
  <2> QED
    BY <1>5, <2>1, <2>3 DEF Stack
<1>10. Signals
  BY <1>1, <1>2 DEF Signals, Told
<1>11. Orderly
  <2>1. ~Dead
    BY <1>1, <1>2 DEF Dead
  <2>2. ~slip => stats.mode = "off" /\ stats.at = -1 /\ stats.in = None
    BY <1>4
  <2> QED
    BY <1>1, <1>2, <1>3, <1>4, <2>1, <2>2 DEF Orderly
<1>12. \A o \in Socks : Life(o)!Init
  <2> TAKE o \in Socks
  <2>1. Stage(o) = "new"
    BY <1>1, <1>2 DEF Stage
  <2>2. \A u \in Threads : th[u].o # o
    BY <1>3, <1>4, CoreAssumption
  <2>3. Refs(o) = {}
    <3> SUFFICES ASSUME NEW r
                 PROVE  r \notin Refs(o)
      OBVIOUS
    <3> QED
      BY <1>1, <1>2, <2>2, RefsAre
  <2>4. Read(o) = [t \in Threads |-> -1]
    BY <2>2 DEF Read
  <2> QED
    BY <1>1, <1>2, <2>1, <2>3, <2>4 DEF Life!Init
<1>13. \A o \in Socks : Covered(o)
  BY <1>12, NewIsHeld
<1> QED
  BY <1>6, <1>7, <1>8, <1>9, <1>10, <1>11, <1>12, <1>13 DEF Inv

\* A step of a thread.
LEMMA ThreadStep ==
  ASSUME Inv, NEW t \in Threads, Begin(t) \/ Continue(t) \/ GiveUp(t)
  PROVE  Safe' /\ Follows
<1>1. CASE nn_socket(t)
  <2>1. PICK s : s = unused[MaxSockets - nsocks - 1]
    OBVIOUS
  <2>2. PICK o \in Socks : socks' = [socks EXCEPT ![s] = o]
    BY <1>1, <2>1, CoreAssumption DEF nn_socket
  <2>3. Types /\ Stack /\ nsocks < MaxSockets /\ nsocks' = nsocks + 1 /\ UNCHANGED unused
    BY <1>1 DEF nn_socket, Inv
  <2>4. Stack'
    BY <2>1, <2>2, <2>3, SlotTaken
  <2> QED
    BY <1>1, <2>4, SocketKeeps
<1>2. CASE TermBegin(t) BY <1>2, TermBeginKeeps
<1>3. ASSUME NEW s \in Slots, CloseBegin(t, s)
      PROVE  Safe' /\ Follows
  <2>1. PICK o \in Socks : o = socks[s]
    BY <1>3 DEF CloseBegin, CanHold, Inv, Types
  <2>2. /\ th[t].pc = "idle" /\ glock = None /\ CanHold(s) /\ glock' = t
        /\ sock' = [sock EXCEPT ![o].holds = @ + 1]
        /\ th' = [th EXCEPT ![t] = [Idle EXCEPT !.pc = "stop", !.op = "close", !.o = o, !.s = s]]
        /\ UNCHANGED <<zombie, socks, unused, nsocks, stats, slip>>
    BY <1>3, <2>1 DEF CloseBegin, At, Unlocked
  <2> QED
    BY <2>1, <2>2, HoldKeeps
<1>4. ASSUME NEW s \in Slots, NEW op \in Ops, nn_global_hold_socket(t, op, s)
      PROVE  Safe' /\ Follows
  <2>1. PICK o \in Socks : o = socks[s]
    BY <1>4 DEF nn_global_hold_socket, CanHold, Inv, Types
  <2>2. /\ th[t].pc = "idle" /\ glock = None /\ CanHold(s) /\ glock' = None
        /\ sock' = [sock EXCEPT ![o].holds = @ + 1]
        /\ th' = [th EXCEPT ![t] = [Idle EXCEPT !.pc = "held", !.op = op, !.o = o, !.s = s]]
        /\ UNCHANGED <<zombie, socks, unused, nsocks, stats, slip>>
    BY <1>4, <2>1 DEF nn_global_hold_socket, At, Unlocked
  <2> QED
    BY <2>1, <2>2, HoldKeeps
<1>5. CASE nn_global_rele_socket(t) BY <1>5, ReleKeeps
<1>6. CASE Transfer(t) BY <1>6, TransferKeeps
<1>7. CASE Wake(t)
  <2>1. PICK pc \in {"woken", "rele"} : th[t].pc = "wait" /\ Goto(t, pc) /\ UNCHANGED sock /\ Local
    BY <1>7 DEF Wake, At
  <2> QED
    BY <2>1, WaitEnds
<1>8. CASE GiveUp(t)
  <2>1. th[t].pc = "wait" /\ Goto(t, "rele") /\ UNCHANGED sock /\ Local
    BY <1>8 DEF GiveUp, At
  <2> QED
    BY <2>1, WaitEnds
<1>9. CASE nn_sock_add_ep(t) BY <1>9, AddEpKeeps
<1>10. CASE nn_sock_rm_ep(t) BY <1>10, RmEpKeeps
<1>11. CASE nn_sock_setopt(t) BY <1>11, SetOptKeeps
<1>12. CASE CloseStop(t) BY <1>12, StopKeeps
<1>13. CASE CloseDrop(t) BY <1>13, DropKeeps
<1>14. CASE nn_sock_term(t)
  <2>1. th[t].pc \in {"termsem", "relesem", "fini"}
    BY <1>14 DEF nn_sock_term, At
  <2> QED
    BY <1>14, <2>1, TermSemKeeps, ReleSemKeeps, FiniKeeps
<1>15. CASE CloseFree(t)
  <2>1. PICK s \in Slots : s = th[t].s /\ socks[s] # None
    BY <1>15, CoreAssumption DEF CloseFree, At, Inv, Calls, InCall, Using, Closing, Ending
  <2>2. /\ Types /\ Stack /\ socks' = [socks EXCEPT ![s] = None] /\ nsocks' = nsocks - 1
        /\ unused' = [unused EXCEPT ![MaxSockets - nsocks] = s]
    BY <1>15, <2>1 DEF CloseFree, Inv
  <2>3. nsocks \in 1 .. MaxSockets /\ Stack' /\ (nsocks = 1 => \A r \in Slots : socks'[r] = None)
    BY <2>1, <2>2, SlotBack
  <2> QED
    BY <1>15, <2>3, FreeKeeps
<1>16. CASE nn_global_term(t) BY <1>16, ExitKeeps
<1>17. CASE TermStep(t) BY <1>17, TermStepKeeps
<1> QED
  BY <1>1, <1>2, <1>3, <1>4, <1>5, <1>6, <1>7, <1>8, <1>9, <1>10, <1>11, <1>12, <1>13, <1>14, <1>15, <1>16, <1>17
     DEF Begin, Continue

\* Every step keeps the invariant and is, for each socket, a step of Lifetime
\* or none.
LEMMA Inductive ==
  ASSUME Inv, [Next]_vars
  PROVE  Inv' /\ Follows
<1>1. Safe' /\ Follows
  <2>1. ASSUME NEW t \in Threads, Begin(t) \/ Continue(t) \/ GiveUp(t)
        PROVE  Safe' /\ Follows
    BY <2>1, ThreadStep
  <2>2. ASSUME NEW o \in Socks, Worker(o)
        PROVE  Safe' /\ Follows
    BY <2>2, StoppedKeeps, EpStoppedKeeps DEF Worker
  <2>3. ASSUME NEW o \in Socks, PipeGone(o)
        PROVE  Safe' /\ Follows
    BY <2>3, PipeGoneKeeps
  <2>4. ASSUME NEW o \in Socks, NEW d \in Dirs, PipeReady(o, d)
        PROVE  Safe' /\ Follows
    BY <2>4, PipeReadyKeeps
  <2>5. CASE StatTimer BY <2>5, StatTimerKeeps
  <2>6. CASE nn_global_submit_statistics BY <2>6, SubmitKeeps
  <2>7. CASE UNCHANGED vars
    <3>1. Follows
      BY <2>7 DEF Follows, vars, Life!vars, Stage, Ended, Refs, Read
    <3>2. Types' /\ Calls' /\ Table'
      BY <2>7 DEF Inv, vars, Types, Calls, InCall, Table
    <3>3. Stack' /\ Signals' /\ Orderly'
      BY <2>7 DEF Inv, vars, Stack, TableSound, Signals, Told, Shown, Orderly, Dead
    <3> QED
      BY <3>1, <3>2, <3>3 DEF Safe
  <2> QED
    BY <2>1, <2>2, <2>3, <2>4, <2>5, <2>6, <2>7 DEF Next
<1>2. \A p \in Socks : Covered(p)'
  BY <1>1, StaysCovered DEF Inv, Follows
<1> QED
  BY <1>1, <1>2 DEF Inv, Safe

\* Whatever the threads, the workers and the timer do, the invariant holds.
THEOREM Invariance == Spec => []Inv
<1>1. Init => Inv
  BY InitInv
<1>2. Inv /\ [Next]_vars => Inv'
  BY Inductive
<1> QED
  BY <1>1, <1>2, PTL DEF Spec

\* The stack of nn_global holds each free slot once: nn_socket never gives
\* away a slot that is in use and nn_close gives each back.
THEOREM TableIsSound == Spec => []TableSound
<1>1. Inv => TableSound
  BY DEF Inv, Stack
<1> QED
  BY <1>1, Invariance, PTL

\* NN_RCVFD and NN_SNDFD of an active socket are set exactly when the socket
\* type can receive or send.
THEOREM DescriptorsTellTheTruth == Spec => []SignalsTrue
<1>1. Inv => SignalsTrue
  <2> SUFFICES ASSUME Inv, NEW o \in Socks, sock[o].st = "ACTIVE", ~Dead, NEW d \in Dirs
               PROVE  /\ d \in sock[o].flags <=> sock[o].ready[d] > 0
                      /\ sock[o].fd[d] = IF d \in sock[o].flags THEN "signaled" ELSE "idle"
    BY DEF SignalsTrue
  <2>1. sock[o].bad = "no" /\ Told(sock[o])
    BY DEF Dead, Inv, Signals
  <2> QED
    BY <2>1 DEF Told, Shown
<1> QED
  BY <1>1, Invariance, PTL

\* However many threads, sockets and slots there are, no assertion of the
\* core fails unless one of the three races is run or statistics are on.
THEOREM SafeApartFromRaces == Spec => []SafeUnlessRacing
<1>1. Inv => SafeUnlessRacing
  BY DEF Inv, Orderly, SafeUnlessRacing
<1> QED
  BY <1>1, Invariance, PTL

\* The library uses each socket as Lifetime allows.
THEOREM LifetimeImplemented == Spec => ImplementsLifetime
<1>1. Init => \A o \in Socks : Life(o)!Init
  BY InitInv
<1>2. Inv /\ [Next]_vars => [\A o \in Socks : Life(o)!Next \/ UNCHANGED Life(o)!vars]_vars
  BY Inductive DEF Follows
<1> QED
  BY <1>1, <1>2, Invariance, PTL DEF Spec, ImplementsLifetime

\* Nobody refers to a socket whose end has begun, in spite of the decrements
\* that nn_close and the other calls may lose.
THEOREM HoldsProtect == Spec => [](\A o \in Socks : Life(o)!NoneLeft)
<1>1. Inv => \A o \in Socks : Life(o)!NoneLeft
  BY DEF Inv, Covered, Life!NoneLeft
<1> QED
  BY <1>1, Invariance, PTL
=============================================================================
