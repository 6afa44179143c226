------------------------------ MODULE Priolist ------------------------------
(***************************************************************************)
(* nn_priolist (protocols/utils/priolist.c): the pipes that are ready, by  *)
(* priority, with a current pipe per priority; and its two users, the      *)
(* load balancer nn_lb and the fair queue nn_fq.                           *)
(***************************************************************************)
EXTENDS PipeBase, FiniteSetsExt

CONSTANTS
  Slots,   \* NN_PRIOLIST_SLOTS
  Prio     \* the priority of each pipe's endpoint

PriolistType == [slots : [1 .. Slots -> [pipes : Seq(Pipes), current : Pipes \cup {NoPipe}]],
                 current : {-1} \cup 1 .. Slots]

nn_priolist_init == [slots |-> [i \in 1 .. Slots |-> [pipes |-> <<>>, current |-> NoPipe]],
                     current |-> -1]

Ready(pl) == UNION {ToSet(pl.slots[i].pipes) : i \in 1 .. Slots}

\* The item after p, NULL at the end of the list.
NextOf(s, p) ==
  LET i == CHOOSE j \in 1 .. Len(s) : s[j] = p
  IN  IF i = Len(s) THEN NoPipe ELSE s[i + 1]

Begin(s) == IF s = <<>> THEN NoPipe ELSE Head(s)
OrBegin(p, s) == IF p = NoPipe THEN Begin(s) ELSE p

Erased(slot, p) ==
  LET rest == SelectSeq(slot.pipes, LAMBDA q : q # p)
  IN  [pipes |-> rest,
       current |-> IF slot.current # p THEN slot.current
                   ELSE OrBegin(NextOf(slot.pipes, p), rest)]

\* The first slot from the current one on that is not empty.
Settled(pl) ==
  LET rest == {i \in 1 .. Slots : i >= pl.current /\ pl.slots[i].pipes # <<>>}
  IN  [pl EXCEPT !.current = IF rest = {} THEN -1 ELSE Min(rest)]

nn_priolist_rm(pl, p) ==
  LET i == Prio[p]
      erased == [pl EXCEPT !.slots[i] = Erased(@, p)]
  IN  IF p \notin Ready(pl) THEN pl
      ELSE IF pl.slots[i].current = p /\ pl.current = i THEN Settled(erased)
      ELSE erased

\* Fault: a pipe that is ready again goes to the head of its slot.
nn_priolist_activate_first(pl, p) ==
  [slots |-> [pl.slots EXCEPT ![Prio[p]] = [pipes |-> <<p>> \o @.pipes, current |-> p]],
   current |-> IF pl.current = -1 \/ pl.current > Prio[p] THEN Prio[p] ELSE pl.current]

nn_priolist_activate(pl, p) ==
  [slots |-> [pl.slots EXCEPT ![Prio[p]] =
     [pipes |-> Append(@.pipes, p), current |-> IF @.pipes = <<>> THEN p ELSE @.current]],
   current |-> IF pl.slots[Prio[p]].pipes = <<>> /\ (pl.current = -1 \/ pl.current > Prio[p])
               THEN Prio[p] ELSE pl.current]

nn_priolist_is_active(pl) == pl.current # -1

nn_priolist_getpipe(pl) ==
  IF pl.current = -1 THEN NoPipe ELSE pl.slots[pl.current].current

Advanced(slot, release) ==
  IF release THEN Erased(slot, slot.current)
  ELSE [slot EXCEPT !.current = OrBegin(NextOf(slot.pipes, slot.current), slot.pipes)]

nn_priolist_advance(pl, release) ==
  Settled([pl EXCEPT !.slots[pl.current] = Advanced(@, release)])

\* nn_lb_send and nn_fq_recv on the pipe whose turn it is: the list after.
nn_lb_out(pl, p) == nn_priolist_activate(pl, p)
nn_fq_in(pl, p) == nn_priolist_activate(pl, p)
nn_lb_rm(pl, p) == nn_priolist_rm(pl, p)
nn_fq_rm(pl, p) == nn_priolist_rm(pl, p)
nn_lb_can_send(pl) == nn_priolist_is_active(pl)
nn_fq_can_recv(pl) == nn_priolist_is_active(pl)

nn_lb_send(pl, release) == nn_priolist_advance(pl, release)
nn_fq_recv(pl, release) == nn_priolist_advance(pl, release)

\* A receiving call works on [pipe, fq, evq, bad].  nn_fq_recv takes one
\* message; a call that skips messages takes any number before the last.
FqRecv(s) ==
  LET p == nn_priolist_getpipe(s.fq)
  IN  {[pipe |-> [s.pipe EXCEPT ![p].in = IF release THEN "ASYNC" ELSE "IDLE"],
        fq   |-> nn_fq_recv(s.fq, release), evq |-> q,
        bad  |-> s.bad \/ s.pipe[p].in # "IDLE"] :
          release \in RecvReleases(p), q \in MayBreak(s.evq, p)}

RECURSIVE Skips(_)
Skips(S) ==
  LET more == S \cup UNION {FqRecv(s) : s \in {t \in S : nn_fq_can_recv(t.fq) /\ ~t.bad}}
  IN  IF more = S THEN S ELSE Skips(more)

-----------------------------------------------------------------------------
\* The list is in order: the current slot is the first that is not empty,
\* and a slot's current pipe is one of its pipes.
Ordered(pl) ==
  /\ pl.current = LET full == {i \in 1 .. Slots : pl.slots[i].pipes # <<>>}
                  IN  IF full = {} THEN -1 ELSE Min(full)
  /\ \A i \in 1 .. Slots :
       IF pl.slots[i].pipes = <<>> THEN pl.slots[i].current = NoPipe
       ELSE pl.slots[i].current \in ToSet(pl.slots[i].pipes)
=============================================================================
