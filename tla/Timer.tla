------------------------------- MODULE Timer --------------------------------
(***************************************************************************)
(* nn_timer and the timer set of a worker thread (aio/timer.c,             *)
(* aio/timerset.c, and the loop of aio/worker_posix.inc as far as timers   *)
(* and tasks go).  A timer is started and stopped by its owner, in the     *)
(* owner's context; the set of armed timers belongs to the worker.  The    *)
(* two talk through the worker's task queue.  An expired handle leaves the *)
(* set before the worker locks the context, so the owner may stop the      *)
(* timer between the two.  Instants are kept relative to the clock: a tick *)
(* brings all of them nearer.                                              *)
(***************************************************************************)
EXTENDS Integers, Sequences, FiniteSetsExt

CONSTANTS
  Timers,
  MaxTimeout   \* the longest timeout an owner asks for

None == "none"

ASSUME TimerAssumption == MaxTimeout \in Nat /\ None \notin Timers

VARIABLES
  timer,     \* [state, timeout] of each nn_timer; its fsm is in the same state
  timeouts,  \* nn_timerset: handles [tm, due] by increasing due
  tasks,     \* nn_worker.tasks, the queue shared with the owners
  local,     \* the worker's own copy of the queue
  pc,        \* where the worker loop is: "wait", "timers" or "poll"
  ready,     \* the poller reported the event descriptor of the task queue
  popped,    \* the expired timer whose context the worker is about to lock
  told,      \* what each owner was told since it started its timer
  left,      \* time until the timeout the owner asked for
  bad        \* an assertion or a nn_fsm_bad_* was reached

vars == <<timer, timeouts, tasks, local, pc, ready, popped, told, left, bad>>

States == {"IDLE", "ACTIVE", "STOPPING"}
Task(src, t) == [src |-> src, tm |-> t]

TypeOK ==
  /\ timer \in [Timers -> [state : States, timeout : -1 .. MaxTimeout]]
  /\ timeouts \in Seq([tm : Timers, due : 0 .. MaxTimeout])
  /\ tasks \in Seq([src : {"START", "STOP"}, tm : Timers])
  /\ local \in Seq([src : {"START", "STOP"}, tm : Timers])
  /\ pc \in {"wait", "timers", "poll"} /\ ready \in BOOLEAN
  /\ popped \in Timers \cup {None}
  /\ told \in [Timers -> Seq({"TIMEOUT", "STOPPED"})]
  /\ left \in [Timers -> 0 .. MaxTimeout] /\ bad \in BOOLEAN

nn_timer_init == [state |-> "IDLE", timeout |-> -1]

Init ==
  /\ timer = [t \in Timers |-> nn_timer_init]
  /\ timeouts = <<>> /\ tasks = <<>> /\ local = <<>>
  /\ pc = "wait" /\ ready = FALSE /\ popped = None
  /\ told = [t \in Timers |-> <<>>] /\ left = [t \in Timers |-> 0] /\ bad = FALSE

-----------------------------------------------------------------------------
\* The list that holds the timer set.
nn_list_insert(list, at, item) == SubSeq(list, 1, at - 1) \o <<item>> \o SubSeq(list, at, Len(list))
nn_list_erase(list, at) == SubSeq(list, 1, at - 1) \o SubSeq(list, at + 1, Len(list))

nn_timerset_add(set, t, due) ==
  LET later == {i \in 1 .. Len(set) : due < set[i].due}
      at    == IF later = {} THEN Len(set) + 1 ELSE Min(later)
  IN  nn_list_insert(set, at, [tm |-> t, due |-> due])

nn_timerset_rm_first(set, t) == IF set = <<>> THEN set ELSE Tail(set)

nn_timerset_rm(set, t) ==
  LET at == {i \in 1 .. Len(set) : set[i].tm = t}
  IN  IF at = {} THEN set ELSE nn_list_erase(set, CHOOSE i \in at : TRUE)

\* The poller waits for the first timeout, 0 if it has passed.
nn_timerset_timeout(set) == IF set = <<>> THEN -1 ELSE Head(set).due

\* Fault: the first handle is taken for expired.
nn_timerset_event_any(set) == set # <<>>

nn_timerset_event(set) == set # <<>> /\ Head(set).due = 0

nn_worker_execute(task) == tasks' = Append(tasks, task)

-----------------------------------------------------------------------------
\* The owner's calls.  What it was told counts from the start.
Start(t, timeout) ==
  /\ timer[t].state = "IDLE"
  /\ timer' = [timer EXCEPT ![t] = [state |-> "ACTIVE", timeout |-> timeout]]
  /\ nn_worker_execute(Task("START", t))
  /\ told' = [told EXCEPT ![t] = <<>>]
  /\ left' = [left EXCEPT ![t] = timeout]
  /\ UNCHANGED <<timeouts, local, pc, ready, popped, bad>>

Stop(t) ==
  /\ timer[t].state = "ACTIVE"
  /\ timer' = [timer EXCEPT ![t].state = "STOPPING"]
  /\ nn_worker_execute(Task("STOP", t))
  /\ UNCHANGED <<timeouts, local, pc, ready, popped, told, left, bad>>

\* Fault: a stop is complete as soon as the worker has any news of the timer.
nn_timer_shutdown_any(t, src) ==
  /\ timeouts' = nn_timerset_rm(timeouts, t)
  /\ timer' = [timer EXCEPT ![t].state = "IDLE"]
  /\ told' = [told EXCEPT ![t] = Append(@, "STOPPED")]
  /\ UNCHANGED bad

\* In STOPPING only the stop task counts.
nn_timer_shutdown(t, src) ==
  IF src # "STOP" THEN UNCHANGED <<timer, timeouts, told, bad>>
  ELSE /\ timeouts' = nn_timerset_rm(timeouts, t)
       /\ timer' = [timer EXCEPT ![t].state = "IDLE"]
       /\ told' = [told EXCEPT ![t] = Append(@, "STOPPED")]
       /\ UNCHANGED bad

\* In ACTIVE: the start task arms the timer, an expired handle is passed on.
nn_timer_handler(t, src) ==
  IF timer[t].state = "ACTIVE" /\ src = "START" /\ timer[t].timeout >= 0
  THEN /\ timeouts' = nn_timerset_add(timeouts, t, timer[t].timeout)
       /\ timer' = [timer EXCEPT ![t].timeout = -1]
       /\ UNCHANGED <<told, bad>>
  ELSE IF timer[t].state = "ACTIVE" /\ src = "TIMER" /\ timer[t].timeout = -1
  THEN /\ told' = [told EXCEPT ![t] = Append(@, "TIMEOUT")]
       /\ UNCHANGED <<timer, timeouts, bad>>
  ELSE bad' = TRUE /\ UNCHANGED <<timer, timeouts, told>>

nn_fsm_feed(t, src) ==
  IF timer[t].state = "STOPPING" THEN nn_timer_shutdown(t, src)
                                 ELSE nn_timer_handler(t, src)

-----------------------------------------------------------------------------
\* The worker loop: nn_poller_wait, the expired timers, the posted tasks.
Wait ==
  /\ pc = "wait"
  /\ tasks # <<>> \/ nn_timerset_timeout(timeouts) = 0
  /\ pc' = "timers" /\ ready' = (tasks # <<>>)
  /\ UNCHANGED <<timer, timeouts, tasks, local, popped, told, left, bad>>

Expire ==
  /\ pc = "timers" /\ popped = None
  /\ IF nn_timerset_event(timeouts)
     THEN popped' = Head(timeouts).tm /\ timeouts' = Tail(timeouts) /\ UNCHANGED pc
     ELSE pc' = "poll" /\ UNCHANGED <<popped, timeouts>>
  /\ UNCHANGED <<timer, tasks, local, ready, told, left, bad>>

FeedExpired ==
  /\ popped # None /\ popped' = None
  /\ nn_fsm_feed(popped, "TIMER")
  /\ UNCHANGED <<tasks, local, pc, ready, left>>

\* Fault: only the first of the posted tasks is taken.
TakeTasks_first ==
  /\ pc = "poll" /\ local = <<>>
  /\ IF ready THEN local' = <<Head(tasks)>> /\ tasks' = <<>> /\ ready' = FALSE /\ UNCHANGED pc
              ELSE pc' = "wait" /\ UNCHANGED <<local, tasks, ready>>
  /\ UNCHANGED <<timer, timeouts, popped, told, left, bad>>

TakeTasks ==
  /\ pc = "poll" /\ local = <<>>
  /\ IF ready THEN local' = tasks /\ tasks' = <<>> /\ ready' = FALSE /\ UNCHANGED pc
              ELSE pc' = "wait" /\ UNCHANGED <<local, tasks, ready>>
  /\ UNCHANGED <<timer, timeouts, popped, told, left, bad>>

RunTask ==
  /\ pc = "poll" /\ local # <<>>
  /\ local' = Tail(local)
  /\ nn_fsm_feed(Head(local).tm, Head(local).src)
  /\ UNCHANGED <<tasks, pc, ready, popped, left>>

Less(n) == IF n = 0 THEN 0 ELSE n - 1

\* A millisecond passes.
Tick ==
  /\ timeouts' = [i \in 1 .. Len(timeouts) |-> [timeouts[i] EXCEPT !.due = Less(@)]]
  /\ left' = [t \in Timers |-> Less(left[t])]
  /\ UNCHANGED <<timer, tasks, local, pc, ready, popped, told, bad>>

Worker == Wait \/ Expire \/ FeedExpired \/ TakeTasks \/ RunTask

Next ==
  \/ \E t \in Timers : Stop(t) \/ \E n \in 0 .. MaxTimeout : Start(t, n)
  \/ Worker \/ Tick

\* The worker thread runs and time passes; owners need not do anything.
Spec == Init /\ [][Next]_vars /\ WF_vars(Worker) /\ WF_vars(Tick)
-----------------------------------------------------------------------------
\* Once the owner has been told STOPPED the worker holds nothing of the
\* timer: no handle, no task, no expired handle on its way.  That is what
\* lets nn_timer_term and the owner's own destruction follow (timer.c:60).
QuietWhenIdle ==
  \A t \in Timers : timer[t].state = "IDLE" =>
    /\ popped # t
    /\ \A h \in Range(timeouts) \cup Range(tasks) \cup Range(local) : h.tm # t

\* No task, expired handle or timeout reaches a timer in a state that does
\* not expect it: no assertion of timer.c and no nn_fsm_bad_* is reached, and
\* a timer that has stopped is left alone.
NeverBad == TypeOK /\ ~bad /\ QuietWhenIdle

\* Between a start and the next the owner is told TIMEOUT at most once, and
\* never after STOPPED.
AtMostOneTimeout ==
  \A t \in Timers : told[t] \in {<<>>, <<"TIMEOUT">>, <<"STOPPED">>, <<"TIMEOUT", "STOPPED">>}

\* No timer fires before the time its owner asked for has passed, whatever
\* other timers are in the set.
NeverEarly ==
  [][\A t \in Timers : told'[t] # told[t] /\ told'[t] # <<>> /\ told'[t][Len(told'[t])] = "TIMEOUT"
       => left[t] = 0]_vars

\* The worker never sleeps over a timer that is due: the set is ordered, so
\* its first handle tells how long to wait (timerset.c:83).
NoneOverlooked ==
  pc = "wait" /\ (\E h \in Range(timeouts) : h.due = 0) => nn_timerset_timeout(timeouts) = 0

\* A start is followed by at most one timeout, in time.
OnTime == [](AtMostOneTimeout /\ NoneOverlooked) /\ NeverEarly

\* A started timer fires unless it is stopped.
Fires ==
  \A t \in Timers : (timer[t].state = "ACTIVE") ~> (told[t] # <<>> \/ timer[t].state = "STOPPING")

\* A stop completes (nn_timer_stop), whatever is on its way to the timer.
StopCompletes ==
  \A t \in Timers : (timer[t].state = "STOPPING") ~> (timer[t].state = "IDLE")
=============================================================================
