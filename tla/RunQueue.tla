------------------------------ MODULE RunQueue ------------------------------
(***************************************************************************)
(* The O(1) runqueues of one CPU (scheduler.c): an active and an expired   *)
(* array of FIFO lists indexed by priority, the bonus turns of tasks with  *)
(* a negative nice value, renicing, and the draining of dead entries.      *)
(*                                                                         *)
(* Time slices are abstracted to the choice of the moment they run out.    *)
(* References are counted in KernelState, and what happens when a task     *)
(* leaves the CPU and nothing else can run is in Sched: here a task blocks *)
(* or exits only when there is a successor.                                *)
(***************************************************************************)
EXTENDS Lists, FiniteSets

CONSTANTS
    Task,       \* the processes
    Idle,       \* the idle thread, never queued
    Nices,      \* the nice values in use
    First,      \* the task that runs when the model starts
    Ops         \* the operations of this workload

ASSUME TaskAssumption ==
    /\ IsFiniteSet(Task) /\ First \in Task /\ Idle \notin Task
    /\ Nices \subseteq -20 .. 19 /\ 0 \in Nices

\* process_get_priority(): a lower number is a higher priority.
process_get_priority(nice) == 100 + nice
Levels == {process_get_priority(n) : n \in Nices}

PRIORITY_YIELD_BOOST_MAX == 10
priority_yield_boost(nice) ==
    IF nice >= 0 THEN 0
    ELSE IF (-nice) \div 2 > PRIORITY_YIELD_BOOST_MAX
         THEN PRIORITY_YIELD_BOOST_MAX ELSE (-nice) \div 2

VARIABLE s      \* the runqueues and the task fields they depend on

TState == {"READY", "RUNNING", "BLOCKED", "TERMINATED"}

RQState ==
    [ active   : [Levels -> Seq(Task)],
      expired  : [Levels -> Seq(Task)],
      ready    : Int,                          \* ready_count
      on_queue : [Task -> BOOLEAN],
      state    : [Task -> TState],
      nice     : [Task -> Nices],
      boost    : [Task -> 0 .. PRIORITY_YIELD_BOOST_MAX],
      current  : Task ]

\* Every variable of the runqueues in its range.
RQTypeOK == s \in RQState

RQInit ==
    s = [ active   |-> [l \in Levels |-> << >>],
          expired  |-> [l \in Levels |-> << >>],
          ready    |-> 0,
          on_queue |-> [t \in Task |-> FALSE],
          state    |-> [t \in Task |-> IF t = First THEN "RUNNING" ELSE "TERMINATED"],
          nice     |-> [t \in Task |-> 0],
          boost    |-> [t \in Task |-> 0],
          current  |-> First ]

-----------------------------------------------------------------------------
(***************************************************************************)
(* The functions of scheduler.c, from state q to state.                    *)
(***************************************************************************)
runqueue_enqueue(rq, t, l) == [rq EXCEPT ![l] = Append(@, t)]

scheduler_add_process(q, t) ==
    IF q.state[t] = "TERMINATED" \/ q.on_queue[t]
    THEN q
    ELSE [q EXCEPT !.state[t] = "READY", !.on_queue[t] = TRUE, !.ready = @ + 1,
                   !.expired = runqueue_enqueue(@, t, process_get_priority(q.nice[t]))]

\* Mutants: a bonus turn is never used up; a task without one stays on the active
\* array.
yield_requeue_free_boost(q, t) ==
    LET l     == process_get_priority(q.nice[t])
        ready == [q EXCEPT !.state[t] = "READY", !.on_queue[t] = TRUE, !.ready = @ + 1]
    IN  IF q.state[t] = "TERMINATED" \/ q.on_queue[t]
        THEN q
        ELSE IF q.boost[t] > 0
             THEN [ready EXCEPT !.active = runqueue_enqueue(@, t, l)]
             ELSE [ready EXCEPT !.boost[t] = priority_yield_boost(q.nice[t]),
                                !.expired = runqueue_enqueue(@, t, l)]

yield_requeue_active(q, t) ==
    IF q.state[t] = "TERMINATED" \/ q.on_queue[t]
    THEN q
    ELSE [q EXCEPT !.state[t] = "READY", !.on_queue[t] = TRUE, !.ready = @ + 1,
                   !.active = runqueue_enqueue(@, t, process_get_priority(q.nice[t]))]

\* Bonus turns keep a yielding task on the active array; without any left it
\* gets new ones and rotates to the expired array.
scheduler_yield_requeue(q, t) ==
    LET l     == process_get_priority(q.nice[t])
        ready == [q EXCEPT !.state[t] = "READY", !.on_queue[t] = TRUE, !.ready = @ + 1]
    IN  IF q.state[t] = "TERMINATED" \/ q.on_queue[t]
        THEN q
        ELSE IF q.boost[t] > 0
             THEN [ready EXCEPT !.boost[t] = @ - 1,
                                !.active = runqueue_enqueue(@, t, l)]
             ELSE [ready EXCEPT !.boost[t] = priority_yield_boost(q.nice[t]),
                                !.expired = runqueue_enqueue(@, t, l)]

\* Mutant: the bookkeeping is done whether or not the task was found.
remove_process_unfound(q, t) ==
    LET l == process_get_priority(q.nice[t])
    IN  IF ~q.on_queue[t] THEN q
        ELSE [q EXCEPT !.on_queue[t] = FALSE, !.ready = @ - 1,
                       !.active[l] = RemoveFirst(@, t), !.expired[l] = RemoveFirst(@, t)]

\* Only the level of the task's present nice value is searched.
scheduler_remove_process(q, t) ==
    LET l       == process_get_priority(q.nice[t])
        removed == [q EXCEPT !.on_queue[t] = FALSE, !.ready = @ - 1]
    IN  IF ~q.on_queue[t] THEN q
        ELSE IF Contains(q.active[l], t)
             THEN [removed EXCEPT !.active[l] = RemoveFirst(@, t)]
             ELSE IF Contains(q.expired[l], t)
                  THEN [removed EXCEPT !.expired[l] = RemoveFirst(@, t)]
                  ELSE q

\* The places of an array.  runqueue_pick_next() empties it by the lowest set bit
\* of the bitmap first, each list from its head.
Places(rq) == UNION {{l} \X DOMAIN rq[l] : l \in Levels}
Precedes(e, f) == e[1] < f[1] \/ (e[1] = f[1] /\ e[2] < f[2])
Entry(rq, e) == rq[e[1]][e[2]]

\* Mutant: no entry is drained.
drained_never(q, t) == FALSE
Drained(q, t) == q.state[t] = "TERMINATED"

Live(q, rq) == {e \in Places(rq) : ~Drained(q, Entry(rq, e))}
FirstLive(live) == CHOOSE e \in live : \A f \in live : ~Precedes(f, e)

\* The tasks popped from an array: dead ones, up to the first live one.
Popped(rq, live) ==
    {Entry(rq, f) : f \in {g \in Places(rq) : \A e \in live : ~Precedes(e, g)}}

\* What is left of the array then.
Rest(rq, live) ==
    LET e == FirstLive(live)
    IN  [l \in Levels |-> IF live = {} \/ l < e[1] THEN << >>
                          ELSE IF l = e[1] THEN SubSeq(rq[l], e[2] + 1, Len(rq[l]))
                          ELSE rq[l]]

\* scheduler_pick_next(): the first live entry of the active array, else (after
\* the swap) of the expired one.  Dead entries met on the way are dropped.
PickedNext(q) ==
    LET source == IF Live(q, q.active) = {} THEN q.expired ELSE q.active
        live   == Live(q, source)
    IN  IF live = {} THEN Idle ELSE Entry(source, FirstLive(live))

scheduler_pick_next(q) ==
    LET active  == Live(q, q.active)
        expired == Live(q, q.expired)
        swap    == active = {}
        taken   == Popped(q.active, active) \cup (IF swap THEN Popped(q.expired, expired) ELSE {})
    IN  [q EXCEPT !.active   = IF swap THEN Rest(q.expired, expired) ELSE Rest(q.active, active),
                  !.expired  = IF swap THEN Rest(q.active, active) ELSE @,
                  !.ready    = @ - Cardinality(taken),
                  !.on_queue = [t \in Task |-> @[t] /\ t \notin taken]]

process_set_current(q, next) ==
    [q EXCEPT !.current = next, !.state[next] = "RUNNING"]

\* Pick a successor of the current task, and run it.
Switch(q) == process_set_current(scheduler_pick_next(q), PickedNext(q))

-----------------------------------------------------------------------------
(***************************************************************************)
(* The operations that use them.                                           *)
(***************************************************************************)
\* process_create() in the slot of a task that has been reaped.
Create(t) ==
    /\ "create" \in Ops
    /\ t # s.current /\ s.state[t] = "TERMINATED" /\ ~s.on_queue[t]
    /\ s' = scheduler_add_process(
                [s EXCEPT !.state[t] = "READY", !.nice[t] = 0, !.boost[t] = 0], t)

\* Any waker, or SIGCONT.
Wake(t) ==
    /\ "block" \in Ops
    /\ t # s.current /\ s.state[t] = "BLOCKED"
    /\ s' = scheduler_add_process([s EXCEPT !.state[t] = "READY"], t)

\* sys_yield(): the only runnable task goes on, and stays READY.
Yield ==
    \E q \in {scheduler_yield_requeue(s, s.current)} :
        s' = IF PickedNext(q) = s.current THEN scheduler_pick_next(q) ELSE Switch(q)

\* The quantum of the current task is used up (schedule_from_irq()).
Preempt ==
    /\ "preempt" \in Ops
    /\ s.state[s.current] = "RUNNING"
    /\ \E picked \in {scheduler_pick_next(s)} :
          s' = IF PickedNext(s) = Idle THEN picked
               ELSE process_set_current(scheduler_add_process(picked, s.current),
                                        PickedNext(s))

Block ==
    /\ "block" \in Ops
    /\ PickedNext(s) # Idle
    /\ s' = Switch([s EXCEPT !.state[s.current] = "BLOCKED"])

\* sys_exit().
Exit ==
    /\ "exit" \in Ops
    /\ PickedNext(s) # Idle
    /\ s' = Switch([s EXCEPT !.state[s.current] = "TERMINATED"])

\* SIGKILL of another task.
Kill(t) ==
    /\ "exit" \in Ops
    /\ t # s.current /\ s.state[t] # "TERMINATED"
    /\ s' = scheduler_remove_process([s EXCEPT !.state[t] = "TERMINATED"], t)

\* SIGSTOP of another task.
Stop(t) ==
    /\ "block" \in Ops
    /\ t # s.current /\ s.state[t] = "READY"
    /\ s' = scheduler_remove_process([s EXCEPT !.state[t] = "BLOCKED"], t)

\* sys_nice(), sys_setpriority() and PROC_CTL_SET_PRIORITY.
SetNice(t) ==
    /\ "nice" \in Ops
    /\ s.state[t] # "TERMINATED"
    /\ \E n \in Nices : s' = [s EXCEPT !.nice[t] = n]

RQNext ==
    \/ Yield \/ Preempt \/ Block \/ Exit
    \/ \E t \in Task : Create(t) \/ Wake(t) \/ Kill(t) \/ Stop(t) \/ SetNice(t)

RQSpec == RQInit /\ [][RQNext]_s

\* The running task gives up the CPU sooner or later: it yields, or the timer
\* ends its quantum.
RQFairSpec == RQSpec /\ WF_s(Yield \/ Preempt)

-----------------------------------------------------------------------------
On(rq, t) == \E l \in Levels : Contains(rq[l], t)
OnceOn(rq) ==
    \A l, m \in Levels : \A i \in DOMAIN rq[l], j \in DOMAIN rq[m] :
        rq[l][i] = rq[m][j] => l = m /\ i = j

Exact(q) ==
    /\ \A t \in Task : q.on_queue[t] <=> On(q.active, t) \/ On(q.expired, t)
    /\ \A t \in Task : ~(On(q.active, t) /\ On(q.expired, t))
    /\ OnceOn(q.active) /\ OnceOn(q.expired)
    /\ q.ready = Cardinality({t \in Task : q.on_queue[t]})

\* What sched_validate_runqueues() looks for: a task is linked once, on one of
\* the two arrays, exactly when on_queue says so, and ready_count counts them.
QueuesExact == Exact(s)

\* A task that was killed is not dispatched, even if the kill could not find it
\* on the queues: pick_next() discards it (KILL-FIX-001).
DeadNotDispatched ==
    [][\A t \in Task : s.state[t] = "TERMINATED" => s'.state[t] # "RUNNING"]_s

\* No queued task starves: the bonus turns of the others are bounded, and the
\* expired array becomes the active one.  First stands for any task: the others
\* can all come to run alone, as First does at the start.
NoStarvation == s.on_queue[First] ~> ~s.on_queue[First]

-----------------------------------------------------------------------------
\* As long as nobody has a priority of its own the two arrays are one FIFO.
Ready(q) == q.active[process_get_priority(0)] \o q.expired[process_get_priority(0)]
Fifo == INSTANCE ReadyFifo WITH fifo <- Ready(s), current <- s.current

AllEqual(q) ==
    /\ \A t \in Task : q.nice[t] = 0 /\ q.boost[t] = 0
    /\ \A l \in Levels \ {process_get_priority(0)} : q.active[l] \o q.expired[l] = << >>

\* The runqueues of tasks of equal priority implement the ready queue that
\* KernelState uses, at the start and whenever a priority has been given back.
ImplementsFifo ==
    Fifo!FifoInit /\ [][AllEqual(s) /\ AllEqual(s') => Fifo!FifoStep]_s
=============================================================================
