---------------------------- MODULE KernelState ----------------------------
(***************************************************************************)
(* The shared kernel state of the single-CPU AutomationOS scheduler and    *)
(* the C functions that every system call and interrupt handler is built   *)
(* from: reference counting, the ready queue, the wait objects, the timer  *)
(* sleep list, process termination and reaping.                            *)
(*                                                                         *)
(* The state is one record k.  A C function f(...) that mutates it is the  *)
(* operator f(k, ...) that returns the new record, so that a handler reads *)
(* as the composition of the calls the C handler makes, in their order.    *)
(*                                                                         *)
(* A process is identified with its process-table slot (its PID).  Every   *)
(* process runs at nice 0; at one priority level the active and expired    *)
(* runqueues together are one FIFO list, k.rq (module RunQueue shows it).  *)
(***************************************************************************)
EXTENDS Lists

CONSTANTS
    Proc,       \* process-table slots 1 .. MAX_PROCESSES-1 (scheduler PIDs)
    InitProc,   \* PID 1, the universal reaper
    Idle,       \* the idle thread (PID 0): never queued, never reaped
    SleepObj,   \* g_sleep_wobj, the wait object sys_sleep blocks on
    FutexObj,   \* the wait object of a futex bucket
    None        \* the NULL pointer

ASSUME ConstantsAssumption ==
    /\ InitProc \in Proc
    /\ Idle \notin Proc /\ None \notin Proc
    /\ SleepObj \notin Proc /\ FutexObj \notin Proc
    /\ SleepObj # FutexObj /\ None \notin {SleepObj, FutexObj}

\* The wait objects.  The child_wait queue inside the PCB of p is written p.
WaitObj == Proc \cup {SleepObj, FutexObj}

\* process_state_t; "FREE" is a slot whose PCB has been freed (or never was).
\* PROCESS_CREATED never outlives the system call that creates the process.
PState == {"FREE", "READY", "RUNNING", "BLOCKED", "TERMINATED"}

\* What the model keeps of process_t and of the scheduler's global state.
KState == [
    state    : [Proc -> PState],
    ref      : [Proc -> Nat],                  \* ref_count
    reaped   : [Proc -> BOOLEAN],              \* creation reference released
    on_queue : [Proc -> BOOLEAN],
    wait_on  : [Proc -> WaitObj \cup {None}],
    parent   : [Proc -> Proc \cup {None}],     \* parent_pid
    kin      : [Proc -> BOOLEAN],              \* parent_seq is the create_seq of
                                               \* the PCB now in slot parent_pid
    deadline : [Proc -> Nat],                  \* ticks left to wake_deadline
    rq       : Seq(Proc),                      \* rq_active \o rq_expired
    waiters  : [WaitObj -> Seq(Proc)],
    sleepers : Seq(Proc),                      \* g_sleep_list
    current  : Proc \cup {Idle} ]

\* The kernel when scheduler_start() has entered /sbin/init: the creation
\* reference of init and the running reference pick_next() handed over.
KInit == [
    state    |-> [p \in Proc |-> IF p = InitProc THEN "RUNNING" ELSE "FREE"],
    ref      |-> [p \in Proc |-> IF p = InitProc THEN 2 ELSE 0],
    reaped   |-> [p \in Proc |-> p # InitProc],
    on_queue |-> [p \in Proc |-> FALSE],
    wait_on  |-> [p \in Proc |-> None],
    parent   |-> [p \in Proc |-> None],
    kin      |-> [p \in Proc |-> FALSE],
    deadline |-> [p \in Proc |-> 0],
    rq       |-> << >>,
    waiters  |-> [w \in WaitObj |-> << >>],
    sleepers |-> << >>,
    current  |-> InitProc ]

\* TERMINATED, or the stale TERMINATED of a PCB that has been freed since.
Dead(k, p) == k.state[p] \in {"TERMINATED", "FREE"}

-----------------------------------------------------------------------------
(***************************************************************************)
(* References (process.c).                                                 *)
(***************************************************************************)
process_ref(k, p) == [k EXCEPT !.ref[p] = @ + 1]

\* Mutant: the count is tested before it is decremented, one too early.
process_unref_early(k, p) ==
    [k EXCEPT !.ref[p] = @ - 1,
              !.state[p] = IF k.ref[p] = 2 THEN "FREE" ELSE @]

\* The last reference frees the PCB and returns its PID.  The teardown does
\* not take the PCB off the sleep list.
process_unref(k, p) ==
    [k EXCEPT !.ref[p] = @ - 1,
              !.state[p] = IF k.ref[p] = 1 THEN "FREE" ELSE @]

\* The first reaper drops the creation reference; later ones do nothing.
reap_claim_release(k, p) ==
    IF k.reaped[p] THEN k ELSE process_unref([k EXCEPT !.reaped[p] = TRUE], p)

-----------------------------------------------------------------------------
(***************************************************************************)
(* The ready queue (scheduler.c).                                          *)
(***************************************************************************)
process_set_ready(k, p) ==
    IF Dead(k, p) THEN k ELSE [k EXCEPT !.state[p] = "READY"]

\* Mutants: no idempotency guard; insertion at the head.
add_process_twice(k, p) ==
    IF Dead(k, p) THEN k
    ELSE [process_set_ready(process_ref(k, p), p)
             EXCEPT !.on_queue[p] = TRUE, !.rq = Append(@, p)]

add_process_head(k, p) ==
    IF Dead(k, p) \/ k.on_queue[p] THEN k
    ELSE [process_set_ready(process_ref(k, p), p)
             EXCEPT !.on_queue[p] = TRUE, !.rq = << p >> \o @]

\* The queue owns one reference on each PCB it links.  sys_yield's
\* scheduler_yield_requeue() does the same at nice 0 (no yield boost).
scheduler_add_process(k, p) ==
    IF Dead(k, p) \/ k.on_queue[p]
    THEN k
    ELSE [process_set_ready(process_ref(k, p), p)
             EXCEPT !.on_queue[p] = TRUE, !.rq = Append(@, p)]

scheduler_remove_process(k, p) ==
    IF k.on_queue[p]
    THEN process_unref([k EXCEPT !.on_queue[p] = FALSE,
                                 !.rq = RemoveFirst(@, p)], p)
    ELSE k

\* The process scheduler_pick_next() returns, and the state it leaves: the
\* reference of the queue passes to the caller.  Its loop that discards
\* TERMINATED entries never finds one at a single priority level (QueueSound);
\* module RunQueue has it.
PickedNext(k) == IF k.rq = << >> THEN Idle ELSE Head(k.rq)

scheduler_pick_next(k) ==
    IF k.rq = << >>
    THEN k
    ELSE [k EXCEPT !.on_queue[Head(k.rq)] = FALSE, !.rq = Tail(@)]

process_set_current(k, n) ==
    IF n \in Proc
    THEN [k EXCEPT !.current = n, !.state[n] = "RUNNING"]
    ELSE [k EXCEPT !.current = n]

\* Hand the CPU from p to n, dropping p's running reference before the switch.
switch_away(k, p, n) == process_unref(process_set_current(k, n), p)

-----------------------------------------------------------------------------
(***************************************************************************)
(* The timer sleep list (scheduler.c) and the wait objects (waitqueue.c).  *)
(***************************************************************************)
sleep_list_push(k, p, d) ==
    [k EXCEPT !.sleepers = << p >> \o @, !.deadline[p] = d]

sleep_list_remove(k, p) == [k EXCEPT !.sleepers = RemoveFirst(@, p)]

Linked(k, w, p) == Contains(k.waiters[w], p)

\* Mutant: wait_on is left pointing at the object.
wo_unlink_stale(k, w, p) == [k EXCEPT !.waiters[w] = RemoveFirst(@, p)]

wo_unlink(k, w, p) ==
    [k EXCEPT !.waiters[w] = RemoveFirst(@, p), !.wait_on[p] = None]

\* Unlinks a waiter and drops the reference its wait object holds.  It does
\* not make the process READY.
wait_object_abort(k, w, p) ==
    IF Linked(k, w, p) THEN process_unref(wo_unlink(k, w, p), p) ELSE k

\* kill.c's guard: the target is BLOCKED and wait_on is not NULL.
abort_if_blocked(k, p) ==
    IF k.state[p] = "BLOCKED" /\ k.wait_on[p] # None
    THEN wait_object_abort(k, k.wait_on[p], p)
    ELSE k

\* Mutant: the test for a BLOCKED waiter is inverted.
wake_popped_inverted(k, w, p) ==
    LET popped == wo_unlink(k, w, p)
        woken  == [sleep_list_remove(popped, p) EXCEPT !.deadline[p] = 0]
    IN  process_unref(
            IF k.state[p] # "BLOCKED"
            THEN scheduler_add_process(process_set_ready(woken, p), p)
            ELSE popped, p)

\* One turn of wo_wake_one_proc()'s loop, for the waiter p it has popped: only
\* a BLOCKED one is readied, and the reference of the object is dropped.
wake_popped(k, w, p) ==
    LET popped == wo_unlink(k, w, p)
        woken  == [sleep_list_remove(popped, p) EXCEPT !.deadline[p] = 0]
    IN  process_unref(
            IF k.state[p] = "BLOCKED"
            THEN scheduler_add_process(process_set_ready(woken, p), p)
            ELSE popped, p)

\* wq_wake_one() and wq_wake_all() of the child_wait queue of q, which never
\* holds a process other than q (LinksConsistent).
wake_child_wait(k, q) == IF Linked(k, q, q) THEN wake_popped(k, q, q) ELSE k

\* Link p on w, mark it BLOCKED and, with a deadline d, arm the timer.
wait_object_link(k, w, p, d) ==
    LET linked == [process_ref(k, p) EXCEPT !.wait_on[p] = w,
                                            !.waiters[w] = Append(@, p),
                                            !.state[p] = "BLOCKED"]
    IN  IF d = 0 THEN linked ELSE sleep_list_push(linked, p, d)

\* What wo_park_and_cleanup() does when its caller runs again: leave the wait
\* object (dropping its reference) and the sleep list.
wait_object_cleanup(k, w, p) ==
    [sleep_list_remove(wait_object_abort(k, w, p), p) EXCEPT !.deadline[p] = 0]

-----------------------------------------------------------------------------
(***************************************************************************)
(* Creation, termination and reaping (process.c, handlers.c).              *)
(***************************************************************************)

\* process_create() by p in the free slot c, then scheduler_add_process().
process_create(k, p, c) ==
    scheduler_add_process(
        [k EXCEPT !.state[c] = "READY", !.ref[c] = 1, !.reaped[c] = FALSE,
                  !.on_queue[c] = FALSE, !.wait_on[c] = None, !.deadline[c] = 0,
                  !.parent[c] = p,
                  !.kin = [q \in Proc |-> IF q = c THEN TRUE
                                          ELSE @[q] /\ k.parent[q] # c]], c)

Children(k, p) == {q \in Proc : q # p /\ k.state[q] # "FREE" /\ k.parent[q] = p}

\* Mutant: zombie children are not handed on.
reparent_living(k, c) ==
    LET heirs == {q \in Children(k, c) : k.state[q] # "TERMINATED"}
    IN  IF c = InitProc THEN k
        ELSE [k EXCEPT !.parent = [q \in Proc |-> IF q \in heirs THEN InitProc ELSE @[q]],
                       !.kin = [q \in Proc |-> @[q] \/ q \in heirs]]

\* Phase A: the children of the dying process become children of init.
reparent(k, c) ==
    IF c = InitProc THEN k
    ELSE [k EXCEPT !.parent = [q \in Proc |->
                                 IF q \in Children(k, c) THEN InitProc ELSE @[q]],
                   !.kin = [q \in Proc |-> @[q] \/ q \in Children(k, c)]]

\* The parent that c would be reaped by is still the one c was created by.
HasParent(k, c) ==
    /\ k.parent[c] \in Proc
    /\ k.state[k.parent[c]] # "FREE"
    /\ k.parent[c] = InitProc \/ k.kin[c]

\* Phases B and C: wake the parent; wake init if it inherited a zombie.
wake_parent(k, c) ==
    IF HasParent(k, c) THEN wake_child_wait(k, k.parent[c]) ELSE k

wake_init(k, hasZombie) ==
    IF hasZombie /\ k.state[InitProc] # "FREE"
    THEN wake_child_wait(k, InitProc) ELSE k

InheritsZombie(k, c) ==
    c # InitProc /\ \E q \in Children(k, c) : k.state[q] = "TERMINATED"

\* Mutant: phase C is left out.
on_terminate_init_asleep(k, c) ==
    wake_child_wait(wake_parent(reparent(k, c), c), c)

process_on_terminate(k, c) ==
    wake_child_wait(
        wake_init(wake_parent(reparent(k, c), c), InheritsZombie(k, c)), c)

\* What sys_exit(), the fault handler and every kill path do to p: TERMINATED,
\* process_on_terminate(), scheduler_remove_process().
terminate(k, p) ==
    scheduler_remove_process(
        process_on_terminate([k EXCEPT !.state[p] = "TERMINATED"], p), p)

\* schedule() when the current process p is TERMINATED.
schedule_dead(k, p) == switch_away(scheduler_pick_next(k), p, PickedNext(k))

\* What waitpid() matches: children of p, or of an init that never changes.
IsChildOf(k, c, p) ==
    /\ k.state[c] # "FREE"
    /\ k.parent[c] = p
    /\ p = InitProc \/ k.kin[c]

\* waitpid() reaps the zombie c: process_get_by_pid()'s reference, the orphaned
\* parent_pid, the creation reference, then process_destroy().
reap(k, c) ==
    process_unref(
        scheduler_remove_process(
            reap_claim_release([process_ref(k, c) EXCEPT !.parent[c] = None,
                                                         !.kin[c] = FALSE], c),
            c), c)

-----------------------------------------------------------------------------
(***************************************************************************)
(* What a kernel state must satisfy.                                       *)
(***************************************************************************)

\* on_queue tells membership of the ready queue, which holds no PCB twice.
QueueSound(k) ==
    /\ IsInjective(k.rq)
    /\ \A p \in Proc : k.on_queue[p] <=> Contains(k.rq, p)

\* wait_on names the one wait object whose list holds the PCB, once.
LinkSound(k) ==
    /\ \A w \in WaitObj : IsInjective(k.waiters[w])
    /\ \A w \in WaitObj, p \in Proc : Linked(k, w, p) <=> k.wait_on[p] = w

\* The references that are accounted for: creation, ready queue, CPU, wait object.
One(b) == IF b THEN 1 ELSE 0
Held(k, p) == One(~k.reaped[p]) + One(k.on_queue[p])
              + One(k.current = p) + One(k.wait_on[p] # None)

\* The references of p that some function in progress holds, or that leaked.
Slack(k, p) == k.ref[p] - Held(k, p)

Covered(k) == \A p \in Proc : Slack(k, p) >= 0
Unheld(k)  == \A p \in Proc : k.state[p] = "FREE" => Held(k, p) = 0
=============================================================================
