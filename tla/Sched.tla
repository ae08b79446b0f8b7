------------------------------- MODULE Sched -------------------------------
(***************************************************************************)
(* The single-CPU AutomationOS kernel as its processes drive it: system    *)
(* calls, the timer interrupt and (in the -DPREEMPTIVE build) timer        *)
(* preemption, over the state and the functions of KernelState.            *)
(*                                                                         *)
(* System calls run with interrupts disabled, so each handler is one step  *)
(* up to the point where it switches to another process, halts the CPU or  *)
(* loops.  Interrupts arrive only in ring 3, in the sti;hlt;cli window of  *)
(* wo_park_and_cleanup() and in the idle thread.                           *)
(***************************************************************************)
EXTENDS KernelState

\* The catchable signals, by their default action: USR1 and TSTP stand for the
\* ones that terminate and the ones that stop the process.
Catchable == {"USR1", "TSTP"}

CONSTANTS
    Calls,          \* the operations the processes of this workload perform
    Addr,           \* futex words that hash to the one modelled bucket
    WakeCounts,     \* nr_wake arguments of FUTEX_WAKE
    SleepTicks,     \* timeouts of sys_sleep, in ticks
    RecheckTicks,   \* WAIT_RECHECK_MS, the timed waitpid of the PREEMPTIVE build
    Preemptive,     \* TRUE in the -DPREEMPTIVE build
    Signals,        \* the catchable signals the processes send
    Hotkey,         \* the process Ctrl+Alt+Backspace kills (the compositor)
    MaxLeak         \* bound: a process that has leaked as many references blocks no more

ASSUME WorkloadAssumption ==
    /\ WakeCounts \subseteq Nat
    /\ SleepTicks \subseteq Nat \ {0} /\ RecheckTicks \in Nat \ {0}
    /\ Preemptive \in BOOLEAN /\ Signals \subseteq Catchable
    /\ Hotkey \subseteq Proc /\ MaxLeak \in Nat
    /\ None \notin Addr

VARIABLES
    k,          \* the kernel state (KernelState)
    pc,         \* where each process is, or where it will resume
    wo,         \* the wait object of its wait_object_block() call
    key,        \* futex_key
    stopped,    \* stopped_by_signal
    pending,    \* sig_pending (SIGCHLD, ignored by default, is left out)
    irq,        \* the timer interrupt handler is running
    fwake       \* key and remaining count of the FUTEX_WAKE in progress

vars == << k, pc, wo, key, stopped, pending, irq, fwake >>

\* "user"    in ring 3, or about to enter it
\* "exit"    system call done, deliver_pending_signals() comes next
\* "scan"    at the head of sys_waitpid()'s loop
\* "wake"    in the loop of futex_wake()
\* "halt"    BLOCKED and current, in the sti;hlt;cli loop: nothing is runnable
\* "resume"  in wo_park_and_cleanup(), past the switch
PC == {"user", "exit", "scan", "wake", "halt", "resume"}

TypeOK ==
    /\ k \in KState
    /\ pc \in [Proc -> PC]
    /\ wo \in [Proc -> WaitObj \cup {None}]
    /\ key \in [Proc -> Addr \cup {None}]
    /\ stopped \in [Proc -> BOOLEAN]
    /\ pending \in [Proc -> SUBSET Catchable]
    /\ irq \in BOOLEAN
    /\ fwake \in [key : Addr \cup {None}, left : Nat]

Init ==
    /\ k = KInit
    /\ pc = [p \in Proc |-> "user"]
    /\ wo = [p \in Proc |-> None]
    /\ key = [p \in Proc |-> None]
    /\ stopped = [p \in Proc |-> FALSE]
    /\ pending = [p \in Proc |-> {}]
    /\ irq = FALSE
    /\ fwake = [key |-> None, left |-> 0]

-----------------------------------------------------------------------------
\* p executes kernel code at label l, or calls into the kernel from ring 3.
At(p, l) == ~irq /\ k.current = p /\ pc[p] = l
Invokes(p, call) == At(p, "user") /\ call \in Calls
Goto(p, l) == pc' = [pc EXCEPT ![p] = l]

(***************************************************************************)
(* sys_yield: requeue the caller and run the next process.                 *)
(***************************************************************************)
\* Mutant: the reference of the queue is kept when the caller picks itself.
sys_yield_leak(p) ==
    LET queued == scheduler_add_process(k, p)
        next   == PickedNext(queued)
        picked == scheduler_pick_next(queued)
    IN  /\ Invokes(p, "yield")
        /\ k' = IF next = p THEN picked ELSE switch_away(picked, p, next)
        /\ Goto(p, "exit")
        /\ UNCHANGED << wo, key, stopped, pending, irq, fwake >>

sys_yield(p) ==
    LET queued == scheduler_add_process(k, p)
        next   == PickedNext(queued)
        picked == scheduler_pick_next(queued)
    IN  /\ Invokes(p, "yield")
        /\ k' = IF next = p THEN process_unref(picked, p)
                            ELSE switch_away(picked, p, next)
        /\ Goto(p, "exit")
        /\ UNCHANGED << wo, key, stopped, pending, irq, fwake >>

\* A system call that touches none of the modelled state (getpid, a futex_wait
\* whose word has changed, waitpid(WNOHANG) with no zombie, kill() of a zombie).
sys_other(p) ==
    /\ Invokes(p, "other")
    /\ Goto(p, "exit")
    /\ UNCHANGED << k, wo, key, stopped, pending, irq, fwake >>

-----------------------------------------------------------------------------
(***************************************************************************)
(* Blocking: wait_object_block() and wo_park_and_cleanup().  The caller is *)
(* linked and BLOCKED in kk; a successor is picked.                        *)
(***************************************************************************)
Park(kk, p) ==
    LET next   == PickedNext(kk)
        picked == scheduler_pick_next(kk)
    IN  \/ /\ next = Idle                   \* nothing runnable: halt in place
           /\ k' = kk
           /\ Goto(p, "halt")
        \/ /\ next = p                      \* picked despite being blocked
           /\ k' = process_set_current(picked, p)
           /\ Goto(p, "resume")
        \/ /\ next \notin {Idle, p}
           /\ k' = switch_away(picked, p, next)
           /\ Goto(p, "resume")

wait_object_block(p, w, d) ==
    /\ Park(wait_object_link(k, w, p, d), p)
    /\ wo' = [wo EXCEPT ![p] = w]

\* Bound: fewer than MaxLeak references of p belong to nobody.
Bounded(p) == Slack(k, p) < MaxLeak

sys_sleep(p) ==
    /\ Invokes(p, "sleep") /\ Bounded(p)
    /\ \E d \in SleepTicks : wait_object_block(p, SleepObj, d)
    /\ UNCHANGED << key, stopped, pending, irq, fwake >>

\* FUTEX_WAIT when the word still has the expected value.
futex_wait(p) ==
    /\ Invokes(p, "futex") /\ Bounded(p)
    /\ \E a \in Addr : key' = [key EXCEPT ![p] = a]
    /\ wait_object_block(p, FutexObj, 0)
    /\ UNCHANGED << stopped, pending, irq, fwake >>

\* An interrupt ended the hlt.  If p itself was woken it resumes at once, with
\* the state (READY) and the ready-queue entry the waker gave it.
halt_wake(p) ==
    /\ At(p, "halt")
    /\ \/ /\ k.state[p] # "BLOCKED"
          /\ Goto(p, "resume")
          /\ k' = k
       \/ /\ k.state[p] = "BLOCKED"
          /\ k.rq # << >>
          /\ Park(k, p)
    /\ UNCHANGED << wo, key, stopped, pending, irq, fwake >>

\* p runs again: it leaves the wait object and the sleep list.  waitpid then
\* rescans; futex_wait clears the key.
park_cleanup(p) ==
    /\ At(p, "resume")
    /\ k' = wait_object_cleanup(k, wo[p], p)
    /\ Goto(p, IF wo[p] = p THEN "scan" ELSE "exit")
    /\ key' = [key EXCEPT ![p] = IF wo[p] = FutexObj THEN None ELSE @]
    /\ wo' = [wo EXCEPT ![p] = None]
    /\ UNCHANGED << stopped, pending, irq, fwake >>

-----------------------------------------------------------------------------
(***************************************************************************)
(* FUTEX_WAKE: wake up to nr waiters that are parked on this address,      *)
(* skipping colliding waiters of the bucket that are parked on another.    *)
(***************************************************************************)
futex_wake(p) ==
    /\ Invokes(p, "futex")
    /\ \E a \in Addr, nr \in WakeCounts : fwake' = [key |-> a, left |-> nr]
    /\ Goto(p, "wake")
    /\ UNCHANGED << k, wo, key, stopped, pending, irq >>

\* wo_pop_head_matching() finds no waiter, or finds the one at position j.
NoMatch == \A j \in DOMAIN k.waiters[FutexObj] :
               key[k.waiters[FutexObj][j]] # fwake.key
FirstMatch(j) ==
    /\ key[k.waiters[FutexObj][j]] = fwake.key
    /\ \A h \in 1 .. (j - 1) : key[k.waiters[FutexObj][h]] # fwake.key

wq_wake_one_key(p) ==
    /\ At(p, "wake") /\ fwake.left > 0
    /\ \E j \in DOMAIN k.waiters[FutexObj] :
         LET q == k.waiters[FutexObj][j]
         IN  /\ FirstMatch(j)
             /\ k' = wake_popped(k, FutexObj, q)
             /\ fwake' = [fwake EXCEPT !.left =
                             IF k.state[q] = "BLOCKED" THEN @ - 1 ELSE @]
    /\ UNCHANGED << pc, wo, key, stopped, pending, irq >>

futex_wake_return(p) ==
    /\ At(p, "wake")
    /\ fwake.left = 0 \/ NoMatch
    /\ fwake' = [key |-> None, left |-> 0]
    /\ Goto(p, "exit")
    /\ UNCHANGED << k, wo, key, stopped, pending, irq >>

-----------------------------------------------------------------------------
(***************************************************************************)
(* Process creation, exit and waitpid(-1).                                 *)
(***************************************************************************)
\* sys_fork(), sys_spawn() and sys_execve()-style loading into a fresh PCB.  The
\* memory of a freed PCB that the sleep list still names (SleepListLive) is not
\* handed out again: what the kernel does once it is, is undefined.
sys_spawn(p) ==
    /\ Invokes(p, "spawn")
    /\ \E c \in Proc :
         /\ k.state[c] = "FREE" /\ ~Contains(k.sleepers, c)
         /\ k' = process_create(k, p, c)
         /\ pc' = [pc EXCEPT ![p] = "exit", ![c] = "user"]
         /\ wo' = [wo EXCEPT ![c] = None]
         /\ key' = [key EXCEPT ![c] = None]
         /\ stopped' = [stopped EXCEPT ![c] = FALSE]
         /\ pending' = [pending EXCEPT ![c] = {}]
    /\ UNCHANGED << irq, fwake >>

\* sys_exit(), and the exception handler's kill of a faulting process.
sys_exit(p) ==
    /\ Invokes(p, "exit")
    /\ k' = schedule_dead(terminate(k, p), p)
    /\ UNCHANGED << pc, wo, key, stopped, pending, irq, fwake >>

sys_waitpid(p) ==
    /\ Invokes(p, "waitpid")
    /\ Goto(p, "scan")
    /\ UNCHANGED << k, wo, key, stopped, pending, irq, fwake >>

Matching(p) == {c \in Proc : IsChildOf(k, c, p)}
Zombies(p)  == {c \in Matching(p) : k.state[c] = "TERMINATED"}

\* A zombie child is reaped, unless its status cannot be copied out (EFAULT).
waitpid_found(p) ==
    /\ At(p, "scan")
    /\ \E c \in Zombies(p) : k' = reap(k, c) \/ k' = k
    /\ Goto(p, "exit")
    /\ UNCHANGED << wo, key, stopped, pending, irq, fwake >>

\* ECHILD.  At its bound a process gives up here instead of blocking again.
waitpid_no_child(p) ==
    /\ At(p, "scan")
    /\ Matching(p) = {} \/ (Zombies(p) = {} /\ ~Bounded(p))
    /\ Goto(p, "exit")
    /\ UNCHANGED << k, wo, key, stopped, pending, irq, fwake >>

waitpid_block(p) ==
    /\ At(p, "scan")
    /\ Matching(p) # {} /\ Zombies(p) = {} /\ Bounded(p)
    /\ wait_object_block(p, p, IF Preemptive THEN RecheckTicks ELSE 0)
    /\ UNCHANGED << key, stopped, pending, irq, fwake >>

-----------------------------------------------------------------------------
(***************************************************************************)
(* Signals (kill.c) and the process-control call (procapi.c).  Both hold   *)
(* the reference of process_get_by_pid() on their target t throughout.     *)
(***************************************************************************)
\* Mutant: process_get_by_pid() takes no reference.
terminate_by_borrowed(kk, t) ==
    process_unref(terminate(abort_if_blocked(kk, t), t), t)

terminate_by(kk, t) ==
    process_unref(terminate(abort_if_blocked(process_ref(kk, t), t), t), t)

\* Mutant: everything that is not yet BLOCKED is suspended, the dead too.
suspend_any(kk, t) ==
    IF kk.state[t] # "BLOCKED"
    THEN process_unref(
             scheduler_remove_process(
                 [process_ref(kk, t) EXCEPT !.state[t] = "BLOCKED"], t), t)
    ELSE kk

\* Takes t off the CPU's queue; a running t only changes its state.
suspend(kk, t) ==
    IF kk.state[t] \in {"RUNNING", "READY"}
    THEN process_unref(
             scheduler_remove_process(
                 [process_ref(kk, t) EXCEPT !.state[t] = "BLOCKED"], t), t)
    ELSE kk

resume(kk, t) ==
    process_unref(
        scheduler_add_process(process_set_ready(process_ref(kk, t), t), t), t)

\* Workloads tell signals to oneself from signals to others.
SelfOr(p, t, other, self) == IF t = p THEN self ELSE other

\* SIGKILL and SIGTERM.
sys_kill_term(p, t) ==
    /\ Invokes(p, SelfOr(p, t, "kill", "killself")) /\ ~Dead(k, t)
    /\ k' = terminate_by(k, t)
    /\ Goto(p, "exit")
    /\ UNCHANGED << wo, key, stopped, pending, irq, fwake >>

sys_kill_stop(p, t) ==
    /\ Invokes(p, SelfOr(p, t, "stop", "stopself")) /\ ~Dead(k, t)
    /\ k' = suspend(k, t)
    /\ stopped' = [stopped EXCEPT ![t] = @ \/ k.state[t] \in {"RUNNING", "READY"}]
    /\ Goto(p, "exit")
    /\ UNCHANGED << wo, key, pending, irq, fwake >>

sys_kill_cont(p, t) ==
    /\ Invokes(p, "stop") /\ k.state[t] = "BLOCKED" /\ stopped[t]
    /\ k' = resume(k, t)
    /\ stopped' = [stopped EXCEPT ![t] = FALSE]
    /\ Goto(p, "exit")
    /\ UNCHANGED << wo, key, pending, irq, fwake >>

\* Any other signal becomes pending; a blocked target leaves its wait object.
sys_kill_catchable(p, t) ==
    /\ Invokes(p, SelfOr(p, t, "signal", "signalself")) /\ ~Dead(k, t)
    /\ \E sig \in Signals : pending' = [pending EXCEPT ![t] = @ \cup {sig}]
    /\ k' = IF stopped[t] THEN k
            ELSE process_unref(abort_if_blocked(process_ref(k, t), t), t)
    /\ Goto(p, "exit")
    /\ UNCHANGED << wo, key, stopped, irq, fwake >>

\* PID 1 is protected; the verbs do not look at stopped_by_signal, and KILL
\* does not look at the state.
procapi_ctl(p, t) ==
    /\ Invokes(p, SelfOr(p, t, "procctl", "procctlself"))
    /\ t # InitProc /\ k.state[t] # "FREE"
    /\ \/ k' = suspend(k, t)
       \/ k.state[t] = "BLOCKED" /\ k' = resume(k, t)
       \/ k' = terminate_by(k, t)
    /\ Goto(p, "exit")
    /\ UNCHANGED << wo, key, stopped, pending, irq, fwake >>

\* schedule() by a live p whose time slice has run out.
schedule_expired(kk, p) ==
    LET queued == scheduler_add_process(kk, p)
        next   == PickedNext(queued)
        picked == scheduler_pick_next(queued)
    IN  IF next = p THEN process_unref([picked EXCEPT !.state[p] = "RUNNING"], p)
                    ELSE switch_away(picked, p, next)

\* On the way back to ring 3: nothing is pending, or sig_mask blocks it all.
deliver_nothing(p) ==
    /\ At(p, "exit")
    /\ Goto(p, "user")
    /\ UNCHANGED << k, wo, key, stopped, pending, irq, fwake >>

\* The lowest unblocked signal (sig_mask is the program's choice) is consumed:
\* ignored or handled in ring 3, or given its default action.
deliver_caught(p, sig) ==
    /\ At(p, "exit") /\ sig \in pending[p]
    /\ pending' = [pending EXCEPT ![p] = @ \ {sig}]
    /\ Goto(p, "user")
    /\ UNCHANGED << k, wo, key, stopped, irq, fwake >>

\* Default action stop; schedule() switches away only when the slice is used up.
deliver_stop(p) ==
    /\ At(p, "exit") /\ "TSTP" \in pending[p]
    /\ pending' = [pending EXCEPT ![p] = @ \ {"TSTP"}]
    /\ k.state[p] \in {"RUNNING", "READY"}
    /\ stopped' = [stopped EXCEPT ![p] = TRUE]
    /\ LET halted == scheduler_remove_process([k EXCEPT !.state[p] = "BLOCKED"], p)
       IN  k' = halted \/ k' = schedule_expired(halted, p)
    /\ Goto(p, "user")
    /\ UNCHANGED << wo, key, irq, fwake >>

deliver_terminate(p) ==
    /\ At(p, "exit") /\ "USR1" \in pending[p]
    /\ pending' = [pending EXCEPT ![p] = @ \ {"USR1"}]
    /\ k' = schedule_dead(terminate(abort_if_blocked(k, p), p), p)
    /\ Goto(p, "user")
    /\ UNCHANGED << wo, key, stopped, irq, fwake >>

-----------------------------------------------------------------------------
(***************************************************************************)
(* Interrupts.                                                             *)
(***************************************************************************)
Interruptible ==
    ~irq /\ \A p \in Proc : k.current = p => pc[p] \in {"user", "halt"}

NoneDue == \A j \in DOMAIN k.sleepers : k.deadline[k.sleepers[j]] > 0

\* Mutant: a sleeper is due one tick early.
first_due_early(j) ==
    /\ k.deadline[k.sleepers[j]] <= 1
    /\ \A h \in 1 .. (j - 1) : k.deadline[k.sleepers[h]] > 1

FirstDue(j) ==
    /\ k.deadline[k.sleepers[j]] = 0
    /\ \A h \in 1 .. (j - 1) : k.deadline[k.sleepers[h]] > 0

\* Mutant: a tick does not move the clock.
timer_tick_frozen ==
    /\ Interruptible
    /\ irq' = TRUE
    /\ UNCHANGED << k, pc, wo, key, stopped, pending, fwake >>

\* The PIT ticks: every armed deadline comes closer.
timer_tick ==
    /\ Interruptible
    /\ irq' = TRUE
    /\ k' = [k EXCEPT !.deadline =
                [p \in Proc |-> IF @[p] > 0 THEN @[p] - 1 ELSE 0]]
    /\ UNCHANGED << pc, wo, key, stopped, pending, fwake >>

\* Mutant: the sleeper is made READY and not queued.
wake_due_unqueued ==
    /\ irq
    /\ \E j \in DOMAIN k.sleepers :
         LET q == k.sleepers[j]
         IN  /\ FirstDue(j)
             /\ k' = process_set_ready(sleep_list_remove(k, q), q)
    /\ UNCHANGED << pc, wo, key, stopped, pending, irq, fwake >>

\* sleep_list_wake_due() unlinks the first sleeper whose time has come.  It
\* leaves the wait object alone.
sleep_list_wake_due ==
    /\ irq
    /\ \E j \in DOMAIN k.sleepers :
         LET q     == k.sleepers[j]
             taken == sleep_list_remove(k, q)
         IN  /\ FirstDue(j)
             /\ k' = IF k.state[q] = "BLOCKED"
                     THEN scheduler_add_process(process_set_ready(taken, q), q)
                     ELSE taken
    /\ UNCHANGED << pc, wo, key, stopped, pending, irq, fwake >>

timer_return ==
    /\ irq /\ NoneDue
    /\ irq' = FALSE
    /\ UNCHANGED << k, pc, wo, key, stopped, pending, fwake >>

\* Mutant: a dead process is kept when there is no other to run.
schedule_from_irq_stay(p) ==
    LET next   == PickedNext(k)
        picked == scheduler_pick_next(k)
    IN  /\ Preemptive /\ irq /\ NoneDue
        /\ k.current = p /\ pc[p] = "user"
        /\ k.state[p] \in {"RUNNING", "TERMINATED"}
        /\ irq' = FALSE
        /\ k' = IF next \in {p, Idle} THEN picked
                ELSE switch_away(scheduler_add_process(picked, p), p, next)
        /\ UNCHANGED << pc, wo, key, stopped, pending, fwake >>

\* schedule_from_irq() past its guards: ring 3 was interrupted, the process is
\* RUNNING with its quantum used up, or TERMINATED.
schedule_from_irq(p) ==
    LET next   == PickedNext(k)
        picked == scheduler_pick_next(k)
    IN  /\ Preemptive /\ irq /\ NoneDue
        /\ k.current = p /\ pc[p] = "user"
        /\ k.state[p] \in {"RUNNING", "TERMINATED"}
        /\ irq' = FALSE
        /\ k' = IF next = p \/ (next = Idle /\ k.state[p] # "TERMINATED")
                THEN picked
                ELSE switch_away(scheduler_add_process(picked, p), p, next)
        /\ UNCHANGED << pc, wo, key, stopped, pending, fwake >>

\* Ctrl+Alt+Backspace, in the keyboard interrupt.
ps2_compositor_kill(t) ==
    /\ Interruptible
    /\ t \in Hotkey /\ ~Dead(k, t)
    /\ k' = terminate_by(k, t)
    /\ UNCHANGED << pc, wo, key, stopped, pending, irq, fwake >>

-----------------------------------------------------------------------------
Syscall(p) ==
    \/ sys_yield(p) \/ sys_other(p) \/ sys_sleep(p) \/ futex_wait(p)
    \/ futex_wake(p) \/ sys_spawn(p) \/ sys_exit(p) \/ sys_waitpid(p)
    \/ \E t \in Proc : \/ sys_kill_term(p, t) \/ sys_kill_stop(p, t)
                       \/ sys_kill_cont(p, t) \/ sys_kill_catchable(p, t)
                       \/ procapi_ctl(p, t)

\* Kernel code p runs without entering ring 3 again.
Continue(p) ==
    \/ halt_wake(p) \/ park_cleanup(p)
    \/ wq_wake_one_key(p) \/ futex_wake_return(p)
    \/ waitpid_found(p) \/ waitpid_no_child(p) \/ waitpid_block(p)
    \/ deliver_nothing(p) \/ \E sig \in Catchable : deliver_caught(p, sig)
    \/ deliver_stop(p) \/ deliver_terminate(p)

Interrupt ==
    \/ timer_tick \/ sleep_list_wake_due \/ timer_return
    \/ \E p \in Proc : schedule_from_irq(p) \/ ps2_compositor_kill(p)

Next == Interrupt \/ \E p \in Proc : Syscall(p) \/ Continue(p)

Spec == Init /\ [][Next]_vars

\* The timer interrupt stays latched while interrupts are off, so it is taken at
\* one of the moments it can be; its handler and kernel code run to their end;
\* a process that is interrupted in ring 3 again and again uses up its quantum.
\* No process has to call the kernel.
Fairness ==
    /\ SF_vars(timer_tick)
    /\ WF_vars(sleep_list_wake_due \/ timer_return \/ \E p \in Proc : schedule_from_irq(p))
    /\ \A p \in Proc : WF_vars(Continue(p)) /\ SF_vars(schedule_from_irq(p))

FairSpec == Spec /\ Fairness

-----------------------------------------------------------------------------
(***************************************************************************)
(* Safety.                                                                 *)
(***************************************************************************)
\* The ready queue holds exactly the PCBs with on_queue set, each once
\* (scheduler_add_process()'s idempotency guard), and no dead one.
QueueConsistent == QueueSound(k) /\ \A p \in Proc : k.on_queue[p] => ~Dead(k, p)

\* wait_on names the one wait object a PCB is linked on, however wakers, the
\* timer, signals and the sleeper itself compete to unlink it (wo_unlink()).
\* Only the owner of a child_wait queue ever blocks on it (waitpid()), which is
\* what lets process_on_terminate() wake one waiter only.
LinksConsistent ==
    /\ LinkSound(k)
    /\ \A p, q \in Proc : Linked(k, p, q) => p = q

\* Every reference that the creator, the ready queue, the CPU and a wait object
\* count on is in ref_count: no process_unref() is one too many, and a PCB it
\* has freed is on no queue and no wait object, and does not run.
RefsCovered == Covered(k) /\ Unheld(k)

\* And there is no other: between handlers ref_count is exactly their sum, the
\* accounting the LEAK-FIX comments spell out.
RefExact == \A p \in Proc : Slack(k, p) = 0

\* Whoever gives up the CPU stops being RUNNING: no path of the blocking,
\* yielding, preempting and dying code leaves two RUNNING processes.  And a READY
\* process is on the ready queue or has the CPU: none is invisible to the
\* scheduler ("unrunnable, unkillable limbo", SIGCONT's FIX H4).
RunnableFound ==
    \A p \in Proc :
        /\ k.state[p] = "RUNNING" => k.current = p
        /\ k.state[p] = "READY" => k.on_queue[p] \/ k.current = p

\* No process sleeps in waitpid() while it has a zombie to reap: the scan and
\* the blocking miss no exit, nor a zombie that reparenting hands over.
NoLostChildWakeup ==
    \A p \in Proc : k.state[p] = "BLOCKED" /\ k.wait_on[p] = p => Zombies(p) = {}

\* Every process that was not reaped has a parent that can reap it: a live one,
\* or init (process_on_terminate()'s reparenting, through PID reuse).
NoOrphan ==
    \A c \in Proc \ {InitProc} : k.state[c] # "FREE" /\ ~k.reaped[c] =>
        \E p \in Proc : IsChildOf(k, c, p) /\ (p = InitProc \/ ~Dead(k, p))

\* A PCB is freed only as a zombie whose status was collected.
FreedOnlyReaped ==
    [][\A p \in Proc : k.state[p] # "FREE" /\ k'.state[p] = "FREE" =>
          k.state[p] = "TERMINATED" /\ k'.reaped[p]]_vars

\* TERMINATED is for ever, until the PCB is freed: no late waker, timer or
\* SIGCONT revives the process (the guards of process_set_ready() and
\* scheduler_add_process()).
DeadStaysDead ==
    [][\A p \in Proc : k.state[p] = "TERMINATED" => Dead(k', p)]_vars

OnSleepList(p) == Contains(k.sleepers, p)

\* sched_validate_task(): a dead process is not on the sleep list, from which
\* the timer would reach a freed PCB.
SleepListLive == \A p \in Proc : OnSleepList(p) => ~Dead(k, p)

\* A BLOCKED process can be made ready by a wait object, by the timer or, if it
\* was stopped, by SIGCONT (sched_validate_task(): "BLOCKED but on neither wait
\* nor sleep list").  Nobody wakes the wait object of sys_sleep(): whoever is on
\* that one is on the sleep list.
NoStranded ==
    \A p \in Proc : k.state[p] = "BLOCKED" /\ ~stopped[p] =>
        k.wait_on[p] \notin {None, SleepObj} \/ OnSleepList(p)

\* "Resumed here after the timer woke us at the deadline" (handlers.c:1060): a
\* process asleep is made to run by the timer and not before its deadline, or by
\* an entry that it left on the ready queue when it was woken halting in place.
SleepsFull ==
    [][\A p \in Proc :
          k.state[p] = "BLOCKED" /\ k.wait_on[p] = SleepObj
             /\ k'.state[p] \in {"READY", "RUNNING"}
          => k.deadline[p] = 0 \/ k.on_queue[p]]_vars

-----------------------------------------------------------------------------
(***************************************************************************)
(* Liveness.                                                               *)
(***************************************************************************)
\* Every sleeper is woken, whatever the other processes do.
SleepersWake ==
    \A p \in Proc : (k.state[p] = "BLOCKED" /\ k.wait_on[p] = SleepObj)
                       ~> (k.state[p] # "BLOCKED")

\* With timer preemption a queued process runs even if the others never call
\* the kernel (as long as the CPU has not gone idle, see IdleServes).
EveryoneRuns ==
    \A p \in Proc : (k.on_queue[p] /\ k.current # Idle)
                       ~> (~k.on_queue[p] \/ k.current = Idle)

\* A process that was killed while it runs loses the CPU (KILL-FIX-002).
DeadLeavesCPU ==
    \A p \in Proc : (k.current = p /\ k.state[p] = "TERMINATED") ~> (k.current # p)

\* The idle thread gives the CPU to a process that becomes ready.
IdleServes == (k.current = Idle /\ k.rq # << >>) ~> (k.current # Idle)
=============================================================================
