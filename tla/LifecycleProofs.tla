-------------------------- MODULE LifecycleProofs --------------------------
(***************************************************************************)
(* The life of a process in Sched, for every workload, every number of     *)
(* processes and both builds: what the scheduler finds on the ready queue, *)
(* that waitpid() misses no exit, that a PCB is freed only when it has been*)
(* reaped; and, for the workloads that leave out the calls which spoil     *)
(* them, that every process can be reaped, that the dead stay dead, that a *)
(* blocked process can be woken and that a sleep is not cut short.         *)
(***************************************************************************)
EXTENDS SchedProofs, KernelMoveProofs

-----------------------------------------------------------------------------
(***************************************************************************)
(* Workloads.                                                              *)
(***************************************************************************)
\* No running process is marked TERMINATED under its own feet: it then goes on
\* in the kernel until it leaves the CPU.
NoSelfKill == Calls \cap {"killself", "procctlself"} = {} /\ Hotkey = {}

\* No catchable signal and no PROC_CTL verb: the first takes a blocked process
\* off its wait object without waking it, the second stops a process without
\* setting stopped_by_signal.
NoSignals == Calls \cap {"signal", "signalself", "procctl", "procctlself"} = {}

\* Nobody but the timer readies a process that sleeps: no SIGCONT, no
\* PROC_CTL_RESUME.
NoResume == Calls \cap {"stop", "procctl", "procctlself"} = {}

-----------------------------------------------------------------------------
(***************************************************************************)
(* What a step does.                                                       *)
(***************************************************************************)
\* How q fares: the classes of KernelMoveProofs, with what the handler that
\* causes them does to the variables of Sched.
Handled(q) ==
    \/ Shift(k, k', q)
    \/ Unparked(k, k', q) /\ (k.state[q] = "BLOCKED" => ~NoSignals)
    \/ Blocks(k, k', q)
    \/ Stops(k, k', q) /\ (stopped'[q] \/ ~NoSignals)
    \/ Readied(k, k', q) /\ (k.deadline[q] = 0 \/ ~NoResume)

\* SIGCONT readies the process that it lets go on.
Released(q) == stopped[q] => stopped'[q] \/ k'.state[q] # "BLOCKED"

\* Nobody starts to resume from wait_object_block() BLOCKED.
Resumes(q) ==
    k'.current = q /\ pc'[q] = "resume" /\ k'.state[q] = "BLOCKED" =>
        k.current = q /\ pc[q] = "resume" /\ k.state[q] = "BLOCKED"

\* Only a zombie is reaped; a dead process runs only if it ran when it died.
Collects(q) == k'.reaped[q] => k.reaped[q] \/ k.state[q] = "TERMINATED"
Lives(q) ==
    k'.current = q /\ k'.state[q] = "TERMINATED" =>
        (k.current = q /\ k.state[q] = "TERMINATED") \/ ~NoSelfKill

\* The processor runs no dead process.
Alive == \A p \in Proc : k.current = p => k.state[p] # "TERMINATED"

Fares(q) == (Handled(q) \/ Born(k, k', q)) /\ Released(q) /\ Resumes(q) /\ Collects(q) /\ Lives(q)

Advance ==
    /\ Good(k') /\ \A q \in Proc : Fares(q)
    /\ Alive /\ Parented(k) => Parented(k')

\* Nobody runs on in wo_park_and_cleanup() BLOCKED.
ResumeRuns == \A p \in Proc : k.current = p /\ pc[p] = "resume" => k.state[p] # "BLOCKED"

-----------------------------------------------------------------------------
(***************************************************************************)
(* Steps that terminate nobody.                                            *)
(***************************************************************************)
\* How a step that ends nobody must treat each process.
Treats(q) == Handled(q) /\ Released(q) /\ Resumes(q)

\* The step keeps the invariant.
LEMMA OrderlyAdvance ==
    ASSUME IInv, KInv(k'), Good(k), Orderly(k, k'), \A q \in Proc : Treats(q),
           \A q \in Proc : Awaits(k, k', q)
    PROVE  Advance
<1>1. KInv(k) /\ Rest(k, k')  BY Zenon DEF IInv, Orderly
<1>2. Good(k')
    <2>1. \A q \in Proc : \/ Shift(k, k', q) \/ Unparked(k, k', q) \/ Blocks(k, k', q)
                          \/ Stops(k, k', q) \/ Readied(k, k', q)
        BY Zenon DEF Treats, Handled
    <2>2. \A q \in Proc : k'.state[q] = "TERMINATED" => k.state[q] = "TERMINATED"
        BY Zenon DEF Orderly
    <2> QED  BY ZenonT(40), <1>1, <2>1, <2>2, ShiftGood
<1>3. Parented(k) => Parented(k')  BY Zenon, <1>1, OrderlyParented
<1>4. ASSUME NEW q \in Proc PROVE Fares(q)
    <2>1. Treats(q)  BY Zenon
    <2>2. Handled(q) /\ Released(q) /\ Resumes(q)  BY Zenon, <2>1 DEF Treats
    <2>3. Collects(q)  BY Zenon, <1>1 DEF Collects, Rest
    <2>4. ASSUME k'.current = q, k'.state[q] = "TERMINATED"
          PROVE  k.current = q /\ k.state[q] = "TERMINATED"
        <3>1. k.state[q] = "TERMINATED"  BY SMTT(30), <2>4 DEF Orderly
        <3>2. k.current = q
            BY <2>1, <2>4 DEF Treats, Handled, Shift, Calm, Dying, Stays, Picked, Requeued, Leaves,
                              Unparked, Blocks, Stops, Readied
        <3> QED  BY Zenon, <3>1, <3>2
    <2> QED  BY Zenon, <2>2, <2>3, <2>4 DEF Fares, Lives
<1> QED  BY Zenon, <1>2, <1>3, <1>4 DEF Advance

\* A step of the running process p that does not take it to "resume" and adds
\* no wait link.
LEMMA ActorAdvance ==
    ASSUME IInv, Good(k), Orderly(k, k'), Quiet(k, k'), NEW p \in Proc, k.current = p,
           pc'[p] # "resume", \A q \in Proc : Handled(q) /\ Released(q)
    PROVE  Advance
<1>1. ASSUME NEW q \in Proc, k'.current = q, k'.state[q] = "BLOCKED" PROVE k.current = q
    <2>1. Handled(q)  BY Zenon
    <2> QED  BY <1>1, <2>1 DEF Handled, Shift, Calm, Dying, Stays, Dead, Picked, Requeued,
                               Leaves, Unparked, Blocks, Stops, Readied
<1>2. \A q \in Proc : Resumes(q)  BY Zenon, <1>1 DEF Resumes
<1>3. KInv(k') /\ \A q \in Proc : Awaits(k, k', q)  BY Zenon, AwaitsNothing DEF Quiet
<1> QED  BY Zenon, <1>2, <1>3, OrderlyAdvance DEF Treats

\* Nothing happens to q.
LEMMA Untroubled ==
    ASSUME k' = k, NEW q
    PROVE  Shift(k, k', q) /\ Handled(q)
  BY Zenon DEF Shift, Calm, Move, Parked, Handled

\* A step that does not touch the kernel state: p may start to resume, if it is
\* not BLOCKED.
LEMMA StillAdvance ==
    ASSUME IInv, Good(k), NEW p \in Proc, k.current = p, k' = k, stopped' = stopped,
           pc'[p] # "resume" \/ k.state[p] # "BLOCKED"
    PROVE  Advance
<1>1. \A q \in Proc : Handled(q)  BY Zenon, Untroubled
<1>2. \A q \in Proc : Released(q) /\ Resumes(q)  BY Zenon DEF Released, Resumes
<1>3. Orderly(k, k')  BY Zenon DEF Orderly, Rest
<1>4. KInv(k') /\ \A q \in Proc : Awaits(k, k', q)  BY Zenon DEF IInv, Awaits
<1> QED  BY Zenon, <1>1, <1>2, <1>3, <1>4, OrderlyAdvance DEF Treats

\* A step in which p goes to label l.
LEMMA Gone ==
    ASSUME IInv, NEW p \in Proc, NEW l, Goto(p, l)
    PROVE  pc'[p] = l
  BY Zenon DEF IInv, TypeOK, Goto

-----------------------------------------------------------------------------
(***************************************************************************)
(* System calls.                                                           *)
(***************************************************************************)
\* The caller of a system call runs, and is on no wait object.
LEMMA Caller ==
    ASSUME IInv, NEW p \in Proc, NEW l \in {"user", "exit", "scan", "wake"}, At(p, l)
    PROVE  k.current = p /\ k.wait_on[p] = None /\ KInv(k) /\ pc[p] = l
  BY DEF At, IInv, PcInv

LEMMA YieldAdvance ==
    ASSUME IInv, IInv', Good(k), NEW p \in Proc, sys_yield(p)
    PROVE  Advance
<1>1. k.current = p /\ k.wait_on[p] = None /\ KInv(k)
    BY Caller DEF sys_yield, Invokes
<1>2. Quiet(k, k')  BY Zenon, <1>1, RequeueQuiet DEF sys_yield
<1>3. Orderly(k, k') /\ \A q \in Proc : Shift(k, k', q)
    <2>1. Sane(k, p) /\ KInv(k')  BY Zenon DEF Good, IInv
    <2>2. LET queued == scheduler_add_process(k, p)
              next   == PickedNext(queued)
              picked == scheduler_pick_next(queued)
          IN  \/ next = p /\ k' \in {process_unref(picked, p),
                    process_unref([picked EXCEPT !.state[p] = "RUNNING"], p)}
              \/ next # p /\ k' = switch_away(picked, p, next)
        BY Zenon DEF sys_yield
    <2> QED  BY Zenon, <1>1, <2>1, <2>2, RequeueShift
<1>4. pc'[p] = "exit" /\ stopped' = stopped  BY Zenon, Gone DEF sys_yield
<1>5. pc'[p] # "resume"  BY <1>4
<1> QED  BY Zenon, <1>1, <1>2, <1>3, <1>4, <1>5, ActorAdvance DEF Handled, Released

\* The system calls that only go on elsewhere.
LEMMA PlainAdvance ==
    ASSUME IInv, Good(k), NEW p \in Proc, NEW l \in {"user", "exit", "scan", "wake"}, At(p, l),
           NEW m \in {"user", "exit", "scan", "wake"}, Goto(p, m), UNCHANGED << k, stopped >>
    PROVE  Advance
<1>1. k.current = p  BY Zenon DEF At
<1>2. pc'[p] # "resume"  BY Gone
<1> QED  BY Zenon, <1>1, <1>2, StillAdvance

\* Park() either halts with nothing else to run, or takes p to "resume".
LEMMA ParkGoes ==
    ASSUME IInv, NEW kk, KInv(kk), NEW p \in Proc, kk.current = p, Park(kk, p)
    PROVE  /\ ParkTo(kk, k', p)
           /\ pc'[p] = "resume" /\ k'.current = p => k'.state[p] # "BLOCKED"
<1>1. ParkTo(kk, k', p)  BY Zenon DEF Park, ParkTo
<1>2. CASE Goto(p, "halt")
    <2>1. pc'[p] = "halt"  BY Zenon, <1>2, Gone
    <2> QED  BY <1>1, <2>1
<1>3. CASE PickedNext(kk) # Idle  BY Zenon, <1>1, <1>3, ParkRuns
<1>4. p # Idle  BY ConstantsAssumption
<1> QED  BY Zenon, <1>2, <1>3, <1>4 DEF Park

\* The state in which p is linked and BLOCKED is a good one.
LEMMA LinkedState ==
    ASSUME NEW kk, KInv(kk), NEW p \in Proc, NEW w \in WaitObj, NEW d \in Nat,
           kk.wait_on[p] = None
    PROVE  /\ KInv(wait_object_link(kk, w, p, d))
           /\ wait_object_link(kk, w, p, d).current = kk.current
<1> DEFINE k1 == wait_object_link(kk, w, p, d)
<1>1. /\ KInv(k1) /\ k1.current = kk.current
      /\ k1.wait_on = [kk.wait_on EXCEPT ![p] = w]
    BY LinkKeeps
<1> HIDE DEF k1
<1>2. KInv(k1) /\ k1.current = kk.current  BY <1>1
<1> QED  BY <1>2 DEF k1

\* Blocking on an object on which no zombie is waited for.
LEMMA BlockAdvance ==
    ASSUME IInv, IInv', Good(k), NEW p \in Proc, k.current = p, k.wait_on[p] = None,
           NEW w \in WaitObj, NEW d \in Nat, w = SleepObj => d # 0,
           wait_object_block(p, w, d), stopped' = stopped,
           w = p => \A c \in Proc : ~ZombieOf(k, c, p)
    PROVE  Advance
<1> DEFINE k1 == wait_object_link(k, w, p, d)
<1>1. KInv(k) /\ KInv(k') /\ k.wait_on \in [Proc -> WaitObj \cup {None}]
    BY Zenon DEF IInv, KInv, KState
<1>2. Park(k1, p)  BY Zenon DEF wait_object_block
<1>3. KInv(k1) /\ k1.current = k.current  BY Zenon, <1>1, LinkedState
<1>4. KInv(k1) /\ k1.current = p  BY Zenon, <1>3
<1> HIDE DEF k1
<1>5. /\ ParkTo(k1, k', p)
      /\ pc'[p] = "resume" /\ k'.current = p => k'.state[p] # "BLOCKED"
    BY Zenon, <1>2, <1>4, ParkGoes
<1>6. BlocksOn(k, k', p, w)  BY Zenon, <1>1, <1>5, BlockShift DEF k1
<1>7. ASSUME NEW q \in Proc PROVE Treats(q)
    <2>1. Shift(k, k', q) \/ (q = p /\ Blocks(k, k', q))  BY Zenon, <1>6 DEF BlocksOn
    <2>2. Handled(q) /\ Released(q)  BY Zenon, <2>1 DEF Handled, Released
    <2>3. k'.current = q /\ k'.state[q] = "BLOCKED" => k.current = q
        BY <2>1 DEF Shift, Calm, Dying, Stays, Dead, Picked, Requeued, Leaves, Blocks
    <2>4. Resumes(q)  BY Zenon, <1>5, <2>3 DEF Resumes
    <2> QED  BY Zenon, <2>2, <2>4 DEF Treats
<1>8. ASSUME NEW q \in Proc PROVE Awaits(k, k', q)
    <2>1. k'.wait_on = [k.wait_on EXCEPT ![p] = w]  BY Zenon, <1>6 DEF BlocksOn
    <2>2. CASE q = p  BY <1>1, <2>1, <2>2 DEF Awaits
    <2>3. CASE q # p  BY <1>1, <2>1, <2>3 DEF Awaits
    <2> QED  BY Zenon, <2>2, <2>3
<1> QED  BY Zenon, <1>1, <1>6, <1>7, <1>8, OrderlyAdvance DEF BlocksOn

\* sys_sleep(), FUTEX_WAIT and the blocking waitpid().
LEMMA BlockingAdvance ==
    ASSUME IInv, IInv', Good(k), NEW p \in Proc,
           sys_sleep(p) \/ futex_wait(p) \/ waitpid_block(p)
    PROVE  Advance
<1>0. SleepObj \in WaitObj /\ FutexObj \in WaitObj /\ p \in WaitObj
      /\ SleepObj # FutexObj /\ SleepObj # p /\ FutexObj # p /\ 0 \in Nat
    BY ConstantsAssumption DEF WaitObj
<1>1. CASE sys_sleep(p)
    <2>1. k.current = p /\ k.wait_on[p] = None  BY <1>1, Caller DEF sys_sleep, Invokes
    <2>2. PICK d \in SleepTicks : wait_object_block(p, SleepObj, d)
        BY Zenon, <1>1 DEF sys_sleep
    <2>3. d \in Nat /\ d # 0 /\ stopped' = stopped  BY <1>1, WorkloadAssumption DEF sys_sleep
    <2> QED  BY Zenon, <1>0, <2>1, <2>2, <2>3, BlockAdvance
<1>2. CASE futex_wait(p)
    <2>1. k.current = p /\ k.wait_on[p] = None  BY <1>2, Caller DEF futex_wait, Invokes
    <2>2. wait_object_block(p, FutexObj, 0) /\ stopped' = stopped
        BY Zenon, <1>2 DEF futex_wait
    <2> QED  BY Zenon, <1>0, <2>1, <2>2, BlockAdvance
<1>3. CASE waitpid_block(p)
    <2> DEFINE d == IF Preemptive THEN RecheckTicks ELSE 0
    <2>1. k.current = p /\ k.wait_on[p] = None  BY <1>3, Caller DEF waitpid_block
    <2>2. d \in Nat /\ wait_object_block(p, p, d) /\ stopped' = stopped
        BY <1>3, WorkloadAssumption DEF waitpid_block
    <2>3. \A c \in Proc : ~ZombieOf(k, c, p)
        BY Zenon, <1>3 DEF waitpid_block, Zombies, Matching, ZombieOf
    <2> HIDE DEF d
    <2> QED  BY Zenon, <1>0, <2>1, <2>2, <2>3, BlockAdvance
<1> QED  BY Zenon, <1>1, <1>2, <1>3

\* fork() and spawn().
LEMMA SpawnAdvance ==
    ASSUME IInv, IInv', Good(k), NEW p \in Proc, sys_spawn(p)
    PROVE  Advance
<1>1. k.current = p /\ k.wait_on[p] = None /\ KInv(k)
    BY Caller DEF sys_spawn, Invokes
<1>2. PICK c \in Proc :
        /\ k.state[c] = "FREE" /\ k' = process_create(k, p, c)
        /\ pc' = [pc EXCEPT ![p] = "exit", ![c] = "user"]
        /\ stopped' = [stopped EXCEPT ![c] = FALSE]
    BY Zenon DEF sys_spawn
<1>3. Creates(k, k', p, c)  BY Zenon, <1>1, <1>2, CreateFields
<1>4. /\ Good(k') /\ Born(k, k', c) /\ \A q \in Proc : q # c => Calm(k, k', q)
    BY Zenon, <1>1, <1>2, <1>3, CreateGood
<1>5. k.state[p] # "FREE" /\ k.reaped[c] /\ k.current # c  BY Zenon, <1>1, <1>2, FreeUnheld
<1>6. c # InitProc  BY Zenon, <1>5 DEF Good, Family
<1>7. ASSUME Alive, Parented(k) PROVE Parented(k')
    <2>1. ~Dead(k, p)  BY <1>1, <1>5, <1>7 DEF Alive, Dead
    <2> QED  BY Zenon, <1>2, <1>3, <1>6, <1>7, <2>1, CreateParented
<1>8. ASSUME NEW q \in Proc PROVE Fares(q)
    <2>1. Handled(q) \/ Born(k, k', q)  BY Zenon, <1>4 DEF Handled, Shift
    <2>2. Released(q)
        BY <1>2, <1>3 DEF Released, Creates, IInv, TypeOK
    <2>3. /\ k'.current = k.current /\ (k'.reaped[q] => k.reaped[q])
          /\ q # c => k'.state[q] = k.state[q]
        BY <1>3 DEF Creates
    <2>4. Collects(q) /\ Lives(q)  BY <1>1, <1>5, <2>3 DEF Collects, Lives
    <2>5. pc'[p] # "resume"  BY <1>2 DEF IInv, TypeOK
    <2>6. Resumes(q)  BY Zenon, <1>1, <2>3, <2>5 DEF Resumes
    <2> QED  BY Zenon, <2>1, <2>2, <2>4, <2>6 DEF Fares
<1> QED  BY Zenon, <1>4, <1>7, <1>8 DEF Advance

\* A waitpid() that finds a zombie.
LEMMA FoundAdvance ==
    ASSUME IInv, IInv', Good(k), NEW p \in Proc, waitpid_found(p)
    PROVE  Advance
<1>1. k.current = p /\ k.wait_on[p] = None /\ KInv(k)  BY Caller DEF waitpid_found
<1>2. PICK c \in Zombies(p) : k' = reap(k, c) \/ k' = k  BY Zenon DEF waitpid_found
<1>3. c \in Proc /\ k.state[c] = "TERMINATED" /\ k.parent[c] = p
    BY Zenon, <1>2 DEF Zombies, Matching, IsChildOf
<1>4. pc'[p] = "exit" /\ stopped' = stopped  BY Zenon, Gone DEF waitpid_found
<1>5. pc'[p] # "resume"  BY <1>4
<1>6. CASE k' = k  BY Zenon, <1>1, <1>4, <1>5, <1>6, StillAdvance
<1>7. CASE k' = reap(k, c)
    <2>1. c # InitProc /\ c # p
        BY Zenon, <1>3, ConstantsAssumption DEF Good, Family
    <2>2. ~k.on_queue[c] /\ Dead(k, c)  BY <1>3 DEF Good, Sane, Dead
    <2>3. Reaps(k, k', c)  BY Zenon, <1>1, <1>3, <1>7, <2>2, ReapFields
    <2>4. Good(k') /\ \A q \in Proc : Shift(k, k', q)
        BY Zenon, <1>1, <1>3, <2>1, <2>3, ReapGood
    <2>5. Parented(k) => Parented(k')  BY Zenon, <1>3, <2>1, <2>2, <2>3, ReapParented
    <2>6. ASSUME NEW q \in Proc PROVE Fares(q)
        <3>1. Handled(q) /\ Released(q)  BY Zenon, <1>4, <2>4 DEF Handled, Released
        <3>2. Collects(q)  BY Zenon, <1>3, <2>3 DEF Reaps, Collects
        <3>3. k'.current = k.current /\ (q # c => k'.state[q] = k.state[q])
            BY Zenon, <2>3 DEF Reaps
        <3>4. Lives(q) /\ Resumes(q)  BY Zenon, <1>1, <1>5, <2>1, <3>3 DEF Lives, Resumes
        <3> QED  BY Zenon, <3>1, <3>2, <3>4 DEF Fares
    <2> QED  BY Zenon, <2>4, <2>5, <2>6 DEF Advance
<1> QED  BY Zenon, <1>2, <1>6, <1>7

-----------------------------------------------------------------------------
(***************************************************************************)
(* Exit and the signals.                                                   *)
(***************************************************************************)
\* A kill of t, by a caller or in an interrupt, ends t.  If t runs, the workload
\* has calls that NoSelfKill leaves out.
LEMMA EndAdvance ==
    ASSUME IInv, IInv', Good(k), NEW t \in Proc, k' = terminate_by(k, t),
           k.current = t => ~NoSelfKill, stopped' = stopped,
           \A q \in Proc : k.current = q => pc'[q] # "resume"
    PROVE  Advance
<1>1. KInv(k) /\ KInv(k') /\ WaitInv(k)  BY Zenon DEF IInv, Good
<1>2. Ends(k, k', t) /\ WaitInv(k')  BY Zenon, <1>1, KillEnds DEF terminate_by
<1>3. Good(k') /\ \A q \in Proc : Shift(k, k', q)  BY Zenon, <1>2, EndsShift
<1>4. Parented(k) => Parented(k')  BY Zenon, <1>1, <1>2, EndsParented
<1>5. k'.current = k.current /\ k'.reaped = k.reaped /\ \A q \in Proc : q # t => Move(k, k', q)
    BY Zenon, <1>2 DEF Ends
<1>6. ASSUME NEW q \in Proc PROVE Fares(q)
    <2>1. Handled(q) /\ Released(q) /\ Collects(q)
        BY Zenon, <1>3, <1>5 DEF Handled, Released, Collects
    <2>2. Resumes(q)  BY Zenon, <1>5 DEF Resumes
    <2>3. Lives(q)
        <3>1. CASE q = t  BY Zenon, <1>5, <3>1 DEF Lives
        <3>2. CASE q # t
            <4>1. Move(k, k', q)  BY Zenon, <1>5, <3>2
            <4>2. k'.state[q] = "TERMINATED" => k.state[q] = "TERMINATED"
                BY <4>1 DEF Move
            <4> QED  BY Zenon, <1>5, <4>2 DEF Lives
        <3> QED  BY Zenon, <3>1, <3>2
    <2> QED  BY Zenon, <2>1, <2>2, <2>3 DEF Fares
<1> QED  BY Zenon, <1>3, <1>4, <1>6 DEF Advance

\* The running process ends and hands the CPU over.
LEMMA ExitAdvance ==
    ASSUME IInv, IInv', Good(k), NEW p \in Proc, k.current = p,
           k' = schedule_dead(terminate(k, p), p), stopped' = stopped
    PROVE  Advance
<1>1. KInv(k) /\ KInv(k')  BY Zenon DEF IInv
<1>2. /\ Good(k') /\ \A q \in Proc : Shift(k, k', q)
      /\ \E k1 : Ends(k, k1, p) /\ KInv(k1) /\ Good(k1) /\ Hands(k1, k', p)
    BY Zenon, <1>1, ExitShift
<1>3. PICK k1 : Ends(k, k1, p) /\ KInv(k1) /\ Good(k1) /\ Hands(k1, k', p)  BY Zenon, <1>2
<1>4. Parented(k) => Parented(k')
    <2>1. Parented(k) => Parented(k1)  BY Zenon, <1>1, <1>3, EndsParented
    <2>2. Orderly(k1, k')
        BY <1>3 DEF Hands, Orderly
    <2> QED  BY Zenon, <1>1, <1>3, <2>1, <2>2, OrderlyParented
<1>5. /\ k'.reaped = k.reaped /\ k'.current # p
      /\ \A q \in Proc : k'.current = q => k'.state[q] = "RUNNING"
    BY Zenon, <1>3 DEF Ends, Hands, Rest
<1>6. ASSUME NEW q \in Proc PROVE Fares(q)
    <2>1. Handled(q) /\ Released(q) /\ Collects(q)
        BY Zenon, <1>2, <1>5 DEF Handled, Released, Collects
    <2>2. Resumes(q) /\ Lives(q)  BY <1>5 DEF Resumes, Lives
    <2> QED  BY Zenon, <2>1, <2>2 DEF Fares
<1> QED  BY Zenon, <1>2, <1>4, <1>6 DEF Advance

\* SIGSTOP and PROC_CTL_SUSPEND.
LEMMA SuspendAdvance ==
    ASSUME IInv, IInv', Good(k), NEW p \in Proc, k.current = p, pc'[p] # "resume",
           NEW t \in Proc, k' = suspend(k, t),
           \A q \in Proc : stopped[q] => stopped'[q],
           k.state[t] \in {"RUNNING", "READY"} => stopped'[t] \/ ~NoSignals
    PROVE  Advance
<1>1. KInv(k) /\ KInv(k')  BY Zenon DEF IInv
<1>2. Quiet(k, k')  BY Zenon, <1>1, SuspendKeeps, KeepsQuiet
<1>3. \A q \in Proc : Released(q)  BY Zenon DEF Released
<1>4. CASE k.state[t] \in {"RUNNING", "READY"}
    <2>1. k' = process_unref(scheduler_remove_process(
                    [process_ref(k, t) EXCEPT !.state[t] = "BLOCKED"], t), t)
        BY Zenon, <1>4 DEF suspend
    <2>2. /\ Orderly(k, k') /\ \A q \in Proc : k'.wait_on[q] \in {k.wait_on[q], None}
          /\ \A q \in Proc : q # t => Calm(k, k', q)
          /\ Stops(k, k', t) \/ Dying(k, k', t)
        BY Zenon, <1>1, <1>4, <2>1, SuspendShift
    <2>3. \A q \in Proc : Handled(q)  BY Zenon, <1>4, <2>2 DEF Handled, Shift
    <2> QED  BY Zenon, <1>2, <1>3, <2>2, <2>3, ActorAdvance
<1>5. CASE k.state[t] \notin {"RUNNING", "READY"}
    <2>1. k' = k  BY Zenon, <1>5 DEF suspend
    <2>2. Orderly(k, k')  BY Zenon, <2>1 DEF Orderly, Rest
    <2> QED  BY Zenon, <1>2, <1>3, <2>1, <2>2, Untroubled, ActorAdvance
<1> QED  BY Zenon, <1>4, <1>5

\* SIGCONT and PROC_CTL_RESUME.
LEMMA ResumeAdvance ==
    ASSUME IInv, IInv', Good(k), NEW p \in Proc, k.current = p, pc'[p] # "resume",
           NEW t \in Proc, k.state[t] = "BLOCKED", k' = resume(k, t), ~NoResume,
           \A q \in Proc : q # t /\ stopped[q] => stopped'[q]
    PROVE  Advance
<1>1. KInv(k) /\ KInv(k')  BY Zenon DEF IInv
<1>2. Quiet(k, k')  BY Zenon, <1>1, ResumeKeeps, KeepsQuiet
<1>3. /\ Orderly(k, k') /\ k'.wait_on = k.wait_on
      /\ \A q \in Proc : q # t => Calm(k, k', q)
      /\ Readied(k, k', t)
    BY Zenon, <1>1, ResumeShift DEF resume
<1>4. \A q \in Proc : Handled(q)  BY Zenon, <1>3 DEF Handled, Shift
<1>5. k'.state[t] # "BLOCKED"  BY <1>3 DEF Readied
<1>6. \A q \in Proc : Released(q)  BY Zenon, <1>5 DEF Released
<1> QED  BY Zenon, <1>2, <1>3, <1>4, <1>6, ActorAdvance

\* A catchable signal.
LEMMA SignalAdvance ==
    ASSUME IInv, IInv', Good(k), NEW p \in Proc, NEW t \in Proc, sys_kill_catchable(p, t)
    PROVE  Advance
<1>1. k.current = p /\ KInv(k) /\ KInv(k')
    BY Caller DEF sys_kill_catchable, Invokes, IInv
<1>2. pc'[p] = "exit" /\ stopped' = stopped  BY Zenon, Gone DEF sys_kill_catchable
<1>3. pc'[p] # "resume" /\ \A q \in Proc : Released(q)  BY <1>2 DEF Released
<1>4. ~NoSignals  BY DEF sys_kill_catchable, Invokes, SelfOr, NoSignals
<1>5. CASE stopped[t]
    <2>1. k' = k  BY Zenon, <1>5 DEF sys_kill_catchable
    <2> QED  BY Zenon, <1>1, <1>2, <1>3, <2>1, StillAdvance
<1>6. CASE ~stopped[t]
    <2>1. k' = process_unref(abort_if_blocked(process_ref(k, t), t), t)
        BY Zenon, <1>6 DEF sys_kill_catchable
    <2>2. /\ Orderly(k, k') /\ \A q \in Proc : k'.wait_on[q] \in {k.wait_on[q], None}
          /\ \A q \in Proc : q # t => Calm(k, k', q)
          /\ \/ Calm(k, k', t)
             \/ k.state[t] = "BLOCKED" /\ (Unparked(k, k', t) \/ Dying(k, k', t))
        BY Zenon, <1>1, <2>1, SignalShift
    <2>3. \A q \in Proc : Handled(q)  BY Zenon, <1>4, <2>2 DEF Handled, Shift
    <2>4. Quiet(k, k')  BY Zenon, <1>1, <2>2 DEF Quiet
    <2> QED  BY Zenon, <1>1, <1>3, <2>2, <2>3, <2>4, ActorAdvance
<1> QED  BY Zenon, <1>5, <1>6

\* The signals of kill() that act at once, and the process-control call.
LEMMA ControlAdvance ==
    ASSUME IInv, IInv', Good(k), NEW p \in Proc, NEW t \in Proc,
           \/ sys_kill_term(p, t) \/ sys_kill_stop(p, t) \/ sys_kill_cont(p, t)
           \/ procapi_ctl(p, t)
    PROVE  Advance
<1>1. At(p, "user") /\ Goto(p, "exit")
    BY Zenon DEF sys_kill_term, sys_kill_stop, sys_kill_cont, procapi_ctl, Invokes
<1>2. k.current = p /\ KInv(k)  BY <1>1, Caller
<1>3. pc'[p] = "exit"  BY Zenon, <1>1, Gone
<1>4. pc'[p] # "resume"  BY <1>3
<1>5. CASE sys_kill_term(p, t)
    <2>1. k.current = t => ~NoSelfKill
        BY <1>2, <1>5 DEF sys_kill_term, Invokes, SelfOr, NoSelfKill
    <2>2. k' = terminate_by(k, t) /\ stopped' = stopped  BY Zenon, <1>5 DEF sys_kill_term
    <2> QED  BY Zenon, <1>2, <1>4, <2>1, <2>2, EndAdvance
<1>6. CASE sys_kill_stop(p, t)
    <2>1. /\ k' = suspend(k, t)
          /\ stopped' = [stopped EXCEPT ![t] = @ \/ k.state[t] \in {"RUNNING", "READY"}]
        BY Zenon, <1>6 DEF sys_kill_stop
    <2>2. /\ \A q \in Proc : stopped[q] => stopped'[q]
          /\ k.state[t] \in {"RUNNING", "READY"} => stopped'[t]
        BY Zenon, <2>1 DEF IInv, TypeOK
    <2> QED  BY Zenon, <1>2, <1>4, <2>1, <2>2, SuspendAdvance
<1>7. CASE sys_kill_cont(p, t)
    <2>1. ~NoResume  BY <1>7 DEF sys_kill_cont, Invokes, NoResume
    <2>2. /\ k.state[t] = "BLOCKED" /\ k' = resume(k, t)
          /\ stopped' = [stopped EXCEPT ![t] = FALSE]
        BY Zenon, <1>7 DEF sys_kill_cont
    <2>3. \A q \in Proc : q # t /\ stopped[q] => stopped'[q]
        BY Zenon, <2>2 DEF IInv, TypeOK
    <2> QED  BY Zenon, <1>2, <1>4, <2>1, <2>2, <2>3, ResumeAdvance
<1>8. CASE procapi_ctl(p, t)
    <2>1. ~NoSignals /\ ~NoResume
        BY SMTT(20), <1>8 DEF procapi_ctl, Invokes, SelfOr, NoSignals, NoResume
    <2>2. k.current = t => ~NoSelfKill
        BY <1>2, <1>8 DEF procapi_ctl, Invokes, SelfOr, NoSelfKill
    <2>3. /\ stopped' = stopped
          /\ \/ k' = suspend(k, t)
             \/ k.state[t] = "BLOCKED" /\ k' = resume(k, t)
             \/ k' = terminate_by(k, t)
        BY Zenon, <1>8 DEF procapi_ctl
    <2>4. CASE k' = suspend(k, t)
        BY Zenon, <1>2, <1>4, <2>1, <2>3, <2>4, SuspendAdvance
    <2>5. CASE k.state[t] = "BLOCKED" /\ k' = resume(k, t)
        BY Zenon, <1>2, <1>4, <2>1, <2>3, <2>5, ResumeAdvance
    <2>6. CASE k' = terminate_by(k, t)
        BY Zenon, <1>2, <1>4, <2>2, <2>3, <2>6, EndAdvance
    <2> QED  BY Zenon, <2>3, <2>4, <2>5, <2>6
<1> QED  BY Zenon, <1>5, <1>6, <1>7, <1>8

\* Every system call.
LEMMA SyscallAdvance ==
    ASSUME IInv, IInv', Good(k), NEW p \in Proc, Syscall(p)
    PROVE  Advance
<1>1. CASE sys_other(p) \/ futex_wake(p)  \/ sys_waitpid(p)
    <2>1. /\ At(p, "user") /\ UNCHANGED << k, stopped >>
          /\ Goto(p, "exit") \/ Goto(p, "wake") \/ Goto(p, "scan")
        BY Zenon, <1>1 DEF sys_other, futex_wake, sys_waitpid, Invokes
    <2> QED  BY <2>1, PlainAdvance
<1>2. CASE sys_exit(p)
    <2>1. k.current = p  BY <1>2, Caller DEF sys_exit, Invokes
    <2> QED  BY Zenon, <1>2, <2>1, ExitAdvance DEF sys_exit
<1> QED
    BY Zenon, <1>1, <1>2, YieldAdvance, BlockingAdvance, SpawnAdvance, SignalAdvance,
       ControlAdvance
    DEF Syscall

-----------------------------------------------------------------------------
(***************************************************************************)
(* Kernel code that goes on.                                               *)
(***************************************************************************)
\* The end of the hlt loop.
LEMMA HaltAdvance ==
    ASSUME IInv, IInv', Good(k), NEW p \in Proc, halt_wake(p)
    PROVE  Advance
<1>1. k.current = p /\ KInv(k) /\ KInv(k') /\ stopped' = stopped
    BY Zenon DEF halt_wake, At, IInv
<1>2. CASE k.state[p] # "BLOCKED" /\ k' = k  BY Zenon, <1>1, <1>2, StillAdvance
<1>3. CASE k.state[p] = "BLOCKED" /\ Park(k, p)
    <2>1. /\ ParkTo(k, k', p)
          /\ pc'[p] = "resume" /\ k'.current = p => k'.state[p] # "BLOCKED"
        BY Zenon, <1>1, <1>3, ParkGoes
    <2>2. Parks(k, k', p)  BY Zenon, <1>1, <1>3, <2>1, ParkShift
    <2>3. ASSUME NEW q \in Proc PROVE Treats(q)
        <3>1. Shift(k, k', q)  BY Zenon, <2>2 DEF Parks
        <3>2. Handled(q) /\ Released(q)  BY Zenon, <1>1, <3>1 DEF Handled, Released
        <3>3. k'.current = q /\ k'.state[q] = "BLOCKED" => k.current = q
            BY <3>1 DEF Shift, Calm, Dying, Stays, Dead, Picked, Requeued, Leaves
        <3>4. Resumes(q)  BY Zenon, <1>1, <2>1, <3>3 DEF Resumes
        <3> QED  BY Zenon, <3>2, <3>4 DEF Treats
    <2>4. Orderly(k, k') /\ \A q \in Proc : Awaits(k, k', q)
        BY Zenon, <2>2 DEF Parks, Awaits
    <2> QED  BY Zenon, <1>1, <2>3, <2>4, OrderlyAdvance
<1> QED  BY Zenon, <1>2, <1>3 DEF halt_wake

\* wo_park_and_cleanup() after the switch.
LEMMA CleanupAdvance ==
    ASSUME IInv, IInv', Good(k), ResumeRuns, NEW p \in Proc, park_cleanup(p)
    PROVE  Advance
<1>1. /\ k.current = p /\ KInv(k) /\ KInv(k') /\ stopped' = stopped /\ pc[p] = "resume"
      /\ k' = wait_object_cleanup(k, wo[p], p)
    BY Zenon DEF park_cleanup, At, IInv
<1>2. wo[p] \in WaitObj
    <2>1. wo[p] \in MayBlockOn(p)  BY <1>1 DEF IInv, PcInv
    <2> QED  BY <2>1 DEF MayBlockOn, WaitObj
<1>3. Moves(k, k', p)  BY Zenon, <1>1, <1>2, CleanupMoves
<1>4. /\ Orderly(k, k') /\ \A q \in Proc : q # p => Calm(k, k', q)
      /\ Unparked(k, k', p) \/ Dying(k, k', p)
    BY <1>1, <1>3, MovesShift
<1>5. k.state[p] # "BLOCKED"  BY Zenon, <1>1 DEF ResumeRuns
<1>6. \A q \in Proc : Handled(q) /\ Released(q)
    BY Zenon, <1>1, <1>4, <1>5 DEF Handled, Released, Shift
<1>7. pc'[p] # "resume"  BY Gone DEF park_cleanup
<1>8. Quiet(k, k')  BY Zenon, <1>1, <1>3 DEF Quiet, Moves, Frame
<1> QED  BY Zenon, <1>1, <1>4, <1>6, <1>7, <1>8, ActorAdvance

\* One turn of the loop of futex_wake().
LEMMA WakeAdvance ==
    ASSUME IInv, IInv', Good(k), NEW p \in Proc, wq_wake_one_key(p)
    PROVE  Advance
<1>1. k.current = p /\ KInv(k) /\ KInv(k') /\ stopped' = stopped /\ pc' = pc /\ pc[p] = "wake"
    BY Zenon DEF wq_wake_one_key, At, IInv
<1>2. PICK j \in DOMAIN k.waiters[FutexObj] : k' = wake_popped(k, FutexObj, k.waiters[FutexObj][j])
    BY Zenon DEF wq_wake_one_key
<1> DEFINE q == k.waiters[FutexObj][j]
<1>3. FutexObj \in WaitObj /\ FutexObj # SleepObj  BY ConstantsAssumption DEF WaitObj
<1>4. q \in Proc /\ k.wait_on[q] = FutexObj
    <2>1. k.waiters[FutexObj] \in Seq(Proc) /\ LinkSound(k)  BY <1>1, <1>3 DEF KInv, KState
    <2>2. q \in Proc /\ Contains(k.waiters[FutexObj], q)  BY <1>2, <2>1 DEF Contains
    <2> QED  BY Zenon, <1>3, <2>1, <2>2 DEF LinkSound, Linked
<1> HIDE DEF q
<1>5. Moves(k, k', None)  BY Zenon, <1>1, <1>2, <1>3, <1>4, WakePoppedMoves DEF q
<1>6. None \notin Proc  BY ConstantsAssumption
<1>7. Orderly(k, k') /\ \A r \in Proc : r # None => Calm(k, k', r)
    BY <1>1, <1>5, <1>6, MovesShift
<1>8. \A r \in Proc : Handled(r) /\ Released(r)
    BY Zenon, <1>1, <1>6, <1>7 DEF Handled, Released, Shift
<1>9. pc'[p] # "resume"  BY <1>1
<1>10. Quiet(k, k')  BY Zenon, <1>1, <1>5 DEF Quiet, Moves, Frame
<1> QED  BY Zenon, <1>1, <1>7, <1>8, <1>9, <1>10, ActorAdvance

\* The default actions of a pending signal.
LEMMA DeliverAdvance ==
    ASSUME IInv, IInv', Good(k), NEW p \in Proc, deliver_stop(p) \/ deliver_terminate(p)
    PROVE  Advance
<1>1. k.current = p /\ k.wait_on[p] = None /\ KInv(k) /\ KInv(k')
    BY Caller DEF deliver_stop, deliver_terminate, IInv
<1>2. CASE deliver_terminate(p)
    <2>1. abort_if_blocked(k, p) = k  BY Zenon, <1>1 DEF abort_if_blocked
    <2>2. k' = schedule_dead(terminate(k, p), p) /\ stopped' = stopped
        BY Zenon, <1>2, <2>1 DEF deliver_terminate
    <2> QED  BY Zenon, <1>1, <2>2, ExitAdvance
<1>3. CASE deliver_stop(p)
    <2> DEFINE h == scheduler_remove_process([k EXCEPT !.state[p] = "BLOCKED"], p)
    <2>1. /\ k.state[p] \in {"RUNNING", "READY"} /\ Goto(p, "user")
          /\ stopped' = [stopped EXCEPT ![p] = TRUE]
          /\ k' = h \/ k' = schedule_expired(h, p)
        BY Zenon, <1>3 DEF deliver_stop
    <2>2. /\ Orderly(k, k')
          /\ \A q \in Proc : Shift(k, k', q) \/ (q = p /\ Stops(k, k', q))
        <3>1. \/ k' = h
              \/ LET queued == scheduler_add_process(h, p)
                     next   == PickedNext(queued)
                     picked == scheduler_pick_next(queued)
                 IN  \/ next = p /\ k' \in {process_unref(picked, p),
                           process_unref([picked EXCEPT !.state[p] = "RUNNING"], p)}
                     \/ next # p /\ k' = switch_away(picked, p, next)
            BY Zenon, <2>1 DEF schedule_expired
        <3>2. h = scheduler_remove_process([k EXCEPT !.state[p] = "BLOCKED"], p)  OBVIOUS
        <3> HIDE DEF h
        <3> QED  BY <1>1, <2>1, <3>1, <3>2, StopShift
    <2>3. stopped'[p] /\ \A q \in Proc : stopped[q] => stopped'[q]
        BY Zenon, <2>1 DEF IInv, TypeOK
    <2>4. \A q \in Proc : Handled(q) /\ Released(q)
        BY Zenon, <2>2, <2>3 DEF Handled, Released
    <2>5. pc'[p] # "resume" /\ Quiet(k, k')  BY <1>3, <2>1, Gone, StopQuiet
    <2> QED  BY Zenon, <1>1, <2>2, <2>4, <2>5, ActorAdvance
<1> QED  BY Zenon, <1>2, <1>3

\* All kernel code that goes on.
LEMMA ContinueAdvance ==
    ASSUME IInv, IInv', Good(k), ResumeRuns, NEW p \in Proc, Continue(p)
    PROVE  Advance
<1>1. CASE \/ futex_wake_return(p) \/ waitpid_no_child(p) \/ deliver_nothing(p)
           \/ \E sig \in Catchable : deliver_caught(p, sig)
    <2>1. /\ At(p, "wake") \/ At(p, "scan") \/ At(p, "exit")
          /\ UNCHANGED << k, stopped >>
          /\ Goto(p, "exit") \/ Goto(p, "user")
        BY Zenon, <1>1 DEF futex_wake_return, waitpid_no_child, deliver_nothing, deliver_caught
    <2> QED  BY <2>1, PlainAdvance
<1> QED
    BY Zenon, <1>1, HaltAdvance, CleanupAdvance, WakeAdvance, FoundAdvance, BlockingAdvance,
       DeliverAdvance
    DEF Continue

-----------------------------------------------------------------------------
(***************************************************************************)
(* Interrupts.                                                             *)
(***************************************************************************)
\* A handler that terminates nobody.
LEMMA PassiveAdvance ==
    ASSUME IInv, Good(k), Orderly(k, k'), Quiet(k, k'), pc' = pc, stopped' = stopped,
           \A q \in Proc : Shift(k, k', q) \/ (Readied(k, k', q) /\ k.deadline[q] = 0)
    PROVE  Advance
<1>1. ASSUME NEW q \in Proc, k'.current = q, k'.state[q] = "BLOCKED"
      PROVE  k.current = q /\ k.state[q] = "BLOCKED"
    <2>1. Shift(k, k', q) \/ Readied(k, k', q)  BY Zenon
    <2> QED  BY SMTT(20), <1>1, <2>1 DEF Shift, Calm, Move, Dying, Stays, Dead, Picked,
                                         Requeued, Leaves, Readied
<1>2. \A q \in Proc : Treats(q)
    BY Zenon, <1>1 DEF Treats, Handled, Released, Resumes
<1>3. KInv(k') /\ \A q \in Proc : Awaits(k, k', q)  BY Zenon, AwaitsNothing DEF Quiet
<1> QED  BY Zenon, <1>2, <1>3, OrderlyAdvance

\* irq0: the tick, the sleepers that are due, the return.
LEMMA TimerAdvance ==
    ASSUME IInv, IInv', Good(k), timer_tick \/ sleep_list_wake_due \/ timer_return
    PROVE  Advance
<1>1. KInv(k) /\ KInv(k') /\ pc' = pc /\ stopped' = stopped
    BY Zenon DEF IInv, timer_tick, sleep_list_wake_due, timer_return
<1>2. CASE timer_tick \/ timer_return
    <2>1. \E d : k' = [k EXCEPT !.deadline = d]
        <3>1. k \in KState  BY <1>1 DEF KInv
        <3>2. CASE timer_return
            <4>1. k' = k /\ k = [k EXCEPT !.deadline = k.deadline]
                BY <3>1, <3>2 DEF timer_return, KState
            <4> QED  BY Zenon, <4>1
        <3> QED  BY <1>2, <3>2 DEF timer_tick
    <2>2. /\ k'.state = k.state /\ k'.current = k.current /\ k'.on_queue = k.on_queue
          /\ k'.wait_on = k.wait_on /\ k'.sleepers = k.sleepers /\ Rest(k, k')
        BY <1>1, <2>1 DEF KInv, KState, Rest
    <2>3. \A q \in Proc : Calm(k, k', q)  BY Zenon, <2>2 DEF Calm, Move, Parked
    <2>4. Orderly(k, k')  BY Zenon, <2>2 DEF Orderly
    <2> QED  BY Zenon, <1>1, <2>2, <2>3, <2>4, PassiveAdvance DEF Shift, Quiet
<1>3. CASE sleep_list_wake_due
    <2>1. PICK j \in DOMAIN k.sleepers :
            LET q     == k.sleepers[j]
                taken == sleep_list_remove(k, q)
            IN  /\ FirstDue(j)
                /\ k' = IF k.state[q] = "BLOCKED"
                        THEN scheduler_add_process(process_set_ready(taken, q), q)
                        ELSE taken
        BY Zenon, <1>3 DEF sleep_list_wake_due
    <2> DEFINE t == k.sleepers[j]
    <2>2. t \in Proc /\ k.deadline[t] = 0
        <3>1. k.sleepers \in Seq(Proc)  BY Zenon, <1>1 DEF KInv, KState
        <3> QED  BY <2>1, <3>1 DEF FirstDue
    <2>3. LET taken == sleep_list_remove(k, t)
          IN  k' = IF k.state[t] = "BLOCKED"
                   THEN scheduler_add_process(process_set_ready(taken, t), t)
                   ELSE taken
        BY Zenon, <2>1
    <2> HIDE DEF t
    <2>4. /\ Orderly(k, k') /\ k'.wait_on = k.wait_on
          /\ \A q \in Proc : q # t => Calm(k, k', q)
          /\ Calm(k, k', t) \/ Readied(k, k', t)
        BY <1>1, <2>2, <2>3, DueShift
    <2>5. \A q \in Proc : Shift(k, k', q) \/ (Readied(k, k', q) /\ k.deadline[q] = 0)
        BY Zenon, <2>2, <2>4 DEF Shift
    <2> QED  BY Zenon, <1>1, <2>4, <2>5, PassiveAdvance DEF Quiet
<1> QED  BY Zenon, <1>2, <1>3

\* schedule_from_irq() and the compositor's kill key.
LEMMA InterruptAdvance ==
    ASSUME IInv, IInv', Good(k), Interrupt
    PROVE  Advance
<1>1. KInv(k) /\ KInv(k')  BY Zenon DEF IInv
<1>2. ASSUME NEW p \in Proc, schedule_from_irq(p) PROVE Advance
    <2>1. /\ k.current = p /\ pc[p] = "user" /\ pc' = pc /\ stopped' = stopped
          /\ k.state[p] \in {"RUNNING", "TERMINATED"}
        BY Zenon, <1>2 DEF schedule_from_irq
    <2>2. k.wait_on[p] = None  BY <2>1 DEF IInv, PcInv
    <2>3. Sane(k, p)  BY Zenon DEF Good
    <2>4. LET next   == PickedNext(k)
              picked == scheduler_pick_next(k)
          IN  k' = IF next = p \/ (next = Idle /\ k.state[p] # "TERMINATED")
                   THEN picked
                   ELSE switch_away(scheduler_add_process(picked, p), p, next)
        BY Zenon, <1>2 DEF schedule_from_irq
    <2>5. Orderly(k, k') /\ \A q \in Proc : Shift(k, k', q)
        BY <1>1, <2>1, <2>2, <2>3, <2>4, PreemptShift
    <2>6. Quiet(k, k')  BY Zenon, <1>2, PreemptQuiet
    <2> QED  BY Zenon, <1>1, <2>1, <2>5, <2>6, PassiveAdvance
<1>3. ASSUME NEW t \in Proc, ps2_compositor_kill(t) PROVE Advance
    <2>1. /\ k' = terminate_by(k, t) /\ stopped' = stopped /\ pc' = pc /\ t \in Hotkey
          /\ \A q \in Proc : k.current = q => pc[q] \in {"user", "halt"}
        BY Zenon, <1>3 DEF ps2_compositor_kill, Interruptible
    <2>2. ~NoSelfKill  BY <2>1 DEF NoSelfKill
    <2>3. \A q \in Proc : k.current = q => pc'[q] # "resume"  BY <2>1
    <2> QED  BY Zenon, <2>1, <2>2, <2>3, EndAdvance
<1> QED  BY Zenon, <1>2, <1>3, TimerAdvance DEF Interrupt

-----------------------------------------------------------------------------
(***************************************************************************)
(* The invariant.                                                          *)
(***************************************************************************)
\* Every handler of Sched, as a step of the processes' lives.
LEMMA NextAdvance ==
    ASSUME IInv, IInv', Good(k), ResumeRuns, Next
    PROVE  Advance
  BY Zenon, SyscallAdvance, ContinueAdvance, InterruptAdvance DEF Next

\* What holds between any two handlers: the kernel structures are sound, the
\* states of the processes fit the queue and the CPU, the families are sound,
\* nobody waits for a child that is a zombie; and what only some workloads keep.
LInv ==
    /\ IInv /\ Good(k) /\ ResumeRuns
    /\ NoSelfKill => Alive /\ Parented(k)
    /\ NoSignals => NoStranded

LEMMA InitLInv == Init => LInv
<1> SUFFICES ASSUME Init PROVE LInv  OBVIOUS
<1>1. k = KInit /\ pc = [p \in Proc |-> "user"]  BY DEF Init
<1>2. InitProc \in Proc /\ None \notin Proc  BY ConstantsAssumption
<1>3. ASSUME NEW p \in Proc PROVE Sane(k, p)  BY <1>1 DEF KInit, Sane
<1>4. Family(k)  BY Zenon, <1>1, <1>2 DEF KInit, Family, Dead
<1>5. WaitInv(k)  BY <1>1, <1>2 DEF KInit, WaitInv
<1>6. ResumeRuns  BY <1>1 DEF ResumeRuns
<1>7. Alive  BY <1>1 DEF KInit, Alive
<1>8. Parented(k)  BY <1>1 DEF KInit, Parented
<1>9. NoStranded  BY <1>1 DEF KInit, NoStranded
<1> QED  BY Zenon, <1>3, <1>4, <1>5, <1>6, <1>7, <1>8, <1>9, InitIInv DEF LInv, Good

\* A BLOCKED process that was not stopped by a signal keeps a waker.
LEMMA StrandedStep ==
    ASSUME Advance, NoSignals, NoStranded
    PROVE  NoStranded'
<1> SUFFICES ASSUME NEW q \in Proc, k'.state[q] = "BLOCKED", ~stopped'[q]
             PROVE  k'.wait_on[q] \notin {None, SleepObj} \/ Contains(k'.sleepers, q)
    BY Zenon DEF NoStranded, OnSleepList
<1>1. (Handled(q) \/ Born(k, k', q)) /\ Released(q)  BY Zenon DEF Advance, Fares
<1>2. ~stopped[q]  BY Zenon, <1>1 DEF Released
<1>3. k.state[q] = "BLOCKED" /\ Parked(k, k', q) => 
        k'.wait_on[q] \notin {None, SleepObj} \/ Contains(k'.sleepers, q)
    BY <1>2 DEF NoStranded, OnSleepList, Parked
<1>4. CASE Shift(k, k', q)
    BY SMTT(20), <1>3, <1>4 DEF Shift, Calm, Move, Dying, Dead, Picked, Requeued, Leaves
<1>5. CASE Handled(q) /\ ~Shift(k, k', q)
    BY SMTT(20), <1>5 DEF Handled, Unparked, Blocks, Stops, Readied
<1>6. CASE Born(k, k', q)  BY <1>6 DEF Born
<1> QED  BY Zenon, <1>1, <1>4, <1>5, <1>6

LEMMA StepLInv == LInv /\ [Next]_vars => LInv'
<1> SUFFICES ASSUME LInv, [Next]_vars PROVE LInv'  OBVIOUS
<1>1. CASE Next
    <2>1. IInv /\ Good(k) /\ ResumeRuns  BY Zenon DEF LInv
    <2>2. IInv'  BY Zenon, <1>1, <2>1, SyscallInv, ContinueInv, InterruptInv DEF Next
    <2>3. Advance  BY Zenon, <1>1, <2>1, <2>2, NextAdvance
    <2>4. Good(k)'  BY Zenon, <2>3 DEF Advance
    <2>5. ResumeRuns'  BY Zenon, <2>1, <2>3 DEF ResumeRuns, Advance, Fares, Resumes
    <2>6. NoSelfKill => Alive' /\ Parented(k)'
        BY Zenon, <2>3 DEF LInv, Advance, Fares, Lives, Alive
    <2>7. NoSignals => NoStranded'  BY Zenon, <2>3, StrandedStep DEF LInv
    <2>8. (NoSelfKill' <=> NoSelfKill) /\ (NoSignals' <=> NoSignals)
        BY Zenon DEF NoSelfKill, NoSignals
    <2> QED  BY Zenon, <2>2, <2>4, <2>5, <2>6, <2>7, <2>8 DEF LInv
<1>2. CASE UNCHANGED vars
    <2>1. k' = k /\ pc' = pc /\ stopped' = stopped  BY Zenon, <1>2 DEF vars
    <2>2. IInv'  BY <1>2 DEF LInv, IInv, vars, TypeOK, PcInv
    <2> QED  BY Zenon, <2>1, <2>2
             DEF LInv, ResumeRuns, Alive, NoStranded, OnSleepList, NoSelfKill, NoSignals
<1> QED  BY Zenon, <1>1, <1>2

\* The invariant of the processes' lives is inductive.
THEOREM LifeInductive == Spec => []LInv
  BY InitLInv, StepLInv, PTL DEF Spec

-----------------------------------------------------------------------------
(***************************************************************************)
(* Every workload.                                                         *)
(***************************************************************************)
\* The ready queue holds exactly the processes marked as queued, each once, and
\* no dead one, whichever handler queued it.
THEOREM QueueConsistentHolds == Spec => []QueueConsistent
<1>1. LInv => QueueConsistent
    <2> SUFFICES ASSUME LInv PROVE QueueConsistent  OBVIOUS
    <2>1. QueueSound(k)  BY Zenon DEF LInv, IInv, KInv
    <2>2. ASSUME NEW p \in Proc, k.on_queue[p] PROVE ~Dead(k, p)
        <3>1. Sane(k, p)  BY Zenon DEF LInv, Good
        <3> QED  BY <2>2, <3>1 DEF Sane, Dead
    <2> QED  BY Zenon, <2>1, <2>2 DEF QueueConsistent
<1> QED  BY <1>1, LifeInductive, PTL

\* Only the current process is RUNNING, and schedule() can find every READY one.
THEOREM RunnableFoundHolds == Spec => []RunnableFound
<1>1. LInv => RunnableFound  BY Zenon DEF LInv, Good, Sane, RunnableFound
<1> QED  BY <1>1, LifeInductive, PTL

\* No process sleeps in waitpid() beside a zombie child of its own.
THEOREM NoLostChildWakeupHolds == Spec => []NoLostChildWakeup
<1>1. LInv => NoLostChildWakeup
    BY Zenon DEF LInv, Good, WaitInv, ZombieOf, NoLostChildWakeup, Zombies, Matching
<1> QED  BY <1>1, LifeInductive, PTL

\* process_unref() frees a PCB only as a zombie that waitpid() has reaped.
THEOREM FreedOnlyReapedHolds == Spec => FreedOnlyReaped
<1>1. LInv /\ LInv' /\ [Next]_vars =>
        [\A p \in Proc : k.state[p] # "FREE" /\ k'.state[p] = "FREE" =>
            k.state[p] = "TERMINATED" /\ k'.reaped[p]]_vars
    <2> SUFFICES ASSUME LInv, LInv', Next, NEW p \in Proc,
                        k.state[p] # "FREE", k'.state[p] = "FREE"
                 PROVE  k.state[p] = "TERMINATED" /\ k'.reaped[p]
        BY Zenon DEF vars
    <2>1. k'.reaped[p]  BY Zenon, FreeUnheld DEF LInv, IInv
    <2>2. Advance  BY Zenon, NextAdvance DEF LInv
    <2>3. k.reaped[p] \/ k.state[p] = "TERMINATED"
        BY Zenon, <2>1, <2>2 DEF Advance, Fares, Collects
    <2>4. k.reaped[p] => k.state[p] \in {"TERMINATED", "FREE"}
        BY Zenon DEF LInv, Good, Family, Dead
    <2> QED  BY <2>1, <2>3, <2>4
<1> QED  BY <1>1, LifeInductive, PTL DEF Spec, FreedOnlyReaped

-----------------------------------------------------------------------------
(***************************************************************************)
(* Workloads that do not kill the running process.                         *)
(***************************************************************************)
\* Every process that was not reaped has a parent that can reap it.
THEOREM NoOrphanHolds ==
    ASSUME NoSelfKill
    PROVE  Spec => []NoOrphan
<1>1. LInv => NoOrphan  BY Zenon DEF LInv, Parented, HasReaper, NoOrphan
<1> QED  BY <1>1, LifeInductive, PTL

\* A TERMINATED process stays dead until its PCB is freed.
THEOREM DeadStaysDeadHolds ==
    ASSUME NoSelfKill
    PROVE  Spec => DeadStaysDead
<1>1. LInv /\ LInv' /\ [Next]_vars =>
        [\A p \in Proc : k.state[p] = "TERMINATED" => Dead(k', p)]_vars
    <2> SUFFICES ASSUME LInv, LInv', Next, NEW p \in Proc, k.state[p] = "TERMINATED"
                 PROVE  Dead(k', p)
        BY Zenon DEF vars
    <2>1. Advance  BY Zenon, NextAdvance DEF LInv
    <2>2. k.current # p /\ Sane(k, p)  BY Zenon DEF LInv, Alive, Good
    <2>3. Handled(p) \/ Born(k, k', p)  BY Zenon, <2>1 DEF Advance, Fares
    <2>4. CASE Shift(k, k', p)
        BY SMTT(20), <2>2, <2>4
        DEF Shift, Calm, Move, Dying, Dead, Picked, Requeued, Leaves, Sane
    <2>5. CASE ~Shift(k, k', p)
        BY SMTT(20), <2>2, <2>3, <2>5
        DEF Handled, Unparked, Blocks, Stops, Readied, Born
    <2> QED  BY Zenon, <2>4, <2>5
<1> QED  BY <1>1, LifeInductive, PTL DEF Spec, DeadStaysDead

-----------------------------------------------------------------------------
(***************************************************************************)
(* Workloads without the calls that reach into a wait.                     *)
(***************************************************************************)
\* Without catchable signals and PROC_CTL a BLOCKED process can be made ready by
\* a wait object, by the timer or, if it was stopped, by SIGCONT.
THEOREM NoStrandedHolds ==
    ASSUME NoSignals
    PROVE  Spec => []NoStranded
<1>1. LInv => NoStranded  BY Zenon DEF LInv
<1> QED  BY <1>1, LifeInductive, PTL

\* Without SIGCONT and PROC_CTL nobody cuts a sleep short.
THEOREM SleepsFullHolds ==
    ASSUME NoResume
    PROVE  Spec => SleepsFull
<1>1. LInv /\ LInv' /\ [Next]_vars =>
        [\A p \in Proc :
            k.state[p] = "BLOCKED" /\ k.wait_on[p] = SleepObj
               /\ k'.state[p] \in {"READY", "RUNNING"}
            => k.deadline[p] = 0 \/ k.on_queue[p]]_vars
    <2> SUFFICES ASSUME LInv, LInv', Next, NEW p \in Proc,
                        k.state[p] = "BLOCKED", k.wait_on[p] = SleepObj,
                        k'.state[p] \in {"READY", "RUNNING"}
                 PROVE  k.deadline[p] = 0 \/ k.on_queue[p]
        BY Zenon DEF vars
    <2>1. Advance  BY Zenon, NextAdvance DEF LInv
    <2>2. Handled(p) \/ Born(k, k', p)  BY Zenon, <2>1 DEF Advance, Fares
    <2>3. SleepObj # None  BY ConstantsAssumption
    <2>4. CASE Shift(k, k', p)
        BY SMTT(20), <2>3, <2>4
        DEF Shift, Calm, Move, Dying, Dead, Picked, Requeued, Leaves
    <2>5. CASE ~Shift(k, k', p)
        BY SMTT(20), <2>2, <2>5
        DEF Handled, Unparked, Blocks, Stops, Readied, Born
    <2> QED  BY Zenon, <2>4, <2>5
<1> QED  BY <1>1, LifeInductive, PTL DEF Spec, SleepsFull
=============================================================================
