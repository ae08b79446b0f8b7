---------------------------- MODULE SchedProofs ----------------------------
(***************************************************************************)
(* The reference-counting safety of Sched, for every workload, every       *)
(* number of processes and both builds: no reference is dropped twice, no  *)
(* freed PCB stays reachable, the ready queue and the wait lists agree with*)
(* the fields of the PCBs that mirror them.                                *)
(***************************************************************************)
EXTENDS Sched, KernelProofs

\* A process that is not inside wait_object_block() is on no wait object; one
\* that is can be linked only on the object of that call: its own child_wait
\* queue, the sleep object or the futex bucket.
MayBlockOn(p) == {p, SleepObj, FutexObj}

PcInv ==
    /\ \A p \in Proc : pc[p] \in {"user", "exit", "scan", "wake"} =>
                           k.wait_on[p] = None
    /\ \A p \in Proc : pc[p] \in {"halt", "resume"} =>
                           wo[p] \in MayBlockOn(p) /\ k.wait_on[p] \in {None, wo[p]}

IInv == TypeOK /\ KInv(k) /\ PcInv

\* The initial state of the kernel satisfies its invariant.
LEMMA InitKInv == KInv(KInit)
<1>1. KInit \in KState
    BY ConstantsAssumption, EmptySeq DEF KInit, KState, PState, WaitObj
<1>2. QueueSound(KInit) /\ LinkSound(KInit)
    BY ConstantsAssumption, EmptySeq
    DEF KInit, QueueSound, LinkSound, Linked, IsInjective, Contains, WaitObj
<1>3. ASSUME NEW p \in Proc
      PROVE  Held(KInit, p) = KInit.ref[p] /\ KInit.ref[p] \in Nat
             /\ (KInit.state[p] = "FREE" => KInit.ref[p] = 0)
    <2>1. /\ KInit.ref[p] = IF p = InitProc THEN 2 ELSE 0
          /\ KInit.state[p] = IF p = InitProc THEN "RUNNING" ELSE "FREE"
          /\ (KInit.reaped[p] <=> p # InitProc) /\ ~KInit.on_queue[p]
          /\ KInit.wait_on[p] = None /\ KInit.current = InitProc
        BY Zenon DEF KInit
    <2>2. /\ One(~KInit.reaped[p]) = One(p = InitProc)
          /\ One(KInit.on_queue[p]) = 0 /\ One(KInit.wait_on[p] # None) = 0
          /\ One(KInit.current = p) = One(p = InitProc)
        BY <2>1 DEF One
    <2>3. Held(KInit, p) = KInit.ref[p]
        BY <2>1, <2>2 DEF Held, One
    <2> QED  BY <2>1, <2>3
<1>4. Covered(KInit) /\ Unheld(KInit)
    BY <1>3 DEF Covered, Unheld, Slack
<1> QED  BY <1>1, <1>2, <1>4 DEF KInv

\* Every initial state satisfies the invariant.
LEMMA InitIInv == Init => IInv
<1> SUFFICES ASSUME Init PROVE IInv  OBVIOUS
<1>1. KInv(k)  BY InitKInv DEF Init
<1>2. TypeOK
    BY Zenon, <1>1, ConstantsAssumption, WorkloadAssumption
    DEF Init, TypeOK, KInv, PC, Catchable
<1>3. PcInv  BY DEF Init, PcInv, KInit
<1> QED  BY <1>1, <1>2, <1>3 DEF IInv

\* A step that leaves pc and wo alone and adds no wait link keeps PcInv.
LEMMA QuietKeepsPc ==
    ASSUME TypeOK, PcInv, Quiet(k, k'), NEW p \in Proc,
           NEW l \in {"user", "exit", "scan", "wake"},
           pc' = pc \/ (pc' = [pc EXCEPT ![p] = l] /\ k.wait_on[p] = None),
           wo' = wo
    PROVE  PcInv'
<1>1. pc \in [Proc -> PC] /\ wo \in [Proc -> WaitObj \cup {None}]  BY DEF TypeOK
<1>2. \A q \in Proc : k'.wait_on[q] \in {k.wait_on[q], None}  BY DEF Quiet
<1> QED  BY <1>1, <1>2 DEF PcInv

-----------------------------------------------------------------------------
\* Park() by the current process, which kk has linked: a good state follows,
\* whichever process is picked.
LEMMA ParkQuiet ==
    ASSUME NEW kk, KInv(kk), NEW p \in Proc, kk.current = p, Park(kk, p)
    PROVE  /\ Quiet(kk, k')
           /\ \E l \in {"halt", "resume"} : pc' = [pc EXCEPT ![p] = l]
<1> DEFINE next == PickedNext(kk)
           k1   == scheduler_pick_next(kk)
<1>1. CASE next = Idle /\ k' = kk /\ Goto(p, "halt")
    BY <1>1, KeepsRefl, KeepsQuiet DEF Goto
<1>2. CASE next = p /\ k' = process_set_current(k1, p) /\ Goto(p, "resume")
    <2>1. kk.rq # << >>  BY <1>2, ConstantsAssumption DEF PickedNext
    <2>2. Lends(kk, k1, p)  BY <1>2, <2>1, PickLends
    <2> HIDE DEF k1
    <2>3. KInv(k1) /\ k1.current = p  BY <2>2 DEF Lends
    <2>4. KInv(k') /\ k'.wait_on = k1.wait_on  BY <1>2, <2>3, SetCurrent
    <2> QED  BY <1>2, <2>2, <2>4 DEF Lends, Quiet, Goto
<1>3. CASE k' = switch_away(k1, p, next) /\ Goto(p, "resume")
    BY <1>3, PickAndSwitch DEF Quiet, Goto
<1> QED  BY <1>1, <1>2, <1>3 DEF Park

\* wait_object_block() by a process that is on no wait object.
LEMMA BlockInv ==
    ASSUME IInv, NEW p \in Proc, k.current = p, k.wait_on[p] = None,
           NEW w \in MayBlockOn(p), NEW d \in Nat, wait_object_block(p, w, d)
    PROVE  KInv(k') /\ PcInv' /\ pc' \in [Proc -> PC]
           /\ wo' \in [Proc -> WaitObj \cup {None}]
<1> DEFINE kk == wait_object_link(k, w, p, d)
<1>0. w \in WaitObj  BY DEF MayBlockOn, WaitObj
<1>1. /\ KInv(kk) /\ kk.current = p /\ kk.wait_on = [k.wait_on EXCEPT ![p] = w]
    BY <1>0, LinkKeeps DEF IInv
<1>2. Park(kk, p) /\ wo' = [wo EXCEPT ![p] = w]  BY DEF wait_object_block
<1> HIDE DEF kk
<1>3. /\ Quiet(kk, k')
      /\ \E l \in {"halt", "resume"} : pc' = [pc EXCEPT ![p] = l]
    BY <1>1, <1>2, ParkQuiet
<1>4. /\ pc \in [Proc -> PC] /\ wo \in [Proc -> WaitObj \cup {None}]
      /\ k.wait_on \in [Proc -> WaitObj \cup {None}]
    BY DEF IInv, TypeOK, KState
<1>5. pc' \in [Proc -> PC] /\ wo' \in [Proc -> WaitObj \cup {None}]
    BY <1>0, <1>2, <1>3, <1>4 DEF PC
<1>6. PcInv'
    <2>1. ASSUME NEW q \in Proc, q # p
          PROVE  /\ pc'[q] = pc[q] /\ wo'[q] = wo[q]
                 /\ k'.wait_on[q] \in {k.wait_on[q], None}
        BY <1>1, <1>2, <1>3, <1>4, <2>1 DEF Quiet
    <2>2. /\ pc'[p] \in {"halt", "resume"} /\ wo'[p] = w
          /\ k'.wait_on[p] \in {w, None}
        BY <1>1, <1>2, <1>3, <1>4 DEF Quiet
    <2> QED  BY <2>1, <2>2 DEF IInv, PcInv
<1> QED  BY <1>3, <1>5, <1>6 DEF Quiet

-----------------------------------------------------------------------------
\* The kill paths: the reference on the target is borrowed and returned.
LEMMA TerminateByKeeps ==
    ASSUME NEW kk, KInv(kk), NEW t \in Proc
    PROVE  Keeps(kk, terminate_by(kk, t))
<1> DEFINE k1 == process_ref(kk, t)
           k2 == abort_if_blocked(k1, t)
           k3 == terminate(k2, t)
<1>1. Lends(kk, k1, t)  BY RefLends
<1>2. terminate_by(kk, t) = process_unref(k3, t)  BY DEF terminate_by
<1> HIDE DEF k1
<1>3. KInv(k1)  BY <1>1 DEF Lends
<1>4. Keeps(k1, k2)  BY <1>3, AbortIfBlockedKeeps
<1> HIDE DEF k2
<1>5. KInv(k2)  BY <1>4 DEF Keeps
<1>6. Keeps(k2, k3)  BY <1>5, TerminateKeeps
<1> HIDE DEF k3
<1>7. Lends(kk, k3, t)  BY <1>1, <1>4, <1>6, KeepsTrans, LendsTrans
<1> QED  BY <1>2, <1>7, LoanReturned

\* SIGSTOP and PROC_CTL_SUSPEND.
LEMMA SuspendKeeps ==
    ASSUME NEW kk, KInv(kk), NEW t \in Proc
    PROVE  Keeps(kk, suspend(kk, t))
<1> DEFINE k1 == process_ref(kk, t)
           k2 == [k1 EXCEPT !.state[t] = "BLOCKED"]
           k3 == scheduler_remove_process(k2, t)
<1>1. Lends(kk, k1, t)  BY RefLends
<1>2. suspend(kk, t) \in {process_unref(k3, t), kk}  BY DEF suspend
<1> HIDE DEF k1
<1>3. KInv(k1)  BY <1>1 DEF Lends
<1>4. Keeps(k1, k2)  BY <1>3, SetStateKeeps DEF PState
<1> HIDE DEF k2
<1>5. KInv(k2)  BY <1>4 DEF Keeps
<1>6. Keeps(k2, k3)  BY <1>5, RemoveKeeps
<1> HIDE DEF k3
<1>7. Lends(kk, k3, t)  BY <1>1, <1>4, <1>6, KeepsTrans, LendsTrans
<1> QED  BY <1>2, <1>7, LoanReturned, KeepsRefl

\* SIGCONT and PROC_CTL_RESUME.
LEMMA ResumeKeeps ==
    ASSUME NEW kk, KInv(kk), NEW t \in Proc
    PROVE  Keeps(kk, resume(kk, t))
<1> DEFINE k1 == process_ref(kk, t)
           k2 == process_set_ready(k1, t)
           k3 == scheduler_add_process(k2, t)
<1>1. Lends(kk, k1, t)  BY RefLends
<1>2. resume(kk, t) = process_unref(k3, t)  BY DEF resume
<1> HIDE DEF k1
<1>3. KInv(k1)  BY <1>1 DEF Lends
<1>4. Keeps(k1, k2)  BY <1>3, SetReadyKeeps
<1> HIDE DEF k2
<1>5. KInv(k2)  BY <1>4 DEF Keeps
<1>6. Keeps(k2, k3)  BY <1>5, AddKeeps
<1> HIDE DEF k3
<1>7. Lends(kk, k3, t)  BY <1>1, <1>4, <1>6, KeepsTrans, LendsTrans
<1> QED  BY <1>2, <1>7, LoanReturned

-----------------------------------------------------------------------------
\* What has to be shown of a step that adds no wait link.
LEMMA QuietStep ==
    ASSUME IInv, Quiet(k, k'), NEW p \in Proc,
           NEW l \in {"user", "exit", "scan", "wake"},
           pc' = pc \/ (pc' = [pc EXCEPT ![p] = l] /\ k.wait_on[p] = None),
           wo' = wo,
           key' \in [Proc -> Addr \cup {None}], stopped' \in [Proc -> BOOLEAN],
           pending' \in [Proc -> SUBSET Catchable], irq' \in BOOLEAN,
           fwake' \in [key : Addr \cup {None}, left : Nat]
    PROVE  IInv'
<1>1. KInv(k') /\ k' \in KState  BY DEF Quiet, KInv
<1>2. pc' \in [Proc -> PC] /\ wo' \in [Proc -> WaitObj \cup {None}]
    BY DEF IInv, TypeOK, PC
<1>3. PcInv'  BY QuietKeepsPc DEF IInv
<1> QED  BY <1>1, <1>2, <1>3 DEF IInv, TypeOK

\* The types of the variables that most steps leave alone.
LEMMA Untouched ==
    ASSUME IInv
    PROVE  /\ key \in [Proc -> Addr \cup {None}] /\ stopped \in [Proc -> BOOLEAN]
           /\ pending \in [Proc -> SUBSET Catchable] /\ irq \in BOOLEAN
           /\ fwake \in [key : Addr \cup {None}, left : Nat]
           /\ KInv(k) /\ Quiet(k, k)
           /\ \A p \in Proc : pc[p] \in {"user", "exit", "scan", "wake"} =>
                                  k.wait_on[p] = None
  BY KeepsRefl, KeepsQuiet DEF IInv, TypeOK, PcInv

\* System calls made from ring 3 keep the invariant.
LEMMA SyscallInv ==
    ASSUME IInv, NEW p \in Proc, Syscall(p)
    PROVE  IInv'
<1> USE Untouched
<1>1. ASSUME At(p, "user") PROVE k.current = p /\ k.wait_on[p] = None
    BY <1>1 DEF At
<1>2. CASE sys_yield(p)
    <2>1. k.current = p /\ k.wait_on[p] = None  BY <1>1, <1>2 DEF sys_yield, Invokes
    <2>2. Quiet(k, k')  BY Zenon, <1>2, <2>1, RequeueQuiet DEF sys_yield
    <2> QED  BY ZenonT(40), <1>2, <2>1, <2>2, QuietStep DEF sys_yield, Goto
<1>3. CASE sys_other(p)
    <2>1. k.wait_on[p] = None  BY <1>1, <1>3 DEF sys_other, Invokes
    <2> QED  BY ZenonT(40), <1>3, <2>1, QuietStep DEF sys_other, Goto
<1>4. CASE sys_sleep(p)
    <2>1. k.current = p /\ k.wait_on[p] = None  BY <1>1, <1>4 DEF sys_sleep, Invokes
    <2>2. PICK d \in SleepTicks : wait_object_block(p, SleepObj, d)
        BY <1>4 DEF sys_sleep
    <2>3. d \in Nat /\ SleepObj \in MayBlockOn(p)
        BY WorkloadAssumption DEF MayBlockOn
    <2>4. KInv(k') /\ PcInv' /\ pc' \in [Proc -> PC]
          /\ wo' \in [Proc -> WaitObj \cup {None}]
        BY <2>1, <2>2, <2>3, BlockInv
    <2> QED  BY <1>4, <2>4 DEF sys_sleep, IInv, TypeOK, KInv
<1>5. CASE futex_wait(p)
    <2>1. k.current = p /\ k.wait_on[p] = None  BY <1>1, <1>5 DEF futex_wait, Invokes
    <2>2. wait_object_block(p, FutexObj, 0)  BY <1>5 DEF futex_wait
    <2>3. FutexObj \in MayBlockOn(p)  BY DEF MayBlockOn
    <2>4. KInv(k') /\ PcInv' /\ pc' \in [Proc -> PC]
          /\ wo' \in [Proc -> WaitObj \cup {None}]
        BY <2>1, <2>2, <2>3, BlockInv
    <2>5. key' \in [Proc -> Addr \cup {None}]  BY <1>5 DEF futex_wait
    <2> QED  BY <1>5, <2>4, <2>5 DEF futex_wait, IInv, TypeOK, KInv
<1>6. CASE futex_wake(p)
    <2>1. k.wait_on[p] = None  BY <1>1, <1>6 DEF futex_wake, Invokes
    <2>2. fwake' \in [key : Addr \cup {None}, left : Nat]
        BY <1>6, WorkloadAssumption DEF futex_wake
    <2> QED  BY ZenonT(40), <1>6, <2>1, <2>2, QuietStep DEF futex_wake, Goto
<1>7. CASE sys_spawn(p)
    <2>1. k.wait_on[p] = None  BY <1>1, <1>7 DEF sys_spawn, Invokes
    <2>2. PICK c \in Proc :
            /\ k.state[c] = "FREE" /\ k' = process_create(k, p, c)
            /\ pc' = [pc EXCEPT ![p] = "exit", ![c] = "user"]
            /\ wo' = [wo EXCEPT ![c] = None] /\ key' = [key EXCEPT ![c] = None]
            /\ stopped' = [stopped EXCEPT ![c] = FALSE]
            /\ pending' = [pending EXCEPT ![c] = {}]
        BY ZenonT(40), <1>7 DEF sys_spawn
    <2>3. Quiet(k, k')  BY <2>2, CreateQuiet
    <2>4. k.wait_on[c] = None
        BY <2>2 DEF IInv, KInv, Unheld, Held, One
    <2>5. KInv(k') /\ k' \in KState  BY <2>3 DEF Quiet, KInv
    <2>6. /\ pc' \in [Proc -> PC] /\ wo' \in [Proc -> WaitObj \cup {None}]
          /\ key' \in [Proc -> Addr \cup {None}] /\ stopped' \in [Proc -> BOOLEAN]
          /\ pending' \in [Proc -> SUBSET Catchable]
        BY <2>2 DEF IInv, TypeOK, PC
    <2>7. TypeOK'  BY <1>7, <2>5, <2>6 DEF sys_spawn, TypeOK
    <2>8. PcInv'
        <3>1. ASSUME NEW q \in Proc, q \notin {p, c}
              PROVE  pc'[q] = pc[q] /\ wo'[q] = wo[q]
            BY <2>2, <3>1 DEF IInv, TypeOK
        <3>2. pc'[p] \in {"exit", "user"} /\ pc'[c] \in {"exit", "user"}
            BY <2>2 DEF IInv, TypeOK
        <3> QED  BY <2>1, <2>3, <2>4, <3>1, <3>2 DEF IInv, PcInv, Quiet
    <2> QED  BY <2>5, <2>7, <2>8 DEF IInv
<1>8. CASE sys_exit(p)
    <2>1. k.current = p  BY <1>1, <1>8 DEF sys_exit, Invokes
    <2>2. Keeps(k, terminate(k, p))  BY TerminateKeeps
    <2>3. Quiet(terminate(k, p), schedule_dead(terminate(k, p), p))
        BY <2>1, <2>2, DeadQuiet DEF Keeps
    <2>4. Quiet(k, k')  BY <1>8, <2>2, <2>3, QuietAfterKeeps DEF sys_exit
    <2> QED  BY <1>8, <2>4, QuietStep DEF sys_exit
<1>9. CASE sys_waitpid(p)
    <2>1. k.wait_on[p] = None  BY <1>1, <1>9 DEF sys_waitpid, Invokes
    <2> QED  BY ZenonT(40), <1>9, <2>1, QuietStep DEF sys_waitpid, Goto
<1>10. ASSUME NEW t \in Proc, sys_kill_term(p, t) PROVE IInv'
    <2>1. k.wait_on[p] = None  BY <1>1, <1>10 DEF sys_kill_term, Invokes
    <2>2. Quiet(k, k')
        BY <1>10, TerminateByKeeps, KeepsQuiet DEF sys_kill_term
    <2> QED  BY ZenonT(40), <1>10, <2>1, <2>2, QuietStep DEF sys_kill_term, Goto
<1>11. ASSUME NEW t \in Proc, sys_kill_stop(p, t) PROVE IInv'
    <2>1. k.wait_on[p] = None  BY <1>1, <1>11 DEF sys_kill_stop, Invokes
    <2>2. Quiet(k, k')  BY <1>11, SuspendKeeps, KeepsQuiet DEF sys_kill_stop
    <2>3. stopped' \in [Proc -> BOOLEAN]  BY <1>11 DEF sys_kill_stop
    <2> QED  BY ZenonT(40), <1>11, <2>1, <2>2, <2>3, QuietStep DEF sys_kill_stop, Goto
<1>12. ASSUME NEW t \in Proc, sys_kill_cont(p, t) PROVE IInv'
    <2>1. k.wait_on[p] = None  BY <1>1, <1>12 DEF sys_kill_cont, Invokes
    <2>2. Quiet(k, k')  BY <1>12, ResumeKeeps, KeepsQuiet DEF sys_kill_cont
    <2>3. stopped' \in [Proc -> BOOLEAN]  BY <1>12 DEF sys_kill_cont
    <2> QED  BY ZenonT(40), <1>12, <2>1, <2>2, <2>3, QuietStep DEF sys_kill_cont, Goto
<1>13. ASSUME NEW t \in Proc, sys_kill_catchable(p, t) PROVE IInv'
    <2>1. k.wait_on[p] = None  BY <1>1, <1>13 DEF sys_kill_catchable, Invokes
    <2>2. Quiet(k, process_unref(abort_if_blocked(process_ref(k, t), t), t))
        <3> DEFINE k1 == process_ref(k, t)
                   k2 == abort_if_blocked(k1, t)
        <3>1. Lends(k, k1, t)  BY RefLends
        <3> HIDE DEF k1
        <3>2. Keeps(k1, k2)  BY <3>1, AbortIfBlockedKeeps DEF Lends
        <3> HIDE DEF k2
        <3>3. Quiet(k, process_unref(k2, t))
            BY <3>1, <3>2, LendsTrans, LoanReturned, KeepsQuiet
        <3> QED  BY <3>3 DEF k1, k2
    <2>3. Quiet(k, k')  BY <1>13, <2>2 DEF sys_kill_catchable
    <2>4. pending' \in [Proc -> SUBSET Catchable]
        BY <1>13, WorkloadAssumption DEF sys_kill_catchable
    <2> QED  BY ZenonT(40), <1>13, <2>1, <2>3, <2>4, QuietStep DEF sys_kill_catchable, Goto
<1>14. ASSUME NEW t \in Proc, procapi_ctl(p, t) PROVE IInv'
    <2>1. k.wait_on[p] = None  BY <1>1, <1>14 DEF procapi_ctl, Invokes
    <2>2. Quiet(k, k')
        BY <1>14, SuspendKeeps, ResumeKeeps, TerminateByKeeps, KeepsQuiet
        DEF procapi_ctl
    <2> QED  BY ZenonT(40), <1>14, <2>1, <2>2, QuietStep DEF procapi_ctl, Goto
<1> QED
    BY <1>2, <1>3, <1>4, <1>5, <1>6, <1>7, <1>8, <1>9, <1>10, <1>11, <1>12,
       <1>13, <1>14 DEF Syscall

\* The default action of a stop signal adds no wait link.
LEMMA StopQuiet ==
    ASSUME IInv, NEW p \in Proc, deliver_stop(p)
    PROVE  Quiet(k, k')
<1> DEFINE k1 == [k EXCEPT !.state[p] = "BLOCKED"]
           k2 == scheduler_remove_process(k1, p)
<1>1. KInv(k) /\ k.current = p  BY DEF deliver_stop, At, IInv
<1>2. Keeps(k, k1)  BY <1>1, SetStateKeeps DEF PState
<1>3. k' \in {k2, schedule_expired(k2, p)}  BY DEF deliver_stop
<1> HIDE DEF k1
<1>4. Keeps(k1, k2)  BY ZenonT(40), <1>2, RemoveKeeps DEF Keeps
<1> HIDE DEF k2
<1>5. Keeps(k, k2) /\ KInv(k2) /\ k2.current = p
    BY ZenonT(40), <1>1, <1>2, <1>4, KeepsTrans DEF Keeps
<1>6. Quiet(k2, schedule_expired(k2, p))
    BY <1>5, RequeueQuiet DEF schedule_expired
<1> QED  BY <1>3, <1>5, <1>6, KeepsQuiet, QuietAfterKeeps

\* Kernel code that runs on without a new system call keeps the invariant.
LEMMA ContinueInv ==
    ASSUME IInv, NEW p \in Proc, Continue(p)
    PROVE  IInv'
<1> USE Untouched
<1>1. CASE halt_wake(p)
    <2>1. k.current = p /\ pc[p] = "halt"  BY <1>1 DEF halt_wake, At
    <2>2. /\ Quiet(k, k')
          /\ \E l \in {"halt", "resume"} : pc' = [pc EXCEPT ![p] = l]
        <3>1. CASE k' = k /\ Goto(p, "resume")  BY <3>1 DEF Goto
        <3>2. CASE Park(k, p)  BY <2>1, <3>2, ParkQuiet
        <3> QED  BY <1>1, <3>1, <3>2 DEF halt_wake
    <2>3. wo' = wo /\ UNCHANGED << key, stopped, pending, irq, fwake >>
        BY <1>1 DEF halt_wake
    <2>4. KInv(k') /\ k' \in KState  BY <2>2 DEF Quiet, KInv
    <2>5. TypeOK'  BY <2>2, <2>3, <2>4 DEF IInv, TypeOK, PC
    <2>6. PcInv'
        <3>1. pc \in [Proc -> PC]  BY DEF IInv, TypeOK
        <3>2. ASSUME NEW q \in Proc, q # p PROVE pc'[q] = pc[q]
            BY <2>2, <3>1, <3>2
        <3>3. pc'[p] \in {"halt", "resume"}  BY <2>2, <3>1
        <3> QED  BY <2>1, <2>2, <2>3, <3>2, <3>3 DEF IInv, PcInv, Quiet
    <2> QED  BY <2>4, <2>5, <2>6 DEF IInv
<1>2. CASE park_cleanup(p)
    <2>1. /\ pc[p] = "resume" /\ wo[p] \in WaitObj /\ k.wait_on[p] \in {None, wo[p]}
        BY <1>2 DEF park_cleanup, At, IInv, PcInv, MayBlockOn, WaitObj
    <2>2. Keeps(k, k') /\ k'.wait_on[p] = None
        BY ZenonT(40), <1>2, <2>1, CleanupKeeps DEF park_cleanup
    <2>3. /\ \E l \in {"scan", "exit"} : pc' = [pc EXCEPT ![p] = l]
          /\ wo' = [wo EXCEPT ![p] = None]
          /\ UNCHANGED << stopped, pending, irq, fwake >>
        BY ZenonT(40), <1>2 DEF park_cleanup, Goto
    <2>4. key' \in [Proc -> Addr \cup {None}]  BY <1>2 DEF park_cleanup
    <2>5. KInv(k') /\ k' \in KState  BY <2>2 DEF Keeps, KInv
    <2>6. TypeOK'  BY ZenonT(40), <2>3, <2>4, <2>5 DEF IInv, TypeOK, PC
    <2>7. PcInv'
        <3>1. pc \in [Proc -> PC] /\ wo \in [Proc -> WaitObj \cup {None}]
            BY DEF IInv, TypeOK
        <3>2. ASSUME NEW q \in Proc, q # p PROVE pc'[q] = pc[q] /\ wo'[q] = wo[q]
            BY <2>3, <3>1, <3>2
        <3>3. pc'[p] \in {"scan", "exit"}  BY <2>3, <3>1
        <3> QED  BY <2>2, <3>2, <3>3 DEF IInv, PcInv, Keeps
    <2> QED  BY <2>5, <2>6, <2>7 DEF IInv
<1>3. CASE wq_wake_one_key(p)
    <2>1. PICK j \in DOMAIN k.waiters[FutexObj] :
            /\ k' = wake_popped(k, FutexObj, k.waiters[FutexObj][j])
            /\ fwake' = [fwake EXCEPT !.left =
                 IF k.state[k.waiters[FutexObj][j]] = "BLOCKED" THEN @ - 1 ELSE @]
        BY <1>3 DEF wq_wake_one_key
    <2> DEFINE q == k.waiters[FutexObj][j]
    <2>2. FutexObj \in WaitObj /\ k.waiters[FutexObj] \in Seq(Proc)
        BY DEF WaitObj, KInv, KState
    <2>3. q \in Proc /\ Contains(k.waiters[FutexObj], q)
        BY <2>2, ElementOfSeq DEF Contains
    <2>4. k.wait_on[q] = FutexObj  BY <2>2, <2>3 DEF KInv, LinkSound, Linked
    <2>5. Quiet(k, k')  BY <2>1, <2>2, <2>3, <2>4, WakePoppedKeeps, KeepsQuiet
    <2>6. fwake' \in [key : Addr \cup {None}, left : Nat]
        BY <1>3, <2>1 DEF wq_wake_one_key
    <2> QED  BY ZenonT(40), <1>3, <2>5, <2>6, QuietStep DEF wq_wake_one_key
<1>4. CASE futex_wake_return(p)
    <2>1. k.wait_on[p] = None  BY <1>4 DEF futex_wake_return, At
    <2>2. fwake' \in [key : Addr \cup {None}, left : Nat]
        BY <1>4 DEF futex_wake_return
    <2> QED  BY ZenonT(40), <1>4, <2>1, <2>2, QuietStep DEF futex_wake_return, Goto
<1>5. CASE waitpid_found(p)
    <2>1. k.wait_on[p] = None  BY <1>5 DEF waitpid_found, At
    <2>2. Quiet(k, k')
        BY <1>5, ReapKeeps, KeepsQuiet DEF waitpid_found, Zombies, Matching
    <2> QED  BY ZenonT(40), <1>5, <2>1, <2>2, QuietStep DEF waitpid_found, Goto
<1>6. CASE waitpid_no_child(p)
    <2>1. k.wait_on[p] = None  BY <1>6 DEF waitpid_no_child, At
    <2> QED  BY ZenonT(40), <1>6, <2>1, QuietStep DEF waitpid_no_child, Goto
<1>7. CASE waitpid_block(p)
    <2>1. k.current = p /\ k.wait_on[p] = None  BY ZenonT(40), <1>7 DEF waitpid_block, At
    <2>2. PICK d \in Nat : wait_object_block(p, p, d)
        BY <1>7, WorkloadAssumption DEF waitpid_block
    <2>3. p \in MayBlockOn(p)  BY DEF MayBlockOn
    <2>4. KInv(k') /\ PcInv' /\ pc' \in [Proc -> PC]
          /\ wo' \in [Proc -> WaitObj \cup {None}]
        BY <2>1, <2>2, <2>3, BlockInv
    <2> QED  BY <1>7, <2>4 DEF waitpid_block, IInv, TypeOK, KInv
<1>8. CASE deliver_nothing(p)
    <2>1. k.wait_on[p] = None  BY <1>8 DEF deliver_nothing, At
    <2> QED  BY ZenonT(40), <1>8, <2>1, QuietStep DEF deliver_nothing, Goto
<1>9. ASSUME NEW sig, deliver_caught(p, sig) PROVE IInv'
    <2>1. k.wait_on[p] = None  BY <1>9 DEF deliver_caught, At
    <2>2. pending' \in [Proc -> SUBSET Catchable]  BY <1>9 DEF deliver_caught
    <2> QED  BY ZenonT(40), <1>9, <2>1, <2>2, QuietStep DEF deliver_caught, Goto
<1>10. CASE deliver_stop(p)
    <2>1. k.current = p /\ k.wait_on[p] = None  BY <1>10 DEF deliver_stop, At
    <2>7. Quiet(k, k')  BY <1>10, StopQuiet
    <2>8. /\ pending' \in [Proc -> SUBSET Catchable]
          /\ stopped' \in [Proc -> BOOLEAN]
        BY <1>10 DEF deliver_stop
    <2> QED  BY Zenon, <1>10, <2>1, <2>7, <2>8, QuietStep DEF deliver_stop, Goto
<1>11. CASE deliver_terminate(p)
    <2> DEFINE k1 == abort_if_blocked(k, p)
               k2 == terminate(k1, p)
    <2>1. k.current = p /\ k.wait_on[p] = None  BY <1>11 DEF deliver_terminate, At
    <2>2. Keeps(k, k1)  BY AbortIfBlockedKeeps
    <2>3. k' = schedule_dead(k2, p)  BY ZenonT(40), <1>11 DEF deliver_terminate
    <2> HIDE DEF k1
    <2>4. Keeps(k1, k2)  BY ZenonT(40), <2>2, TerminateKeeps DEF Keeps
    <2> HIDE DEF k2
    <2>5. Keeps(k, k2) /\ KInv(k2) /\ k2.current = p
        BY ZenonT(40), <2>1, <2>2, <2>4, KeepsTrans DEF Keeps
    <2>6. Quiet(k, k')  BY <2>3, <2>5, DeadQuiet, QuietAfterKeeps
    <2>7. pending' \in [Proc -> SUBSET Catchable]  BY <1>11 DEF deliver_terminate
    <2> QED  BY ZenonT(40), <1>11, <2>1, <2>6, <2>7, QuietStep DEF deliver_terminate, Goto
<1> QED
    BY ZenonT(40), <1>1, <1>2, <1>3, <1>4, <1>5, <1>6, <1>7, <1>8, <1>9, <1>10, <1>11
    DEF Continue

\* Preemption adds no wait link.
LEMMA PreemptQuiet ==
    ASSUME IInv, NEW p \in Proc, schedule_from_irq(p)
    PROVE  Quiet(k, k')
<1> DEFINE n  == PickedNext(k)
           k1 == scheduler_pick_next(k)
           k2 == scheduler_add_process(k1, p)
<1>1. /\ KInv(k) /\ Quiet(k, k) /\ k.current = p
      /\ k' \in {k1, switch_away(k2, p, n)}
    BY KeepsRefl, KeepsQuiet DEF schedule_from_irq, IInv
<1>2. ASSUME k.rq = << >> PROVE Quiet(k, k')
    <2>1. n = Idle /\ k1 = k  BY <1>2 DEF PickedNext, scheduler_pick_next
    <2>2. Keeps(k, k2)  BY <1>1, <2>1, AddKeeps
    <2> HIDE DEF n, k1, k2
    <2>3. KInv(switch_away(k2, p, n)) /\ switch_away(k2, p, n).wait_on = k2.wait_on
        BY <1>1, <2>1, <2>2, SwitchAway, ConstantsAssumption DEF Keeps
    <2> QED  BY <1>1, <2>1, <2>2, <2>3 DEF Quiet, Keeps
<1>3. ASSUME k.rq # << >> PROVE Quiet(k, k')
    <2>1. n \in Proc /\ Lends(k, k1, n)  BY <1>1, <1>3, PickLends
    <2> HIDE DEF n, k1
    <2>2. Keeps(k1, k2)  BY <2>1, AddKeeps DEF Lends
    <2> HIDE DEF k2
    <2>3. Lends(k, k2, n)  BY <2>1, <2>2, LendsTrans
    <2>4. KInv(k2) /\ Slack(k2, n) >= 1 /\ k2.current = p
        BY <1>1, <2>1, <2>3, LentSlack
    <2>5. KInv(switch_away(k2, p, n)) /\ switch_away(k2, p, n).wait_on = k2.wait_on
        BY <2>1, <2>4, SwitchAway
    <2> QED  BY <1>1, <2>1, <2>3, <2>5 DEF Quiet, Lends
<1> QED  BY <1>2, <1>3

\* Interrupt handlers keep the invariant, whatever they interrupt.
LEMMA InterruptInv ==
    ASSUME IInv, Interrupt
    PROVE  IInv'
<1> USE Untouched
<1>0. InitProc \in Proc  BY ConstantsAssumption
<1>1. CASE timer_tick
    <2> DEFINE D == [p \in Proc |-> IF k.deadline[p] > 0 THEN k.deadline[p] - 1 ELSE 0]
    <2>1. k.deadline \in [Proc -> Nat] /\ k.sleepers \in Seq(Proc)
        BY DEF KInv, KState
    <2>2. D \in [Proc -> Nat]  BY <2>1
    <2>3. k' = [k EXCEPT !.deadline = D]  BY <1>1 DEF timer_tick
    <2> HIDE DEF D
    <2>4. Keeps(k, [k EXCEPT !.deadline = D])  BY ZenonT(40), <2>1, <2>2, SleepFieldsKeep
    <2>5. Quiet(k, k')  BY <2>3, <2>4, KeepsQuiet, Zenon
    <2> QED  BY <1>0, <1>1, <2>5, QuietStep DEF timer_tick
<1>2. CASE sleep_list_wake_due
    <2>1. PICK j \in DOMAIN k.sleepers :
            LET q     == k.sleepers[j]
                taken == sleep_list_remove(k, q)
            IN  k' = IF k.state[q] = "BLOCKED"
                     THEN scheduler_add_process(process_set_ready(taken, q), q)
                     ELSE taken
        BY <1>2 DEF sleep_list_wake_due
    <2> DEFINE q  == k.sleepers[j]
               k1 == sleep_list_remove(k, q)
               k2 == process_set_ready(k1, q)
               k3 == scheduler_add_process(k2, q)
    <2>2. q \in Proc
        <3>1. k.sleepers \in Seq(Proc)  BY Zenon DEF KInv, KState
        <3> QED  BY <3>1, ElementOfSeq
    <2>3. Keeps(k, k1)  BY ZenonT(40), <2>2, SleepRemoveKeeps
    <2>4. k' \in {k1, k3}  BY <2>1
    <2> HIDE DEF q, k1
    <2>5. Keeps(k1, k2)  BY <2>2, <2>3, SetReadyKeeps DEF Keeps
    <2> HIDE DEF k2
    <2>6. Keeps(k2, k3)  BY ZenonT(40), <2>2, <2>5, AddKeeps DEF Keeps
    <2> HIDE DEF k3
    <2>7. Quiet(k, k')  BY <2>3, <2>4, <2>5, <2>6, KeepsTrans, KeepsQuiet
    <2> QED  BY <1>0, <1>2, <2>7, QuietStep DEF sleep_list_wake_due
<1>3. CASE timer_return
    BY Zenon, <1>0, <1>3, QuietStep DEF timer_return
<1>4. ASSUME NEW p \in Proc, schedule_from_irq(p) PROVE IInv'
    <2>1. Quiet(k, k')  BY <1>4, PreemptQuiet
    <2> QED  BY ZenonT(40), <1>4, <2>1, QuietStep DEF schedule_from_irq
<1>5. ASSUME NEW t \in Proc, ps2_compositor_kill(t) PROVE IInv'
    <2>1. Quiet(k, k')
        BY <1>5, TerminateByKeeps, KeepsQuiet DEF ps2_compositor_kill
    <2> QED  BY <1>5, <2>1, QuietStep DEF ps2_compositor_kill
<1> QED  BY <1>1, <1>2, <1>3, <1>4, <1>5 DEF Interrupt

-----------------------------------------------------------------------------
\* IInv is an inductive invariant: Init establishes it and every system call,
\* continuation and interrupt preserves it.
THEOREM Inductive == Spec => []IInv
<1>1. Init => IInv  BY InitIInv
<1>2. IInv /\ [Next]_vars => IInv'
    <2> SUFFICES ASSUME IInv, [Next]_vars PROVE IInv'  OBVIOUS
    <2>1. CASE Next  BY <2>1, SyscallInv, ContinueInv, InterruptInv DEF Next
    <2>2. CASE UNCHANGED vars
        BY <2>2 DEF vars, IInv, TypeOK, PcInv
    <2> QED  BY <2>1, <2>2
<1> QED  BY <1>1, <1>2, PTL DEF Spec

\* Every handler leaves every variable in its range; in particular no reference
\* count goes below zero.
THEOREM TypeCorrect == Spec => []TypeOK
  BY Inductive, PTL DEF IInv

\* Every reference the kernel structures account for has been counted: no
\* process_unref() drops a reference that something still relies on, and no freed
\* PCB is on the ready queue, on a wait object or on the CPU.
THEOREM RefsCoveredHolds == Spec => []RefsCovered
<1>1. IInv => RefsCovered  BY DEF IInv, KInv, RefsCovered
<1> QED  BY <1>1, Inductive, PTL

\* wait_on and the waiter lists agree, no process waits twice, and none is ever
\* linked on the child_wait queue of another one, so waking one waiter of it
\* (process_on_terminate()) wakes all there are.
THEOREM LinksConsistentHolds == Spec => []LinksConsistent
<1>1. IInv => LinksConsistent
    <2> SUFFICES ASSUME IInv, NEW p \in Proc, NEW q \in Proc, Linked(k, p, q)
                 PROVE  p = q
        BY DEF LinksConsistent, IInv, KInv
    <2>1. p \in WaitObj  BY DEF WaitObj
    <2>2. k.wait_on[q] = p  BY <2>1 DEF IInv, KInv, LinkSound
    <2>3. pc[q] \in PC /\ p # None
        BY ConstantsAssumption DEF IInv, TypeOK
    <2>4. p \in MayBlockOn(q)  BY <2>2, <2>3 DEF IInv, PcInv, PC
    <2> QED  BY <2>4, ConstantsAssumption DEF MayBlockOn
<1> QED  BY <1>1, Inductive, PTL
=============================================================================
