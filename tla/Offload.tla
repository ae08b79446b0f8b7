------------------------------ MODULE Offload ------------------------------
(***************************************************************************)
(* CPU1 as a coprocessor (ap_boot.c): the one job slot that CPU0 fills and *)
(* CPU1 polls, the bounded wait, the matrix product that processes         *)
(* offload with SYS_CPU1_OFFLOAD, the self-test that submits jobs in a     *)
(* loop at boot, and the clean-up when a process with a job in flight is   *)
(* freed.                                                                  *)
(*                                                                         *)
(* CPU0 does not preempt kernel code, so its side is sequential; the       *)
(* concurrency is between CPU0 and CPU1, and an action is what one of them *)
(* does between two accesses to the slot or to the argument block.         *)
(*                                                                         *)
(* The buffers A, B and C of one call are allocated, referenced and freed  *)
(* together: here they are one buffer.  cpu1_panic_flag and cpu1_offline   *)
(* are left out: nothing in the kernel calls cpu1_panic_handler().         *)
(***************************************************************************)
EXTENDS Integers

CONSTANTS
    Pid, NoPid,
    Buf, NoBuf,     \* blocks of memory for kmalloc_ref()
    MaxTests        \* jobs of the boot-time self-test

ASSUME OffloadAssumption == NoPid \notin Pid /\ NoBuf \notin Buf /\ MaxTests \in Nat

VARIABLES
    cpu1_job,       \* the slot; arg_A, arg_B and result move together: own
    mm_off_arg,     \* the argument block of the matrix job
    ref,            \* the reference count of each buffer; 0: free
    product,        \* whether it holds the product of its operands
    cpu0,           \* what CPU0 is doing, for whom, with which buffer
    cpu1,           \* what CPU1 is doing, and the buffer it works on
    tests,          \* self-test jobs still to be submitted
    overlap         \* for the properties: CPU0 has reused the slot or the
                    \* argument block while CPU1 was not finished with them

ovars == << cpu1_job, mm_off_arg, ref, product, cpu0, cpu1, tests, overlap >>

Own == {"OWNED", "TRANSFERRED", "ORPHANED", "PANIC"}
PC0 == {"idle", "fill", "get", "submit", "publish", "wait", "copyout", "fail", "grace"}
PC1 == {"poll", "call", "load", "compute", "by_apic", "release", "put", "done", "clear"}

Slot   == [ fn : {"matmul", "test"}, pending : BOOLEAN, done : BOOLEAN,
            owner_pid : Pid \cup {NoPid}, job_seq : {0, 1}, own : Own ]
Arg    == [ C : Buf \cup {NoBuf}, by_apic : BOOLEAN,
            refs : Buf \cup {NoBuf}, refs_held : BOOLEAN ]
State0 == [pc : PC0, pid : Pid \cup {NoPid}, buf : Buf \cup {NoBuf}, seq : {0, 1}]
State1 == [pc : PC1, buf : Buf \cup {NoBuf}]

\* The variables of the slot, the argument block and the two CPUs.
OffTypeOK ==
    /\ cpu1_job \in Slot
    /\ mm_off_arg \in Arg
    /\ ref \in [Buf -> 0 .. 2]
    /\ product \in [Buf -> BOOLEAN]
    /\ cpu0 \in State0
    /\ cpu1 \in State1
    /\ tests \in 0 .. MaxTests
    /\ overlap \in BOOLEAN

\* cpu1_job_init() has run and CPU1 is in its worker loop.
OffInit ==
    /\ cpu1_job = [ fn |-> "test", pending |-> FALSE, done |-> FALSE, owner_pid |-> NoPid,
                    job_seq |-> 0, own |-> "OWNED" ]
    /\ mm_off_arg = [C |-> NoBuf, by_apic |-> FALSE, refs |-> NoBuf, refs_held |-> FALSE]
    /\ ref = [b \in Buf |-> 0]
    /\ product = [b \in Buf |-> FALSE]
    /\ cpu0 = [pc |-> "idle", pid |-> NoPid, buf |-> NoBuf, seq |-> 0]
    /\ cpu1 = [pc |-> "poll", buf |-> NoBuf]
    /\ tests = MaxTests
    /\ overlap = FALSE

-----------------------------------------------------------------------------
At0(pc) == cpu0.pc = pc
At1(pc) == cpu1.pc = pc
Goto0(pc) == cpu0' = [cpu0 EXCEPT !.pc = pc]
Goto1(pc) == cpu1' = [cpu1 EXCEPT !.pc = pc]
Idle0 == [cpu0 EXCEPT !.pc = "idle", !.pid = NoPid, !.buf = NoBuf]

\* own_transition(): an edge that is not in the table is a kernel panic.
own_transition(from, to) ==
    IF << from, to >> \in {<< "OWNED", "OWNED" >>, << "ORPHANED", "OWNED" >>,
                           << "ORPHANED", "TRANSFERRED" >>} \/ from = "PANIC"
    THEN "PANIC" ELSE to

\* kput(): the magic number of a freed buffer is wrong, and nothing happens.
kput(b) == ref' = [ref EXCEPT ![b] = IF @ > 0 THEN @ - 1 ELSE @]

InFlight == cpu1_job.pending \/ cpu1.pc # "poll"

-----------------------------------------------------------------------------
(***************************************************************************)
(* CPU0: the self-test and SYS_CPU1_OFFLOAD.                               *)
(***************************************************************************)
test_rapid_cpu1_offload ==
    /\ At0("idle") /\ tests > 0
    /\ tests' = tests - 1
    /\ Goto0("submit")
    /\ UNCHANGED << cpu1_job, mm_off_arg, ref, product, cpu1, overlap >>

\* The buffers are allocated and filled.  (If that fails they are freed again.)
sys_cpu1_offload(p, b) ==
    /\ At0("idle") /\ tests = 0
    /\ ref[b] = 0
    /\ ref' = [ref EXCEPT ![b] = 1]
    /\ product' = [product EXCEPT ![b] = FALSE]
    /\ cpu0' = [cpu0 EXCEPT !.pc = "fill", !.pid = p, !.buf = b]
    /\ UNCHANGED << cpu1_job, mm_off_arg, cpu1, tests, overlap >>

\* cpu1_offload_matmul(), up to the submission.
FillArg ==
    /\ At0("fill")
    /\ mm_off_arg' = [mm_off_arg EXCEPT !.C = cpu0.buf, !.by_apic = FALSE]
    /\ overlap' = (overlap \/ InFlight)
    /\ Goto0("get")
    /\ UNCHANGED << cpu1_job, ref, product, cpu1, tests >>

TakeRefs ==
    /\ At0("get")
    /\ ref' = [ref EXCEPT ![cpu0.buf] = @ + 1]
    /\ mm_off_arg' = [mm_off_arg EXCEPT !.refs = cpu0.buf, !.refs_held = TRUE]
    /\ Goto0("submit")
    /\ UNCHANGED << cpu1_job, product, cpu1, tests, overlap >>

\* Mutant: the descriptors are not brought back to OWNED.
submit_without_init ==
    /\ At0("submit")
    /\ cpu1_job' = [cpu1_job EXCEPT !.fn = IF cpu0.buf = NoBuf THEN "test" ELSE "matmul",
                                    !.owner_pid = cpu0.pid, !.job_seq = 1 - @,
                                    !.own = own_transition(@, "TRANSFERRED"), !.done = FALSE]
    /\ overlap' = (overlap \/ InFlight)
    /\ Goto0("publish")
    /\ UNCHANGED << mm_off_arg, ref, product, cpu1, tests >>

\* Mutant: the answer to the previous job is left in the slot.
submit_stale_done ==
    /\ At0("submit")
    /\ cpu1_job' = [cpu1_job EXCEPT !.fn = IF cpu0.buf = NoBuf THEN "test" ELSE "matmul",
                                    !.owner_pid = cpu0.pid, !.job_seq = 1 - @,
                                    !.own = own_transition("OWNED", "TRANSFERRED")]
    /\ overlap' = (overlap \/ InFlight)
    /\ Goto0("publish")
    /\ UNCHANGED << mm_off_arg, ref, product, cpu1, tests >>

\* cpu1_submit(): everything but the last store.  It does not ask whether the
\* slot is free.
Submit ==
    /\ At0("submit")
    /\ cpu1_job' = [cpu1_job EXCEPT !.fn = IF cpu0.buf = NoBuf THEN "test" ELSE "matmul",
                                    !.owner_pid = cpu0.pid, !.job_seq = 1 - @,
                                    !.own = own_transition("OWNED", "TRANSFERRED"), !.done = FALSE]
    /\ overlap' = (overlap \/ InFlight)
    /\ Goto0("publish")
    /\ UNCHANGED << mm_off_arg, ref, product, cpu1, tests >>

\* The store that publishes the job.
Publish ==
    /\ At0("publish")
    /\ cpu1_job' = [cpu1_job EXCEPT !.pending = TRUE]
    /\ Goto0("wait")
    /\ UNCHANGED << mm_off_arg, ref, product, cpu1, tests, overlap >>

\* cpu1_wait() sees done, and takes the slot back.
WaitDone ==
    /\ At0("wait") /\ cpu1_job.done
    /\ cpu1_job' = [cpu1_job EXCEPT !.own = own_transition(@, "OWNED"), !.owner_pid = NoPid]
    /\ cpu0' = IF cpu0.buf = NoBuf THEN Idle0 ELSE [cpu0 EXCEPT !.pc = "copyout"]
    /\ UNCHANGED << mm_off_arg, ref, product, cpu1, tests, overlap >>

\* Or the deadline passes: CPU1 keeps its references.
WaitTimeout ==
    /\ At0("wait") /\ ~cpu1_job.done
    /\ cpu0' = IF cpu0.buf = NoBuf THEN Idle0 ELSE [cpu0 EXCEPT !.pc = "fail"]
    /\ UNCHANGED << cpu1_job, mm_off_arg, ref, product, cpu1, tests, overlap >>

\* The handler drops its reference and returns by_apic, or EAGAIN.
Return ==
    /\ At0("copyout") \/ At0("fail")
    /\ kput(cpu0.buf)
    /\ cpu0' = Idle0
    /\ UNCHANGED << cpu1_job, mm_off_arg, product, cpu1, tests, overlap >>

-----------------------------------------------------------------------------
(***************************************************************************)
(* cpu1_orphan_jobs(p), when process p is freed.                           *)
(***************************************************************************)
cpu1_orphan_jobs(p) ==
    /\ At0("idle") /\ tests = 0
    /\ cpu1_job.pending /\ cpu1_job.owner_pid = p
    /\ cpu0' = [cpu0 EXCEPT !.pc = "grace", !.pid = p, !.seq = cpu1_job.job_seq]
    /\ UNCHANGED << cpu1_job, mm_off_arg, ref, product, cpu1, tests, overlap >>

\* The job drains during the grace period, or just after it.
GraceDrained ==
    /\ At0("grace")
    /\ ~cpu1_job.pending \/ cpu1_job.job_seq # cpu0.seq
    /\ cpu0' = Idle0
    /\ UNCHANGED << cpu1_job, mm_off_arg, ref, product, cpu1, tests, overlap >>

\* The grace period is over.
GraceExpires ==
    /\ At0("grace")
    /\ cpu1_job.pending /\ cpu1_job.job_seq = cpu0.seq
    /\ cpu1_job' = IF cpu1_job.owner_pid = cpu0.pid
                   THEN [cpu1_job EXCEPT !.owner_pid = NoPid, !.own = own_transition(@, "ORPHANED")]
                   ELSE cpu1_job
    /\ cpu0' = Idle0
    /\ UNCHANGED << mm_off_arg, ref, product, cpu1, tests, overlap >>

-----------------------------------------------------------------------------
(***************************************************************************)
(* CPU1: the worker loop of ap_main(), and mm_offload_job().               *)
(***************************************************************************)
\* Mutant: CPU1 does not start a job whose owner is gone.
poll_owned_only ==
    /\ At1("poll") /\ cpu1_job.pending /\ cpu1_job.own # "ORPHANED"
    /\ Goto1("call")
    /\ UNCHANGED << cpu1_job, mm_off_arg, ref, product, cpu0, tests, overlap >>

Poll ==
    /\ At1("poll") /\ cpu1_job.pending
    /\ Goto1("call")
    /\ UNCHANGED << cpu1_job, mm_off_arg, ref, product, cpu0, tests, overlap >>

CallFn ==
    /\ At1("call")
    /\ Goto1(IF cpu1_job.fn = "matmul" THEN "load" ELSE "done")
    /\ UNCHANGED << cpu1_job, mm_off_arg, ref, product, cpu0, tests, overlap >>

LoadArg ==
    /\ At1("load")
    /\ cpu1' = [pc |-> "compute", buf |-> mm_off_arg.C]
    /\ UNCHANGED << cpu1_job, mm_off_arg, ref, product, cpu0, tests, overlap >>

\* matmul_band_n(), from its first access to the buffers to its last.
Compute ==
    /\ At1("compute")
    /\ product' = [product EXCEPT ![cpu1.buf] = TRUE]
    /\ Goto1("by_apic")
    /\ UNCHANGED << cpu1_job, mm_off_arg, ref, cpu0, tests, overlap >>

SetByApic ==
    /\ At1("by_apic")
    /\ mm_off_arg' = [mm_off_arg EXCEPT !.by_apic = TRUE]
    /\ Goto1("release")
    /\ UNCHANGED << cpu1_job, ref, product, cpu0, tests, overlap >>

\* Mutant: the flag is tested but not cleared, and the next release repeats it.
release_no_exchange ==
    /\ At1("release")
    /\ Goto1(IF mm_off_arg.refs_held THEN "put" ELSE "done")
    /\ UNCHANGED << cpu1_job, mm_off_arg, ref, product, cpu0, tests, overlap >>

\* mm_offload_release(): the exchange, then the kput()s.
Release ==
    /\ At1("release")
    /\ mm_off_arg' = [mm_off_arg EXCEPT !.refs_held = FALSE]
    /\ Goto1(IF mm_off_arg.refs_held THEN "put" ELSE "done")
    /\ UNCHANGED << cpu1_job, ref, product, cpu0, tests, overlap >>

PutRefs ==
    /\ At1("put")
    /\ kput(mm_off_arg.refs)
    /\ Goto1("done")
    /\ UNCHANGED << cpu1_job, mm_off_arg, product, cpu0, tests, overlap >>

SetDone ==
    /\ At1("done")
    /\ cpu1_job' = [cpu1_job EXCEPT !.done = TRUE]
    /\ Goto1("clear")
    /\ UNCHANGED << mm_off_arg, ref, product, cpu0, tests, overlap >>

ClearPending ==
    /\ At1("clear")
    /\ cpu1_job' = [cpu1_job EXCEPT !.pending = FALSE]
    /\ Goto1("poll")
    /\ UNCHANGED << mm_off_arg, ref, product, cpu0, tests, overlap >>

-----------------------------------------------------------------------------
Handler ==
    \/ FillArg \/ TakeRefs \/ Submit \/ Publish \/ WaitDone \/ WaitTimeout \/ Return
    \/ GraceDrained \/ GraceExpires

Worker ==
    \/ Poll \/ CallFn \/ LoadArg \/ Compute \/ SetByApic \/ Release \/ PutRefs
    \/ SetDone \/ ClearPending

OffNext ==
    \/ test_rapid_cpu1_offload
    \/ \E p \in Pid, b \in Buf : sys_cpu1_offload(p, b)
    \/ \E p \in Pid : cpu1_orphan_jobs(p)
    \/ Handler
    \/ Worker

\* A handler runs to its end, and CPU1 does nothing but its loop.
OffSpec == OffInit /\ [][OffNext]_ovars /\ WF_ovars(Handler) /\ WF_ovars(Worker)

-----------------------------------------------------------------------------
\* "each buffer's refcount = (1 if handler holds) + (1 if CPU1 async)", at every
\* step, timeouts and orphaned jobs included, unless the slot was reused while
\* CPU1 was not finished with it; and CPU1 never works on a freed buffer, however
\* late it is.
Holds(b) == IF cpu0.buf = b THEN 1 ELSE 0
Async(b) == IF mm_off_arg.refs = b /\ (mm_off_arg.refs_held \/ At1("put")) THEN 1 ELSE 0
KrefExact ==
    ~overlap =>
        /\ \A b \in Buf : ref[b] = Holds(b) + Async(b)
        /\ At1("compute") => ref[cpu1.buf] > 0

\* "It cannot miss a job": a job CPU0 waits for is pending or done.
JobNotMissed == At0("wait") => cpu1_job.pending \/ cpu1_job.done

\* Unless the slot was reused too early no job is missed, and what the handler
\* copies out is the product, computed by CPU1, of this call.
ResultRight ==
    ~overlap =>
        /\ JobNotMissed
        /\ At0("copyout") => product[cpu0.buf] /\ mm_off_arg.by_apic

\* No sequence of submissions, timeouts, late answers and orphaned jobs takes
\* the slot's descriptors along an edge on which own_transition() panics.
NoPanic == cpu1_job.own # "PANIC"

\* "no leak": a buffer that was allocated is freed, although CPU0 may give up
\* waiting and its process may be gone, with the same proviso.
BuffersFreed == \A b \in Buf : ref[b] > 0 ~> (ref[b] = 0 \/ overlap)
=============================================================================
