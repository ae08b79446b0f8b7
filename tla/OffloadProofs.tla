--------------------------- MODULE OffloadProofs ---------------------------
(***************************************************************************)
(* Proofs for Offload, for any number of processes and buffers: whatever   *)
(* is late, times out or is orphaned, as long as CPU0 never reuses the     *)
(* slot while CPU1 is not finished with it, references are exact, CPU1     *)
(* touches no freed buffer and the result is right.  The descriptors of    *)
(* the slot are right even then.                                           *)
(***************************************************************************)
EXTENDS Offload, TLAPS

\* The slot's descriptors, with or without overlap.
SlotInv ==
    /\ cpu1_job.own # "PANIC"
    /\ cpu0.pc \in {"publish", "wait"} => cpu1_job.own = "TRANSFERRED"
    /\ cpu1_job.owner_pid # NoPid => cpu1_job.own = "TRANSFERRED"
    /\ cpu0.pc = "grace" => cpu0.pid \in Pid
    /\ cpu0.pc \in {"fill", "get", "copyout", "fail"} => cpu0.buf \in Buf
    /\ cpu0.pc \in {"idle", "grace"} => cpu0.buf = NoBuf
    /\ cpu0.pc \in {"fill", "get"} => ref[cpu0.buf] \in {0, 1}

\* CPU0 is between filling the argument block and publishing the job.
Filling == cpu0.pc = "get" \/ cpu0.pc = "publish" \/ (cpu0.pc = "submit" /\ cpu0.buf # NoBuf)

\* CPU1 has still to release the buffer of the published job.
Computing ==
    /\ cpu1_job.pending /\ cpu1_job.fn = "matmul"
    /\ cpu1.pc \in {"poll", "call", "load", "compute", "by_apic", "release"}

\* How the two CPUs stand to each other, and to the argument block.
PhaseInv ==
    /\ Filling => ~cpu1_job.pending /\ cpu1.pc = "poll"
    /\ cpu1.pc # "poll" => cpu1_job.pending
    /\ cpu1_job.pending /\ cpu1_job.done <=> cpu1.pc = "clear"
    /\ cpu0.pc = "publish" => ~cpu1_job.done
    /\ cpu0.pc = "wait" => cpu1_job.pending \/ cpu1_job.done
    /\ cpu0.pc = "publish" => (cpu1_job.fn = "matmul" <=> cpu0.buf # NoBuf)
    /\ cpu0.pc = "wait" /\ cpu0.buf # NoBuf => mm_off_arg.C = cpu0.buf /\ cpu1_job.fn = "matmul"
    /\ cpu1.pc \in {"load", "compute", "by_apic", "release", "put"} => cpu1_job.fn = "matmul"

\* Who holds which reference.
RefInv ==
    /\ \A b \in Buf : ref[b] = Holds(b) + Async(b)
    /\ mm_off_arg.refs_held <=>
          Computing \/ (cpu0.pc \in {"submit", "publish"} /\ cpu0.buf # NoBuf)
    /\ mm_off_arg.refs_held \/ cpu1.pc = "put" =>
          mm_off_arg.refs \in Buf /\ mm_off_arg.refs = mm_off_arg.C
    /\ cpu0.pc \in {"get", "submit", "publish"} /\ cpu0.buf # NoBuf => mm_off_arg.C = cpu0.buf
    /\ cpu0.buf # NoBuf => cpu0.buf \in Buf

\* Where the product is.
ResultInv ==
    /\ cpu1.pc = "compute" => cpu1.buf = mm_off_arg.C
    /\ cpu1.pc \in {"by_apic", "release", "put"} => product[mm_off_arg.C]
    /\ cpu1.pc \in {"release", "put"} => mm_off_arg.by_apic
    /\ cpu0.pc = "wait" /\ cpu0.buf # NoBuf /\ (cpu1_job.done \/ cpu1.pc = "done") =>
          product[cpu0.buf] /\ mm_off_arg.by_apic
    /\ cpu0.pc = "copyout" => product[cpu0.buf] /\ mm_off_arg.by_apic

OffInv == OffTypeOK /\ SlotInv /\ (~overlap => PhaseInv /\ RefInv /\ ResultInv)

-----------------------------------------------------------------------------
\* The initial state satisfies the invariant.
LEMMA OffInvInit == OffInit => OffInv
  <1> SUFFICES ASSUME OffInit PROVE OffInv
    OBVIOUS
  <1> USE OffloadAssumption DEF OffInit
  <1>1. OffTypeOK
    <2>1. cpu1_job \in Slot
      BY DEF Slot, Own
    <2>2. mm_off_arg \in Arg
      BY DEF Arg
    <2>3. cpu0 \in State0
      BY DEF State0, PC0
    <2>4. cpu1 \in State1
      BY DEF State1, PC1
    <2>5. ref \in [Buf -> 0 .. 2] /\ tests \in 0 .. MaxTests
      OBVIOUS
    <2>6. product \in [Buf -> BOOLEAN] /\ overlap \in BOOLEAN
      BY Zenon
    <2> QED
      BY <2>1, <2>2, <2>3, <2>4, <2>5, <2>6 DEF OffTypeOK
  <1>2. SlotInv
    BY DEF SlotInv
  <1>3. PhaseInv /\ ResultInv
    BY DEF PhaseInv, ResultInv, Filling
  <1>4. RefInv
    BY DEF RefInv, Computing, Holds, Async, At1
  <1> QED
    BY <1>1, <1>2, <1>3, <1>4 DEF OffInv

\* Every step of either CPU preserves the types and the descriptors of the slot.
LEMMA SlotStep == OffTypeOK /\ SlotInv /\ [OffNext]_ovars => OffTypeOK' /\ SlotInv'
  <1> SUFFICES ASSUME OffTypeOK, SlotInv, [OffNext]_ovars
               PROVE  OffTypeOK' /\ SlotInv'
    OBVIOUS
  <1> USE OffloadAssumption DEF OffTypeOK
  <1>1. CASE test_rapid_cpu1_offload
    <2>1. cpu0' \in State0
      BY <1>1 DEF test_rapid_cpu1_offload, State0, PC0, Goto0, Idle0
    <2>2. tests' \in 0 .. MaxTests
      BY <1>1 DEF test_rapid_cpu1_offload
    <2>3. OffTypeOK'
      BY <1>1, <2>1, <2>2 DEF test_rapid_cpu1_offload
    <2>4. SlotInv'
      BY <1>1 DEF test_rapid_cpu1_offload, SlotInv, Slot, Arg, State0, State1, PC0, Own, At0, At1, Goto0, Goto1, Idle0
    <2> QED
      BY <2>3, <2>4
  <1>2. ASSUME NEW p \in Pid, NEW b \in Buf, sys_cpu1_offload(p, b)
        PROVE  OffTypeOK' /\ SlotInv'
    <2>1. ref' \in [Buf -> 0 .. 2]
      BY <1>2 DEF sys_cpu1_offload, SlotInv, At0, State0, PC0
    <2>2. product' \in [Buf -> BOOLEAN]
      BY <1>2 DEF sys_cpu1_offload
    <2>3. cpu0' \in State0
      BY Zenon, <1>2 DEF sys_cpu1_offload, State0, PC0, Goto0, Idle0
    <2>4. OffTypeOK'
      BY <1>2, <2>1, <2>2, <2>3 DEF sys_cpu1_offload
    <2>5. SlotInv'
      BY <1>2 DEF sys_cpu1_offload, SlotInv, Slot, Arg, State0, State1, PC0, Own, At0, At1, Goto0, Goto1, Idle0
    <2> QED
      BY <2>4, <2>5
  <1>3. CASE FillArg
    <2>1. mm_off_arg' \in Arg
      BY Zenon, <1>3 DEF FillArg, Arg, State0, PC0
    <2>2. cpu0' \in State0
      BY <1>3 DEF FillArg, State0, PC0, Goto0, Idle0
    <2>3. overlap' \in BOOLEAN
      BY <1>3 DEF FillArg, InFlight
    <2>4. OffTypeOK'
      BY <1>3, <2>1, <2>2, <2>3 DEF FillArg
    <2>5. SlotInv'
      BY <1>3 DEF FillArg, InFlight, SlotInv, Slot, Arg, State0, State1, PC0, Own, At0, At1, Goto0, Goto1, Idle0
    <2> QED
      BY <2>4, <2>5
  <1>4. CASE TakeRefs
    <2>1. mm_off_arg' \in Arg
      BY Zenon, <1>4 DEF TakeRefs, Arg, State0, PC0
    <2>2. ref' \in [Buf -> 0 .. 2]
      BY <1>4 DEF TakeRefs, SlotInv, At0, State0, PC0
    <2>3. cpu0' \in State0
      BY <1>4 DEF TakeRefs, State0, PC0, Goto0, Idle0
    <2>4. OffTypeOK'
      BY <1>4, <2>1, <2>2, <2>3 DEF TakeRefs
    <2>5. SlotInv'
      BY <1>4 DEF TakeRefs, SlotInv, Slot, Arg, State0, State1, PC0, Own, At0, At1, Goto0, Goto1, Idle0
    <2> QED
      BY <2>4, <2>5
  <1>5. CASE Submit
    <2>1. cpu1_job' \in Slot
      <3>1. own_transition("OWNED", "TRANSFERRED") = "TRANSFERRED"
        BY DEF own_transition
      <3>2. 1 - cpu1_job.job_seq \in {0, 1} /\ cpu0.pid \in Pid \cup {NoPid}
        BY DEF Slot, State0
      <3> QED
        BY Zenon, <1>5, <3>1, <3>2 DEF Submit, Slot, Own
    <2>2. cpu0' \in State0
      BY <1>5 DEF Submit, State0, PC0, Goto0, Idle0
    <2>3. overlap' \in BOOLEAN
      BY <1>5 DEF Submit, InFlight
    <2>4. OffTypeOK'
      BY <1>5, <2>1, <2>2, <2>3 DEF Submit
    <2>5. SlotInv'
      BY <1>5 DEF Submit, own_transition, InFlight, SlotInv, Slot, Arg, State0, State1, PC0, Own, At0, At1, Goto0, Goto1, Idle0
    <2> QED
      BY <2>4, <2>5
  <1>6. CASE Publish
    <2>1. cpu1_job' \in Slot
      BY Zenon, <1>6 DEF Publish, Slot, Own
    <2>2. cpu0' \in State0
      BY <1>6 DEF Publish, State0, PC0, Goto0, Idle0
    <2>3. OffTypeOK'
      BY <1>6, <2>1, <2>2 DEF Publish
    <2>4. SlotInv'
      BY <1>6 DEF Publish, SlotInv, Slot, Arg, State0, State1, PC0, Own, At0, At1, Goto0, Goto1, Idle0
    <2> QED
      BY <2>3, <2>4
  <1>7. CASE WaitDone
    <2>1. cpu1_job' \in Slot
      BY Zenon, <1>7 DEF WaitDone, Slot, Own, own_transition
    <2>2. cpu0' \in State0
      BY Zenon, <1>7 DEF WaitDone, State0, PC0, Goto0, Idle0
    <2>3. OffTypeOK'
      BY <1>7, <2>1, <2>2 DEF WaitDone
    <2>4. SlotInv'
      BY <1>7 DEF WaitDone, own_transition, SlotInv, Slot, Arg, State0, State1, PC0, Own, At0, At1, Goto0, Goto1, Idle0
    <2> QED
      BY <2>3, <2>4
  <1>8. CASE WaitTimeout
    <2>1. cpu0' \in State0
      BY Zenon, <1>8 DEF WaitTimeout, State0, PC0, Goto0, Idle0
    <2>2. OffTypeOK'
      BY <1>8, <2>1 DEF WaitTimeout
    <2>3. SlotInv'
      BY <1>8 DEF WaitTimeout, SlotInv, Slot, Arg, State0, State1, PC0, Own, At0, At1, Goto0, Goto1, Idle0
    <2> QED
      BY <2>2, <2>3
  <1>9. CASE Return
    <2>1. ref' \in [Buf -> 0 .. 2]
      BY <1>9 DEF Return, kput, SlotInv, At0, State0, PC0
    <2>2. cpu0' \in State0
      BY Zenon, <1>9 DEF Return, State0, PC0, Goto0, Idle0
    <2>3. OffTypeOK'
      BY <1>9, <2>1, <2>2 DEF Return
    <2>4. SlotInv'
      BY <1>9 DEF Return, kput, SlotInv, Slot, Arg, State0, State1, PC0, Own, At0, At1, Goto0, Goto1, Idle0
    <2> QED
      BY <2>3, <2>4
  <1>10. ASSUME NEW p \in Pid, cpu1_orphan_jobs(p)
        PROVE  OffTypeOK' /\ SlotInv'
    <2>1. cpu0' \in State0
      BY Zenon, <1>10 DEF cpu1_orphan_jobs, State0, PC0, Goto0, Idle0, Slot
    <2>2. OffTypeOK'
      BY <1>10, <2>1 DEF cpu1_orphan_jobs
    <2>3. SlotInv'
      BY <1>10 DEF cpu1_orphan_jobs, SlotInv, Slot, Arg, State0, State1, PC0, Own, At0, At1, Goto0, Goto1, Idle0
    <2> QED
      BY <2>2, <2>3
  <1>11. CASE GraceDrained
    <2>1. cpu0' \in State0
      BY Zenon, <1>11 DEF GraceDrained, State0, PC0, Goto0, Idle0
    <2>2. OffTypeOK'
      BY <1>11, <2>1 DEF GraceDrained
    <2>3. SlotInv'
      BY <1>11 DEF GraceDrained, SlotInv, Slot, Arg, State0, State1, PC0, Own, At0, At1, Goto0, Goto1, Idle0
    <2> QED
      BY <2>2, <2>3
  <1>12. CASE GraceExpires
    <2>1. cpu1_job' \in Slot
      BY Zenon, <1>12 DEF GraceExpires, Slot, Own, own_transition
    <2>2. cpu0' \in State0
      BY Zenon, <1>12 DEF GraceExpires, State0, PC0, Goto0, Idle0
    <2>3. OffTypeOK'
      BY <1>12, <2>1, <2>2 DEF GraceExpires
    <2>4. SlotInv'
      BY <1>12 DEF GraceExpires, own_transition, SlotInv, Slot, Arg, State0, State1, PC0, Own, At0, At1, Goto0, Goto1, Idle0
    <2> QED
      BY <2>3, <2>4
  <1>13. CASE Poll
    <2>1. cpu1' \in State1
      BY <1>13 DEF Poll, State1, PC1, Goto1
    <2>2. OffTypeOK'
      BY <1>13, <2>1 DEF Poll
    <2>3. SlotInv'
      BY <1>13 DEF Poll, SlotInv, Slot, Arg, State0, State1, PC0, Own, At0, At1, Goto0, Goto1, Idle0
    <2> QED
      BY <2>2, <2>3
  <1>14. CASE CallFn
    <2>1. cpu1' \in State1
      BY <1>14 DEF CallFn, State1, PC1, Goto1
    <2>2. OffTypeOK'
      BY <1>14, <2>1 DEF CallFn
    <2>3. SlotInv'
      BY <1>14 DEF CallFn, SlotInv, Slot, Arg, State0, State1, PC0, Own, At0, At1, Goto0, Goto1, Idle0
    <2> QED
      BY <2>2, <2>3
  <1>15. CASE LoadArg
    <2>1. cpu1' \in State1
      BY <1>15 DEF LoadArg, State1, PC1, Goto1, Arg
    <2>2. OffTypeOK'
      BY <1>15, <2>1 DEF LoadArg
    <2>3. SlotInv'
      BY <1>15 DEF LoadArg, SlotInv, Slot, Arg, State0, State1, PC0, Own, At0, At1, Goto0, Goto1, Idle0
    <2> QED
      BY <2>2, <2>3
  <1>16. CASE Compute
    <2>1. product' \in [Buf -> BOOLEAN]
      BY Zenon, <1>16 DEF Compute
    <2>2. cpu1' \in State1
      BY <1>16 DEF Compute, State1, PC1, Goto1
    <2>3. OffTypeOK'
      BY <1>16, <2>1, <2>2 DEF Compute
    <2>4. SlotInv'
      BY <1>16 DEF Compute, SlotInv, Slot, Arg, State0, State1, PC0, Own, At0, At1, Goto0, Goto1, Idle0
    <2> QED
      BY <2>3, <2>4
  <1>17. CASE SetByApic
    <2>1. mm_off_arg' \in Arg
      BY Zenon, <1>17 DEF SetByApic, Arg, State0, PC0
    <2>2. cpu1' \in State1
      BY <1>17 DEF SetByApic, State1, PC1, Goto1
    <2>3. OffTypeOK'
      BY <1>17, <2>1, <2>2 DEF SetByApic
    <2>4. SlotInv'
      BY <1>17 DEF SetByApic, SlotInv, Slot, Arg, State0, State1, PC0, Own, At0, At1, Goto0, Goto1, Idle0
    <2> QED
      BY <2>3, <2>4
  <1>18. CASE Release
    <2>1. mm_off_arg' \in Arg
      BY Zenon, <1>18 DEF Release, Arg, State0, PC0
    <2>2. cpu1' \in State1
      BY <1>18 DEF Release, State1, PC1, Goto1
    <2>3. OffTypeOK'
      BY <1>18, <2>1, <2>2 DEF Release
    <2>4. SlotInv'
      BY <1>18 DEF Release, SlotInv, Slot, Arg, State0, State1, PC0, Own, At0, At1, Goto0, Goto1, Idle0
    <2> QED
      BY <2>3, <2>4
  <1>19. CASE PutRefs
    <2>1. ref' \in [Buf -> 0 .. 2]
      <3>1. \A x \in Buf : ref[x] > 0 => ref[x] - 1 \in 0 .. 2
        OBVIOUS
      <3> QED
        BY Zenon, <1>19, <3>1 DEF PutRefs, kput
    <2>2. cpu1' \in State1
      BY <1>19 DEF PutRefs, State1, PC1, Goto1
    <2>3. OffTypeOK'
      BY <1>19, <2>1, <2>2 DEF PutRefs
    <2>4. SlotInv'
      BY <1>19 DEF PutRefs, kput, SlotInv, Slot, Arg, State0, State1, PC0, Own, At0, At1, Goto0, Goto1, Idle0
    <2> QED
      BY <2>3, <2>4
  <1>20. CASE SetDone
    <2>1. cpu1_job' \in Slot
      BY Zenon, <1>20 DEF SetDone, Slot, Own
    <2>2. cpu1' \in State1
      BY <1>20 DEF SetDone, State1, PC1, Goto1
    <2>3. OffTypeOK'
      BY <1>20, <2>1, <2>2 DEF SetDone
    <2>4. SlotInv'
      BY <1>20 DEF SetDone, SlotInv, Slot, Arg, State0, State1, PC0, Own, At0, At1, Goto0, Goto1, Idle0
    <2> QED
      BY <2>3, <2>4
  <1>21. CASE ClearPending
    <2>1. cpu1_job' \in Slot
      BY Zenon, <1>21 DEF ClearPending, Slot, Own
    <2>2. cpu1' \in State1
      BY <1>21 DEF ClearPending, State1, PC1, Goto1
    <2>3. OffTypeOK'
      BY <1>21, <2>1, <2>2 DEF ClearPending
    <2>4. SlotInv'
      BY <1>21 DEF ClearPending, SlotInv, Slot, Arg, State0, State1, PC0, Own, At0, At1, Goto0, Goto1, Idle0
    <2> QED
      BY <2>3, <2>4
  <1>22. CASE UNCHANGED ovars
    BY <1>22 DEF ovars, SlotInv
  <1> QED
    BY <1>1, <1>2, <1>3, <1>4, <1>5, <1>6, <1>7, <1>8, <1>9, <1>10, <1>11, <1>12, <1>13, <1>14, <1>15, <1>16, <1>17, <1>18, <1>19, <1>20, <1>21, <1>22 DEF OffNext, Handler, Worker

\* As long as there is no overlap, every step preserves the relation between the
\* CPUs, the references and the results.
LEMMA CleanStep ==
    OffInv /\ [OffNext]_ovars /\ ~overlap' => ~overlap /\ PhaseInv' /\ RefInv' /\ ResultInv'
  <1> SUFFICES ASSUME OffInv, [OffNext]_ovars, ~overlap'
               PROVE  ~overlap /\ PhaseInv' /\ RefInv' /\ ResultInv'
    OBVIOUS
  <1> USE OffloadAssumption DEF OffInv, OffTypeOK, Slot, Arg, State0, State1, SlotInv, PC0, PC1, Own, At0, At1, Goto0, Goto1, Idle0
  <1>1. CASE test_rapid_cpu1_offload
    <2>1. ~overlap /\ PhaseInv /\ RefInv /\ ResultInv
      BY <1>1 DEF test_rapid_cpu1_offload
    <2>2. PhaseInv'
      BY <1>1, <2>1 DEF test_rapid_cpu1_offload, PhaseInv, RefInv, ResultInv, Filling, Computing, Holds, Async
    <2>3. RefInv'
      BY <1>1, <2>1 DEF test_rapid_cpu1_offload, PhaseInv, RefInv, ResultInv, Filling, Computing, Holds, Async
    <2>4. ResultInv'
      BY <1>1, <2>1 DEF test_rapid_cpu1_offload, PhaseInv, RefInv, ResultInv, Filling, Computing, Holds, Async
    <2> QED
      BY <2>1, <2>2, <2>3, <2>4
  <1>2. ASSUME NEW p \in Pid, NEW b \in Buf, sys_cpu1_offload(p, b)
        PROVE  ~overlap /\ PhaseInv' /\ RefInv' /\ ResultInv'
    <2>1. ~overlap /\ PhaseInv /\ RefInv /\ ResultInv
      BY <1>2 DEF sys_cpu1_offload
    <2>2. PhaseInv'
      BY <1>2, <2>1 DEF sys_cpu1_offload, PhaseInv, RefInv, ResultInv, Filling, Computing, Holds, Async
    <2>3. RefInv'
      BY <1>2, <2>1 DEF sys_cpu1_offload, PhaseInv, RefInv, ResultInv, Filling, Computing, Holds, Async
    <2>4. ResultInv'
      BY <1>2, <2>1 DEF sys_cpu1_offload, PhaseInv, RefInv, ResultInv, Filling, Computing, Holds, Async
    <2> QED
      BY <2>1, <2>2, <2>3, <2>4
  <1>3. CASE FillArg
    <2>1. ~overlap /\ PhaseInv /\ RefInv /\ ResultInv
      BY <1>3 DEF FillArg
    <2>2. PhaseInv'
      BY <1>3, <2>1 DEF FillArg, InFlight, PhaseInv, RefInv, ResultInv, Filling, Computing, Holds, Async
    <2>3. RefInv'
      BY <1>3, <2>1 DEF FillArg, InFlight, PhaseInv, RefInv, ResultInv, Filling, Computing, Holds, Async
    <2>4. ResultInv'
      BY <1>3, <2>1 DEF FillArg, InFlight, PhaseInv, RefInv, ResultInv, Filling, Computing, Holds, Async
    <2> QED
      BY <2>1, <2>2, <2>3, <2>4
  <1>4. CASE TakeRefs
    <2>1. ~overlap /\ PhaseInv /\ RefInv /\ ResultInv
      BY <1>4 DEF TakeRefs
    <2>2. PhaseInv'
      BY <1>4, <2>1 DEF TakeRefs, PhaseInv, Filling
    <2>3. RefInv'
      <3>1. ~mm_off_arg.refs_held /\ cpu1.pc = "poll" /\ cpu0.buf \in Buf
        BY <1>4, <2>1 DEF TakeRefs, PhaseInv, RefInv, Filling, Computing
      <3>2. \A b \in Buf : ref[b] = IF cpu0.buf = b THEN 1 ELSE 0
        BY <2>1, <3>1 DEF RefInv, Holds, Async
      <3>3. \A b \in Buf : ref'[b] = Holds(b)' + Async(b)'
        BY <1>4, <3>1, <3>2 DEF TakeRefs, Holds, Async
      <3>4. mm_off_arg' = [mm_off_arg EXCEPT !.refs = cpu0.buf, !.refs_held = TRUE] /\ mm_off_arg.C = cpu0.buf
        BY <1>4, <2>1 DEF TakeRefs, RefInv
      <3> QED
        BY <1>4, <2>1, <3>1, <3>3, <3>4 DEF TakeRefs, PhaseInv, RefInv, Filling, Computing
    <2>4. ResultInv'
      BY <1>4, <2>1 DEF TakeRefs, PhaseInv, ResultInv, Filling
    <2> QED
      BY <2>1, <2>2, <2>3, <2>4
  <1>5. CASE Submit
    <2>1. ~overlap /\ PhaseInv /\ RefInv /\ ResultInv
      BY <1>5 DEF Submit
    <2>2. PhaseInv'
      BY <1>5, <2>1 DEF Submit, own_transition, InFlight, PhaseInv, RefInv, ResultInv, Filling, Computing, Holds, Async
    <2>3. RefInv'
      BY <1>5, <2>1 DEF Submit, own_transition, InFlight, PhaseInv, RefInv, ResultInv, Filling, Computing, Holds, Async
    <2>4. ResultInv'
      BY <1>5, <2>1 DEF Submit, own_transition, InFlight, PhaseInv, RefInv, ResultInv, Filling, Computing, Holds, Async
    <2> QED
      BY <2>1, <2>2, <2>3, <2>4
  <1>6. CASE Publish
    <2>1. ~overlap /\ PhaseInv /\ RefInv /\ ResultInv
      BY <1>6 DEF Publish
    <2>2. PhaseInv'
      BY <1>6, <2>1 DEF Publish, PhaseInv, RefInv, ResultInv, Filling, Computing, Holds, Async
    <2>3. RefInv'
      BY <1>6, <2>1 DEF Publish, PhaseInv, RefInv, ResultInv, Filling, Computing, Holds, Async
    <2>4. ResultInv'
      BY <1>6, <2>1 DEF Publish, PhaseInv, RefInv, ResultInv, Filling, Computing, Holds, Async
    <2> QED
      BY <2>1, <2>2, <2>3, <2>4
  <1>7. CASE WaitDone
    <2>1. ~overlap /\ PhaseInv /\ RefInv /\ ResultInv
      BY <1>7 DEF WaitDone
    <2>2. PhaseInv'
      BY <1>7, <2>1 DEF WaitDone, own_transition, PhaseInv, RefInv, ResultInv, Filling, Computing, Holds, Async
    <2>3. RefInv'
      BY <1>7, <2>1 DEF WaitDone, own_transition, PhaseInv, RefInv, ResultInv, Filling, Computing, Holds, Async
    <2>4. ResultInv'
      BY <1>7, <2>1 DEF WaitDone, own_transition, PhaseInv, RefInv, ResultInv, Filling, Computing, Holds, Async
    <2> QED
      BY <2>1, <2>2, <2>3, <2>4
  <1>8. CASE WaitTimeout
    <2>1. ~overlap /\ PhaseInv /\ RefInv /\ ResultInv
      BY <1>8 DEF WaitTimeout
    <2>2. PhaseInv'
      BY <1>8, <2>1 DEF WaitTimeout, PhaseInv, RefInv, ResultInv, Filling, Computing, Holds, Async
    <2>3. RefInv'
      BY <1>8, <2>1 DEF WaitTimeout, PhaseInv, RefInv, ResultInv, Filling, Computing, Holds, Async
    <2>4. ResultInv'
      BY <1>8, <2>1 DEF WaitTimeout, PhaseInv, RefInv, ResultInv, Filling, Computing, Holds, Async
    <2> QED
      BY <2>1, <2>2, <2>3, <2>4
  <1>9. CASE Return
    <2>1. ~overlap /\ PhaseInv /\ RefInv /\ ResultInv
      BY <1>9 DEF Return
    <2>2. PhaseInv'
      BY <1>9, <2>1 DEF Return, kput, PhaseInv, RefInv, ResultInv, Filling, Computing, Holds, Async
    <2>3. RefInv'
      BY <1>9, <2>1 DEF Return, kput, PhaseInv, RefInv, ResultInv, Filling, Computing, Holds, Async
    <2>4. ResultInv'
      BY <1>9, <2>1 DEF Return, kput, PhaseInv, RefInv, ResultInv, Filling, Computing, Holds, Async
    <2> QED
      BY <2>1, <2>2, <2>3, <2>4
  <1>10. ASSUME NEW p \in Pid, cpu1_orphan_jobs(p)
        PROVE  ~overlap /\ PhaseInv' /\ RefInv' /\ ResultInv'
    <2>1. ~overlap /\ PhaseInv /\ RefInv /\ ResultInv
      BY <1>10 DEF cpu1_orphan_jobs
    <2>2. PhaseInv'
      BY <1>10, <2>1 DEF cpu1_orphan_jobs, PhaseInv, RefInv, ResultInv, Filling, Computing, Holds, Async
    <2>3. RefInv'
      BY <1>10, <2>1 DEF cpu1_orphan_jobs, PhaseInv, RefInv, ResultInv, Filling, Computing, Holds, Async
    <2>4. ResultInv'
      BY <1>10, <2>1 DEF cpu1_orphan_jobs, PhaseInv, RefInv, ResultInv, Filling, Computing, Holds, Async
    <2> QED
      BY <2>1, <2>2, <2>3, <2>4
  <1>11. CASE GraceDrained
    <2>1. ~overlap /\ PhaseInv /\ RefInv /\ ResultInv
      BY <1>11 DEF GraceDrained
    <2>2. PhaseInv'
      BY <1>11, <2>1 DEF GraceDrained, PhaseInv, RefInv, ResultInv, Filling, Computing, Holds, Async
    <2>3. RefInv'
      BY <1>11, <2>1 DEF GraceDrained, PhaseInv, RefInv, ResultInv, Filling, Computing, Holds, Async
    <2>4. ResultInv'
      BY <1>11, <2>1 DEF GraceDrained, PhaseInv, RefInv, ResultInv, Filling, Computing, Holds, Async
    <2> QED
      BY <2>1, <2>2, <2>3, <2>4
  <1>12. CASE GraceExpires
    <2>1. ~overlap /\ PhaseInv /\ RefInv /\ ResultInv
      BY <1>12 DEF GraceExpires
    <2>2. PhaseInv'
      BY <1>12, <2>1 DEF GraceExpires, own_transition, PhaseInv, RefInv, ResultInv, Filling, Computing, Holds, Async
    <2>3. RefInv'
      BY <1>12, <2>1 DEF GraceExpires, own_transition, PhaseInv, RefInv, ResultInv, Filling, Computing, Holds, Async
    <2>4. ResultInv'
      BY <1>12, <2>1 DEF GraceExpires, own_transition, PhaseInv, RefInv, ResultInv, Filling, Computing, Holds, Async
    <2> QED
      BY <2>1, <2>2, <2>3, <2>4
  <1>13. CASE Poll
    <2>1. ~overlap /\ PhaseInv /\ RefInv /\ ResultInv
      BY <1>13 DEF Poll
    <2>2. PhaseInv'
      BY <1>13, <2>1 DEF Poll, PhaseInv, RefInv, ResultInv, Filling, Computing, Holds, Async
    <2>3. RefInv'
      BY <1>13, <2>1 DEF Poll, PhaseInv, RefInv, ResultInv, Filling, Computing, Holds, Async
    <2>4. ResultInv'
      BY <1>13, <2>1 DEF Poll, PhaseInv, RefInv, ResultInv, Filling, Computing, Holds, Async
    <2> QED
      BY <2>1, <2>2, <2>3, <2>4
  <1>14. CASE CallFn
    <2>1. ~overlap /\ PhaseInv /\ RefInv /\ ResultInv
      BY <1>14 DEF CallFn
    <2>2. PhaseInv'
      BY <1>14, <2>1 DEF CallFn, PhaseInv, RefInv, ResultInv, Filling, Computing, Holds, Async
    <2>3. RefInv'
      BY <1>14, <2>1 DEF CallFn, PhaseInv, RefInv, ResultInv, Filling, Computing, Holds, Async
    <2>4. ResultInv'
      BY <1>14, <2>1 DEF CallFn, PhaseInv, RefInv, ResultInv, Filling, Computing, Holds, Async
    <2> QED
      BY <2>1, <2>2, <2>3, <2>4
  <1>15. CASE LoadArg
    <2>1. ~overlap /\ PhaseInv /\ RefInv /\ ResultInv
      BY <1>15 DEF LoadArg
    <2>2. PhaseInv'
      BY <1>15, <2>1 DEF LoadArg, PhaseInv, RefInv, ResultInv, Filling, Computing, Holds, Async
    <2>3. RefInv'
      BY <1>15, <2>1 DEF LoadArg, PhaseInv, RefInv, ResultInv, Filling, Computing, Holds, Async
    <2>4. ResultInv'
      BY <1>15, <2>1 DEF LoadArg, PhaseInv, RefInv, ResultInv, Filling, Computing, Holds, Async
    <2> QED
      BY <2>1, <2>2, <2>3, <2>4
  <1>16. CASE Compute
    <2>1. ~overlap /\ PhaseInv /\ RefInv /\ ResultInv
      BY <1>16 DEF Compute
    <2>2. PhaseInv'
      BY <1>16, <2>1 DEF Compute, PhaseInv, RefInv, ResultInv, Filling, Computing, Holds, Async
    <2>3. RefInv'
      BY <1>16, <2>1 DEF Compute, PhaseInv, RefInv, ResultInv, Filling, Computing, Holds, Async
    <2>4. ResultInv'
      BY <1>16, <2>1 DEF Compute, PhaseInv, RefInv, ResultInv, Filling, Computing, Holds, Async
    <2> QED
      BY <2>1, <2>2, <2>3, <2>4
  <1>17. CASE SetByApic
    <2>1. ~overlap /\ PhaseInv /\ RefInv /\ ResultInv
      BY <1>17 DEF SetByApic
    <2>2. PhaseInv'
      BY <1>17, <2>1 DEF SetByApic, PhaseInv, RefInv, ResultInv, Filling, Computing, Holds, Async
    <2>3. RefInv'
      BY <1>17, <2>1 DEF SetByApic, PhaseInv, RefInv, ResultInv, Filling, Computing, Holds, Async
    <2>4. ResultInv'
      BY <1>17, <2>1 DEF SetByApic, PhaseInv, RefInv, ResultInv, Filling, Computing, Holds, Async
    <2> QED
      BY <2>1, <2>2, <2>3, <2>4
  <1>18. CASE Release
    <2>1. ~overlap /\ PhaseInv /\ RefInv /\ ResultInv
      BY <1>18 DEF Release
    <2>2. PhaseInv'
      BY <1>18, <2>1 DEF Release, PhaseInv, RefInv, ResultInv, Filling, Computing, Holds, Async
    <2>3. RefInv'
      BY <1>18, <2>1 DEF Release, PhaseInv, RefInv, ResultInv, Filling, Computing, Holds, Async
    <2>4. ResultInv'
      BY <1>18, <2>1 DEF Release, PhaseInv, RefInv, ResultInv, Filling, Computing, Holds, Async
    <2> QED
      BY <2>1, <2>2, <2>3, <2>4
  <1>19. CASE PutRefs
    <2>1. ~overlap /\ PhaseInv /\ RefInv /\ ResultInv
      BY <1>19 DEF PutRefs
    <2>2. PhaseInv'
      BY <1>19, <2>1 DEF PutRefs, kput, PhaseInv, RefInv, ResultInv, Filling, Computing, Holds, Async
    <2>3. RefInv'
      BY <1>19, <2>1 DEF PutRefs, kput, PhaseInv, RefInv, ResultInv, Filling, Computing, Holds, Async
    <2>4. ResultInv'
      BY <1>19, <2>1 DEF PutRefs, kput, PhaseInv, RefInv, ResultInv, Filling, Computing, Holds, Async
    <2> QED
      BY <2>1, <2>2, <2>3, <2>4
  <1>20. CASE SetDone
    <2>1. ~overlap /\ PhaseInv /\ RefInv /\ ResultInv
      BY <1>20 DEF SetDone
    <2>2. PhaseInv'
      BY <1>20, <2>1 DEF SetDone, PhaseInv, RefInv, ResultInv, Filling, Computing, Holds, Async
    <2>3. RefInv'
      BY <1>20, <2>1 DEF SetDone, PhaseInv, RefInv, ResultInv, Filling, Computing, Holds, Async
    <2>4. ResultInv'
      BY <1>20, <2>1 DEF SetDone, PhaseInv, RefInv, ResultInv, Filling, Computing, Holds, Async
    <2> QED
      BY <2>1, <2>2, <2>3, <2>4
  <1>21. CASE ClearPending
    <2>1. ~overlap /\ PhaseInv /\ RefInv /\ ResultInv
      BY <1>21 DEF ClearPending
    <2>2. PhaseInv'
      BY <1>21, <2>1 DEF ClearPending, PhaseInv, RefInv, ResultInv, Filling, Computing, Holds, Async
    <2>3. RefInv'
      BY <1>21, <2>1 DEF ClearPending, PhaseInv, RefInv, ResultInv, Filling, Computing, Holds, Async
    <2>4. ResultInv'
      BY <1>21, <2>1 DEF ClearPending, PhaseInv, RefInv, ResultInv, Filling, Computing, Holds, Async
    <2> QED
      BY <2>1, <2>2, <2>3, <2>4
  <1>22. CASE UNCHANGED ovars
    BY <1>22 DEF ovars, PhaseInv, RefInv, ResultInv, Filling, Computing, Holds, Async
  <1> QED
    BY <1>1, <1>2, <1>3, <1>4, <1>5, <1>6, <1>7, <1>8, <1>9, <1>10, <1>11, <1>12, <1>13, <1>14, <1>15, <1>16, <1>17, <1>18, <1>19, <1>20, <1>21, <1>22 DEF OffNext, Handler, Worker

\* The inductive invariant holds in every reachable state.
THEOREM OffInductive == OffSpec => []OffInv
  <1>1. OffInv /\ [OffNext]_ovars => OffInv'
    BY SlotStep, CleanStep DEF OffInv
  <1> QED
    BY OffInvInit, <1>1, PTL DEF OffSpec

\* "each buffer's refcount = (1 if handler holds) + (1 if CPU1 async)", and CPU1
\* never works on a buffer that has been freed.
THEOREM KrefExactHolds == OffSpec => []KrefExact
  <1>1. OffInv => KrefExact
    <2>1. OffInv /\ ~overlap => \A b \in Buf : ref[b] = Holds(b) + Async(b)
      BY DEF OffInv, RefInv
    <2>2. OffInv /\ ~overlap /\ At1("compute") => ref[cpu1.buf] > 0
      BY OffloadAssumption DEF OffInv, OffTypeOK, Arg, State1, PhaseInv, RefInv,
         ResultInv, Computing, Holds, Async, At1
    <2> QED
      BY <2>1, <2>2 DEF KrefExact
  <1> QED
    BY OffInductive, <1>1, PTL

\* The slot misses no job, and a result that is copied out is the product of the
\* operands of that call.
THEOREM ResultRightHolds == OffSpec => []ResultRight
  <1>1. OffInv => ResultRight
    BY DEF OffInv, PhaseInv, ResultInv, ResultRight, JobNotMissed, At0
  <1> QED
    BY OffInductive, <1>1, PTL

\* own_transition() never panics, however the jobs overlap.
THEOREM NoPanicHolds == OffSpec => []NoPanic
  <1>1. OffInv => NoPanic
    BY DEF OffInv, SlotInv, NoPanic
  <1> QED
    BY OffInductive, <1>1, PTL
=============================================================================
