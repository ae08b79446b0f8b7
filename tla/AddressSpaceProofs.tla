------------------------- MODULE AddressSpaceProofs -------------------------
(***************************************************************************)
(* For every number of CPUs, spaces, frames and pages: types are kept, the *)
(* big kernel lock admits one CPU, and the mapping target is never pulled  *)
(* from under a fork, an execve or a spawn as long as no unmarked call     *)
(* meddles.                                                                *)
(*                                                                         *)
(* The lock alone does not give TargetHeld: what is inductive is that at   *)
(* most one mapping window is open at a time, because two marked calls     *)
(* exclude each other and every other pair of windows is flagged when the  *)
(* second one opens.                                                       *)
(***************************************************************************)
EXTENDS AddressSpace, TLAPS

MarkedPc == {"own", "forkpage", "forkmap", "forkfail", "stage", "stagemap",
             "release", "unlock"}

UnmarkedPc == {"user", "cowcheck", "cowcopy", "cowunref", "settarget", "map",
               "freepage", "unmap", "restore"}

\* Which steps belong to a marked call (a teardown may be part of either kind),
\* and what an operation holds at each of them.
Fits(o) ==
    /\ o.pc \in MarkedPc => o.call \in Marked
    /\ o.pc \in UnmarkedPc => o.call \notin Marked
    /\ o.call \in Marked \/ o.pc \in UnmarkedPc \ {"user"} => o.s \in Space
    /\ o.pc \in {"forkpage", "forkmap", "forkfail", "stage", "stagemap", "teardown"}
         => o.n \in Space
    /\ o.pc \in {"forkmap", "stagemap", "cowcheck", "cowcopy", "cowunref", "settarget",
                 "map", "freepage", "unmap"} => o.v \in Page
    /\ o.pc \in {"forkmap", "stagemap", "cowcheck", "cowcopy", "cowunref", "map"}
         => o.f \in Frame
    /\ o.pc = "settarget" /\ o.call # "munmap" => o.f \in Frame

PcFits == \A c \in Cpu : Fits(op[c])

OneWindow ==
    ~h.stray => \A c, d \in Cpu : Window(op[c]) /\ Window(op[d]) => c = d

\* The part of the invariant that is about the lock and the mapping target.
LockInv == PcFits /\ BklExclusive /\ OneWindow /\ TargetHeld

-----------------------------------------------------------------------------
(* The lock and the target *)

\* A step inside an operation of CPU c, away from the lock: it stays in its
\* window and leaves the target alone, or it is outside one afterwards.
LEMMA Inside ==
    ASSUME LockInv, NEW c \in Cpu, op \in [Cpu -> Op], op' \in [Cpu -> Op],
           \A d \in Cpu \ {c} : op'[d] = op[d],
           bkl' = bkl, h'.stray = h.stray,
           op'[c].call \in Marked <=> op[c].call \in Marked,
           op[c].pc \notin {"own", "unlock"},
           op'[c].pc \notin {"own", "unlock"},
           Fits(op'[c]),
           \/ /\ Window(op[c])
              /\ Target(op'[c]) = Target(op[c])
              /\ active_pml4' = active_pml4
           \/ /\ ~Window(op'[c])
              /\ Window(op[c]) \/ active_pml4' = active_pml4
    PROVE  LockInv'
<1>1. PcFits'
  BY DEF LockInv, PcFits, Fits
<1>2. BklExclusive'
  BY DEF LockInv, BklExclusive
<1>3. OneWindow'
  BY DEF LockInv, OneWindow, Window
<1>4. TargetHeld'
  BY DEF LockInv, OneWindow, TargetHeld, TargetIsMine
<1> QED
  BY <1>1, <1>2, <1>3, <1>4 DEF LockInv

\* The holder of the lock moves on, and the lock with it.
LEMMA Holder ==
    ASSUME LockInv, NEW c \in Cpu, op[c].call \in Marked,
           \A d \in Cpu \ {c} : op'[d] = op[d],
           op'[c].call \in Marked,
           bkl' = IF op'[c].pc \in {"own", "unlock"}
                    THEN [word |-> 1, owner |-> NoCpu, depth |-> 0]
                    ELSE [word |-> 1, owner |-> c, depth |-> 1]
    PROVE  BklExclusive'
<1>1. \A d \in Cpu : op'[d].call \in Marked => d = c
  BY DEF LockInv, BklExclusive
<1> QED
  BY <1>1 DEF BklExclusive

\* What Fits() says where the operation has a page and a frame at hand.
LEMMA AtHand ==
    ASSUME NEW o, Fits(o),
           o.pc \in {"forkmap", "stagemap", "cowcheck", "cowcopy", "cowunref", "map"}
    PROVE  o.s \in Space /\ o.v \in Page /\ o.f \in Frame
  BY DEF Fits, MarkedPc, UnmarkedPc

LEMMA Building ==
    ASSUME NEW o, Fits(o),
           o.pc \in {"forkpage", "forkmap", "forkfail", "stage", "stagemap"}
    PROVE  o.call \in Marked /\ o.s \in Space /\ o.n \in Space
  BY DEF Fits, MarkedPc

-----------------------------------------------------------------------------
(* Types of the helpers *)

LEMMA TeardownOp ==
    ASSUME NEW o \in Op
    PROVE  /\ [o EXCEPT !.pc = "teardown", !.v = 1] \in Op
           /\ [o EXCEPT !.pc = "teardown", !.v = 1].pc = "teardown"
           /\ [o EXCEPT !.pc = "teardown", !.v = 1].call = o.call
           /\ [o EXCEPT !.pc = "teardown", !.v = 1].s = o.s
           /\ [o EXCEPT !.pc = "teardown", !.v = 1].n = o.n
<1>1. 1 \in 0..(NPages + 1) /\ "teardown" \in Pc
  BY MemAssumption DEF Pc
<1> QED
  BY Zenon, <1>1 DEF Op

LEMMA NoPteType == NoPte \in Pte
  BY DEF NoPte, Pte

LEMMA WritableType == \A f \in Frame : Writable(f) \in Pte
  BY DEF Writable, Pte

LEMMA IdleType == Idle \in Op
  BY MemAssumption, NoPteType DEF Idle, NewOp, Op, Table, Pc, Call

LEMMA GotoType ==
    ASSUME op \in [Cpu -> Op], NEW c \in Cpu, NEW pc \in Pc, Goto(c, pc)
    PROVE  /\ op' \in [Cpu -> Op]
           /\ \A d \in Cpu \ {c} : op'[d] = op[d]
           /\ op'[c] = [op[c] EXCEPT !.pc = pc]
  BY DEF Goto, Op

LEMMA DoneType ==
    ASSUME op \in [Cpu -> Op], NEW c \in Cpu, Done(c)
    PROVE  /\ op' \in [Cpu -> Op]
           /\ \A d \in Cpu \ {c} : op'[d] = op[d]
           /\ op'[c] = Idle
  BY IdleType DEF Done

LEMMA StartType ==
    ASSUME op \in [Cpu -> Op], NEW c \in Cpu, NEW pc \in Pc, NEW call \in Call,
           NEW s \in Table, NEW v \in 0..(NPages + 1), NEW f \in Frame \cup {NoFrame},
           Start(c, pc, call, s, v, f)
    PROVE  /\ op' \in [Cpu -> Op]
           /\ \A d \in Cpu \ {c} : op'[d] = op[d]
           /\ op'[c].pc = pc /\ op'[c].call = call /\ op'[c].s = s
<1> DEFINE o == [pc |-> pc, call |-> call, s |-> s, n |-> Kernel, v |-> v, f |-> f,
                 e |-> NoPte, saved |-> Kernel, changed |-> FALSE]
<1>1. o \in Op
  BY NoPteType DEF Op, Table
<1>2. op' = [op EXCEPT ![c] = o]
  BY DEF Start, NewOp
<1> QED
  BY <1>1, <1>2

LEMMA RefillType ==
    ASSUME NEW t \in [Page -> Pte]
    PROVE  Refill(t) \in [Page -> Frame \cup {NoFrame}]
  BY DEF Refill, Pte

LEMMA UnrefType ==
    ASSUME NEW t \in [Frame -> 0..COW_MAX_OWNERS], NEW f \in Frame
    PROVE  cow_unref(t, f) \in [Frame -> 0..COW_MAX_OWNERS]
  BY MemAssumption DEF cow_unref

LEMMA MappedType ==
    ASSUME MemTypeOK, NEW v \in Page, NEW e \in Pte
    PROVE  \A q \in Mapped(v, e) : q \in [Table -> [Page -> Pte]]
<1>1. [pt[active_pml4] EXCEPT ![v] = e] \in [Page -> Pte]
  BY DEF MemTypeOK
<1>2. [pt EXCEPT ![active_pml4][v] = e] \in [Table -> [Page -> Pte]]
  BY <1>1 DEF MemTypeOK
<1> QED
  BY Zenon, <1>2 DEF MemTypeOK, Mapped

LEMMA RetargetType ==
    ASSUME MemTypeOK, NEW c, NEW t \in Table, Retarget(c, t)
    PROVE  active_pml4' \in Table /\ h' \in History
  BY Zenon DEF MemTypeOK, Retarget, History

-----------------------------------------------------------------------------
(* Taking and giving back the lock *)

\* Winning the word excludes every other marked call.
LEMMA EnterStep ==
    ASSUME MemTypeOK, LockInv, NEW c \in Cpu, NEW s \in Space, NEW call \in Marked,
           Enter(c, s, call)
    PROVE  MemTypeOK' /\ LockInv'
<1>0. op \in [Cpu -> Op]
  BY DEF MemTypeOK
<1>1. NoFrame \in Frame \cup {NoFrame} /\ s \in Table /\ call \in Call /\ "own" \in Pc
      /\ 0 \in 0..(NPages + 1)
  BY MemAssumption DEF Table, Call, Pc, Marked
<1>2. /\ op' \in [Cpu -> Op]
      /\ \A d \in Cpu \ {c} : op'[d] = op[d]
      /\ op'[c].pc = "own" /\ op'[c].call = call /\ op'[c].s = s
  BY <1>0, <1>1, StartType DEF Enter
<1>4. \A d \in Cpu : op[d].call \notin Marked
  BY DEF Enter, LockInv, BklExclusive
<1>5. bkl' = [word |-> 1, owner |-> NoCpu, depth |-> 0]
  BY <1>4 DEF Enter, LockInv, BklExclusive, FreeLock
<1>3. bkl' \in Lock
  BY <1>5 DEF Lock
<1>6. MemTypeOK'
  BY <1>2, <1>3 DEF Enter, MemTypeOK, mem
<1>7. PcFits'
  BY <1>2 DEF LockInv, PcFits, Fits, MarkedPc, UnmarkedPc
<1>8. BklExclusive'
  BY <1>2, <1>4, <1>5 DEF BklExclusive
<1>9. OneWindow'
  BY <1>2 DEF Enter, LockInv, OneWindow, Window
<1>10. TargetHeld'
  BY <1>2 DEF Enter, LockInv, TargetHeld, TargetIsMine, Window
<1> QED
  BY <1>6, <1>7, <1>8, <1>9, <1>10 DEF LockInv

\* Giving up the ownership: the word is still held.
LEMMA ReleaseStep ==
    ASSUME MemTypeOK, LockInv, NEW c \in Cpu, Release(c)
    PROVE  MemTypeOK' /\ LockInv'
<1>1. /\ op' \in [Cpu -> Op]
      /\ \A d \in Cpu \ {c} : op'[d] = op[d]
      /\ op'[c] = [op[c] EXCEPT !.pc = "unlock"]
  BY Zenon, GotoType DEF Release, MemTypeOK, Pc
<1>2. op'[c].pc = "unlock" /\ op'[c].call = op[c].call /\ op'[c].s = op[c].s
  BY <1>1 DEF MemTypeOK, Op
<1>3. op[c].pc = "release" /\ op[c].call \in Marked /\ op[c].s \in Space
  BY DEF Release, LockInv, PcFits, Fits, MarkedPc
<1>4. bkl' = [word |-> 1, owner |-> NoCpu, depth |-> 0]
  <2>1. bkl = [word |-> 1, owner |-> c, depth |-> 1]
    BY <1>3 DEF LockInv, BklExclusive
  <2>2. bkl' = [bkl EXCEPT !.owner = NoCpu, !.depth = 0]
    BY DEF Release
  <2> QED
    BY Zenon, <2>1, <2>2
<1>5. bkl' \in Lock
  BY <1>4 DEF Lock
<1>6. MemTypeOK'
  BY <1>1, <1>5 DEF Release, MemTypeOK, mem
<1>7. PcFits'
  <2>1. Fits(op'[c])
    BY <1>2, <1>3 DEF Fits, MarkedPc, UnmarkedPc
  <2> QED
    BY <1>1, <2>1 DEF LockInv, PcFits
<1>8. BklExclusive'
  BY Zenon, <1>1, <1>2, <1>3, <1>4, Holder
<1>9. OneWindow'
  BY ZenonT(40), <1>1, <1>2 DEF Release, LockInv, OneWindow, Window
<1>10. TargetHeld'
  BY Zenon, <1>1, <1>2 DEF Release, LockInv, TargetHeld, TargetIsMine, Window
<1> QED
  BY <1>6, <1>7, <1>8, <1>9, <1>10 DEF LockInv

\* Clearing the word leaves the lock as it was before the call.
LEMMA UnlockStep ==
    ASSUME MemTypeOK, LockInv, NEW c \in Cpu, Unlock(c)
    PROVE  MemTypeOK' /\ LockInv'
<1>1. /\ op' \in [Cpu -> Op]
      /\ \A d \in Cpu \ {c} : op'[d] = op[d]
      /\ op'[c] = Idle
  BY DoneType DEF Unlock, MemTypeOK
<1>2. op'[c].pc = "user" /\ op'[c].call \notin Marked
  BY <1>1 DEF Idle, NewOp, Marked
<1>3. op[c].pc = "unlock" /\ op[c].call \in Marked
  BY DEF Unlock, LockInv, PcFits, Fits, MarkedPc
<1>4. bkl' = FreeLock
  BY <1>3 DEF Unlock, LockInv, BklExclusive, FreeLock
<1>5. bkl' \in Lock
  BY <1>4 DEF Lock, FreeLock
<1>6. MemTypeOK'
  BY <1>1, <1>5 DEF Unlock, MemTypeOK, mem
<1>7. PcFits'
  BY <1>1, <1>2 DEF LockInv, PcFits, Fits, MarkedPc, UnmarkedPc
<1>8. BklExclusive'
  BY <1>1, <1>2, <1>3, <1>4 DEF LockInv, BklExclusive
<1>9. OneWindow'
  BY <1>1, <1>2 DEF Unlock, LockInv, OneWindow, Window
<1>10. TargetHeld'
  BY <1>1, <1>2 DEF Unlock, LockInv, TargetHeld, TargetIsMine, Window
<1> QED
  BY <1>6, <1>7, <1>8, <1>9, <1>10 DEF LockInv

\* Opening a window: another one that is open is flagged, unless both belong to
\* marked calls, and the lock rules that out.
LEMMA Opening ==
    ASSUME LockInv, NEW c \in Cpu, op \in [Cpu -> Op], op' \in [Cpu -> Op],
           h \in History, NEW t, Retarget(c, t),
           \A d \in Cpu \ {c} : op'[d] = op[d],
           op'[c].call = op[c].call,
           ~Window(op[c]), Target(op'[c]) = t
    PROVE  OneWindow' /\ TargetHeld'
<1>1. ASSUME NEW d \in Cpu \ {c}, Window(op[d]), ~h'.stray
      PROVE  FALSE
  <2>1. op[c].call \in Marked /\ op[d].call \in Marked
    BY ZenonT(40), <1>1 DEF Retarget, History
  <2> QED
    BY <2>1 DEF LockInv, BklExclusive
<1>2. OneWindow'
  BY <1>1 DEF OneWindow
<1>3. TargetHeld'
  BY <1>1 DEF Retarget, TargetHeld, TargetIsMine
<1> QED
  BY <1>2, <1>3

LEMMA BeginStep ==
    ASSUME MemTypeOK, LockInv, NEW c \in Cpu, Begin(c)
    PROVE  MemTypeOK' /\ LockInv'
<1>1. op[c].pc = "own" /\ op[c].call \in Marked /\ op[c].s \in Space /\ ~Window(op[c])
  BY Zenon DEF Begin, LockInv, PcFits, Fits, MarkedPc, Window
<1>2. bkl' = [word |-> 1, owner |-> c, depth |-> 1]
  <2>1. bkl = [word |-> 1, owner |-> NoCpu, depth |-> 0]
    BY <1>1 DEF LockInv, BklExclusive
  <2>2. bkl' = [bkl EXCEPT !.owner = c, !.depth = 1]
    BY Zenon DEF Begin
  <2> QED
    BY Zenon, <2>1, <2>2
<1>3. bkl' \in Lock
  BY <1>2 DEF Lock
<1>4. CASE Goto(c, "release") /\ UNCHANGED <<active_pml4, status, h>>
  <2>1. /\ op' \in [Cpu -> Op]
        /\ \A d \in Cpu \ {c} : op'[d] = op[d]
        /\ op'[c] = [op[c] EXCEPT !.pc = "release"]
    BY Zenon, <1>4, GotoType DEF MemTypeOK, Pc
  <2>2. op'[c].pc = "release" /\ op'[c].call = op[c].call /\ op'[c].s = op[c].s
    BY <2>1 DEF MemTypeOK, Op
  <2>3. MemTypeOK'
    BY Zenon, <1>3, <1>4, <2>1 DEF Begin, MemTypeOK, mem
  <2>4. PcFits'
    <3>1. Fits(op'[c])
      BY <1>1, <2>2 DEF Fits, MarkedPc, UnmarkedPc
    <3> QED
      BY <2>1, <3>1 DEF LockInv, PcFits
  <2>6. BklExclusive'
    BY Zenon, <1>1, <1>2, <2>1, <2>2, Holder
  <2>5. OneWindow' /\ TargetHeld'
    BY ZenonT(40), <1>1, <1>4, <2>1, <2>2
       DEF LockInv, OneWindow, TargetHeld, TargetIsMine, Window
  <2> QED
    BY <2>3, <2>4, <2>5, <2>6 DEF LockInv
<1>5. ASSUME NEW n \in Space, status' = [status EXCEPT ![n] = "built"], Retarget(c, n),
             op' = [op EXCEPT ![c].n = n, ![c].v = 1,
                      ![c].pc = IF op[c].call = "fork" THEN "forkpage" ELSE "stage",
                      ![c].saved = IF op[c].call = "execve" THEN active_pml4 ELSE Kernel]
      PROVE  MemTypeOK' /\ LockInv'
  <2> DEFINE pc == IF op[c].call = "fork" THEN "forkpage" ELSE "stage"
             saved == IF op[c].call = "execve" THEN active_pml4 ELSE Kernel
             o == [op[c] EXCEPT !.n = n, !.v = 1, !.pc = pc, !.saved = saved]
  <2>0. /\ o \in Op
        /\ o.pc = pc /\ o.call = op[c].call /\ o.n = n /\ o.s = op[c].s
    <3>1. pc \in Pc /\ saved \in Table /\ n \in Table /\ 1 \in 0..(NPages + 1) /\ op[c] \in Op
      BY MemAssumption DEF Pc, Table, MemTypeOK
    <3> HIDE DEF pc, saved
    <3> QED
      BY Zenon, <3>1 DEF Op
  <2>1. /\ op' \in [Cpu -> Op]
        /\ \A d \in Cpu \ {c} : op'[d] = op[d]
        /\ op'[c].pc \in {"forkpage", "stage"} /\ op'[c].call = op[c].call
        /\ op'[c].n = n /\ op'[c].s = op[c].s
    <3>1. op' = [op EXCEPT ![c] = o]
      BY Zenon, <1>5
    <3> HIDE DEF o
    <3>2. op' \in [Cpu -> Op] /\ (\A d \in Cpu \ {c} : op'[d] = op[d]) /\ op'[c] = o
      BY <2>0, <3>1 DEF MemTypeOK
    <3> QED
      BY <2>0, <3>2
  <2>2. active_pml4' \in Table /\ h' \in History
    BY <1>5, RetargetType DEF Table
  <2>3. MemTypeOK'
    BY Zenon, <1>3, <1>5, <2>1, <2>2 DEF Begin, MemTypeOK, mem
  <2>4. PcFits'
    <3>1. Fits(op'[c])
      BY <1>1, <2>1 DEF Fits, MarkedPc, UnmarkedPc
    <3> QED
      BY <2>1, <3>1 DEF LockInv, PcFits
  <2>6. BklExclusive'
    BY <1>1, <1>2, <2>1, Holder
  <2>5. OneWindow' /\ TargetHeld'
    BY <1>1, <1>5, <2>1, Opening DEF MemTypeOK, Target
  <2> QED
    BY <2>3, <2>4, <2>5, <2>6 DEF LockInv
<1> QED
  BY Zenon, <1>4, <1>5 DEF Begin

-----------------------------------------------------------------------------
(* fork *)

LEMMA OpUpdate ==
    ASSUME op \in [Cpu -> Op], NEW c \in Cpu, NEW o \in Op, op' = [op EXCEPT ![c] = o]
    PROVE  op' \in [Cpu -> Op] /\ (\A d \in Cpu \ {c} : op'[d] = op[d]) /\ op'[c] = o
  OBVIOUS

\* The walk shares a page or copies it.
LEMMA ForkPageStep ==
    ASSUME MemTypeOK, LockInv, NEW c \in Cpu, ForkPage(c)
    PROVE  MemTypeOK' /\ LockInv'
<1> DEFINE o == op[c]
           v == Walk(Present(o.s), o.v)
           e == pt[o.s][v]
<1>1. o \in Op /\ o.pc = "forkpage" /\ v \in Page /\ e.f # NoFrame
      /\ o.call \in Marked /\ o.s \in Space /\ o.n \in Space
  BY Zenon DEF ForkPage, Present, MemTypeOK, LockInv, PcFits, Fits, MarkedPc
<1> HIDE DEF v
<1>2. o.s \in Table /\ pt[o.s] \in [Page -> Pte] /\ e \in Pte /\ e.f \in Frame \cup {NoFrame}
  BY <1>1 DEF MemTypeOK, Op, Pte
<1>3. v \in 0..(NPages + 1)
  BY <1>1, MemAssumption DEF Page
<1>4. e.f \in Frame
  BY <1>1, <1>2
<1>5. CASE ShareFrame(c, v)
  <2> DEFINE n == [o EXCEPT !.pc = "forkmap", !.v = v, !.e = e, !.f = e.f,
                            !.changed = @ \/ e.w]
  <2>1. /\ n \in Op /\ n.pc = "forkmap" /\ n.call = o.call /\ n.s = o.s /\ n.n = o.n
        /\ n.v = v /\ n.f = e.f
    BY ZenonT(40), <1>1, <1>2, <1>3 DEF Op, Pc, Pte
  <2>2. op' = [op EXCEPT ![c] = n]
    BY Zenon, <1>5 DEF ShareFrame
  <2> HIDE DEF n
  <2>3. op' \in [Cpu -> Op] /\ (\A d \in Cpu \ {c} : op'[d] = op[d]) /\ op'[c] = n
    BY <2>1, <2>2, OpUpdate DEF MemTypeOK
  <2>4. cow_table' \in [Frame -> 0..COW_MAX_OWNERS]
    <3>1. /\ cow_table[e.f] < COW_MAX_OWNERS
          /\ cow_table' = [cow_table EXCEPT ![e.f] = cow_table[e.f] + 1]
      BY Zenon, <1>5 DEF ShareFrame
    <3>2. cow_table \in [Frame -> 0..COW_MAX_OWNERS]
      BY Zenon DEF MemTypeOK
    <3> HIDE DEF e
    <3>3. cow_table[e.f] + 1 \in 0..COW_MAX_OWNERS
      BY <1>4, <3>1, <3>2, MemAssumption
    <3> QED
      BY <1>4, <3>1, <3>2, <3>3
  <2>5. pt' \in [Table -> [Page -> Pte]]
    <3>1. [e EXCEPT !.w = FALSE, !.cow = TRUE] \in Pte
      BY Zenon, <1>2 DEF Pte
    <3>2. [pt[o.s] EXCEPT ![v] = [e EXCEPT !.w = FALSE, !.cow = TRUE]] \in [Page -> Pte]
      BY <1>1, <1>2, <3>1
    <3> QED
      BY <1>2, <1>5, <3>2 DEF ShareFrame, MemTypeOK
  <2>6. MemTypeOK'
    BY Zenon, <1>5, <2>3, <2>4, <2>5 DEF ForkPage, ShareFrame, MemTypeOK, v
  <2>7. Fits(n)
    BY <1>1, <1>4, <2>1 DEF Fits, MarkedPc, UnmarkedPc
  <2>8. LockInv'
    BY <1>1, <2>1, <2>3, <2>7, Inside DEF ForkPage, MemTypeOK, Window, Target
  <2> QED
    BY <2>6, <2>8
<1>6. CASE CopyFrame(c, v)
  <2>1. ASSUME NEW f \in free, free' = free \ {f},
               op' = [op EXCEPT ![c].pc = "forkmap", ![c].v = v, ![c].e = e, ![c].f = f]
        PROVE  MemTypeOK' /\ LockInv'
    <3> DEFINE n == [o EXCEPT !.pc = "forkmap", !.v = v, !.e = e, !.f = f]
    <3>1. /\ n \in Op /\ n.pc = "forkmap" /\ n.call = o.call /\ n.s = o.s /\ n.n = o.n
          /\ n.v = v /\ n.f = f
      BY Zenon, <1>1, <1>2, <1>3 DEF MemTypeOK, Op, Pc
    <3>2. op' = [op EXCEPT ![c] = n]
      BY ZenonT(40), <2>1
    <3> HIDE DEF n
    <3>3. op' \in [Cpu -> Op] /\ (\A d \in Cpu \ {c} : op'[d] = op[d]) /\ op'[c] = n
      BY <3>1, <3>2, OpUpdate DEF MemTypeOK
    <3>4. MemTypeOK'
      BY Zenon, <1>6, <2>1, <3>3 DEF ForkPage, CopyFrame, MemTypeOK
    <3>5. Fits(n)
      BY <1>1, <3>1 DEF Fits, MarkedPc, UnmarkedPc, MemTypeOK
    <3>6. LockInv'
      BY Zenon, <1>1, <3>1, <3>3, <3>5, Inside DEF ForkPage, MemTypeOK, Window, Target
    <3> QED
      BY <3>4, <3>6
  <2>2. ASSUME Goto(c, "forkfail"), UNCHANGED free
        PROVE  MemTypeOK' /\ LockInv'
    <3>1. /\ op' \in [Cpu -> Op]
          /\ \A d \in Cpu \ {c} : op'[d] = op[d]
          /\ op'[c] = [o EXCEPT !.pc = "forkfail"]
      BY Zenon, <2>2, GotoType DEF MemTypeOK, Pc
    <3>2. op'[c].pc = "forkfail" /\ op'[c].call = o.call /\ op'[c].s = o.s /\ op'[c].n = o.n
      BY <1>1, <3>1 DEF Op
    <3>3. MemTypeOK'
      BY Zenon, <1>6, <2>2, <3>1 DEF ForkPage, CopyFrame, MemTypeOK
    <3>4. Fits(op'[c])
      BY <1>1, <3>2 DEF Fits, MarkedPc, UnmarkedPc
    <3>5. LockInv'
      BY Zenon, <1>1, <3>1, <3>2, <3>4, Inside DEF ForkPage, MemTypeOK, Window, Target
    <3> QED
      BY <3>3, <3>5
  <2> QED
    BY <1>6, <2>1, <2>2 DEF CopyFrame
<1> QED
  BY <1>5, <1>6 DEF ForkPage, v

\* The child's entry is checked; a failure is undone.
LEMMA ForkMapStep ==
    ASSUME MemTypeOK, LockInv, NEW c \in Cpu, ForkMap(c)
    PROVE  MemTypeOK' /\ LockInv'
<1> DEFINE o == op[c]
<1>0. o \in Op /\ o.pc = "forkmap" /\ Fits(o)
  BY DEF ForkMap, MemTypeOK, LockInv, PcFits
<1>1. /\ o \in Op /\ o.pc = "forkmap" /\ o.v \in Page /\ o.f \in Frame
      /\ o.call \in Marked /\ o.s \in Space /\ o.n \in Space
  BY <1>0, AtHand, Building
<1>2. ChildPte(o) \in Pte
  BY <1>1 DEF ChildPte, Op, Pte
<1>3. PICK q \in Mapped(o.v, ChildPte(o)) :
         \/ /\ q[o.n][o.v].f # NoFrame
            /\ pt' = q
            /\ op' = [op EXCEPT ![c].pc = "forkpage", ![c].v = @ + 1]
            /\ UNCHANGED <<cow_table, free>>
         \/ /\ q[o.n][o.v].f = NoFrame
            /\ IF o.f = o.e.f
                 THEN /\ cow_table' = cow_unref(cow_table, o.f)
                      /\ pt' = [q EXCEPT ![o.s][o.v] = o.e]
                      /\ free' = free
                 ELSE /\ free' = free \cup {o.f}
                      /\ pt' = q
                      /\ cow_table' = cow_table
            /\ Goto(c, "forkfail")
  BY Zenon DEF ForkMap
<1>4. q \in [Table -> [Page -> Pte]]
  BY <1>1, <1>2, MappedType
<1>5. CASE /\ pt' = q
           /\ op' = [op EXCEPT ![c].pc = "forkpage", ![c].v = @ + 1]
           /\ UNCHANGED <<cow_table, free>>
  <2> DEFINE w == o.v + 1
             n == [o EXCEPT !.pc = "forkpage", !.v = w]
  <2>1. w \in 0..(NPages + 1)
    BY <1>1, MemAssumption DEF Page
  <2>2. op' = [op EXCEPT ![c] = n]
    BY Zenon, <1>5
  <2> HIDE DEF w
  <2>3. /\ n \in Op /\ n.pc = "forkpage" /\ n.call = o.call /\ n.s = o.s /\ n.n = o.n
    BY Zenon, <1>1, <2>1 DEF Op, Pc
  <2> HIDE DEF n
  <2>4. op' \in [Cpu -> Op] /\ (\A d \in Cpu \ {c} : op'[d] = op[d]) /\ op'[c] = n
    BY <2>2, <2>3, OpUpdate DEF MemTypeOK
  <2>5. MemTypeOK'
    BY <1>4, <1>5, <2>4 DEF ForkMap, MemTypeOK
  <2>6. Fits(n)
    BY <1>1, <2>3 DEF Fits, MarkedPc, UnmarkedPc
  <2>7. LockInv'
    BY Zenon, <1>1, <2>3, <2>4, <2>6, Inside DEF ForkMap, MemTypeOK, Window, Target
  <2> QED
    BY <2>5, <2>7
<1>6. CASE /\ IF o.f = o.e.f
                THEN /\ cow_table' = cow_unref(cow_table, o.f)
                     /\ pt' = [q EXCEPT ![o.s][o.v] = o.e]
                     /\ free' = free
                ELSE /\ free' = free \cup {o.f}
                     /\ pt' = q
                     /\ cow_table' = cow_table
           /\ Goto(c, "forkfail")
  <2>1. /\ op' \in [Cpu -> Op]
        /\ \A d \in Cpu \ {c} : op'[d] = op[d]
        /\ op'[c] = [o EXCEPT !.pc = "forkfail"]
    BY Zenon, <1>6, GotoType DEF MemTypeOK, Pc
  <2>2. op'[c].pc = "forkfail" /\ op'[c].call = o.call /\ op'[c].s = o.s /\ op'[c].n = o.n
    BY <1>1, <2>1 DEF Op
  <2>3. cow_table' \in [Frame -> 0..COW_MAX_OWNERS]
    BY <1>1, <1>6, UnrefType DEF MemTypeOK
  <2>4. pt' \in [Table -> [Page -> Pte]]
    <3>1. o.s \in Table /\ o.e \in Pte
      BY <1>1 DEF Op
    <3>2. [q[o.s] EXCEPT ![o.v] = o.e] \in [Page -> Pte]
      BY <1>1, <1>4, <3>1
    <3> QED
      BY <1>4, <1>6, <3>1, <3>2
  <2>5. free' \subseteq Frame
    BY <1>1, <1>6 DEF MemTypeOK
  <2>6. MemTypeOK'
    BY <2>1, <2>3, <2>4, <2>5 DEF ForkMap, MemTypeOK
  <2>7. Fits(op'[c])
    BY <1>1, <2>2 DEF Fits, MarkedPc, UnmarkedPc
  <2>8. LockInv'
    BY Zenon, <1>1, <2>1, <2>2, <2>7, Inside DEF ForkMap, MemTypeOK, Window, Target
  <2> QED
    BY <2>6, <2>8
<1> QED
  BY <1>3, <1>5, <1>6

LEMMA FlushType ==
    ASSUME MemTypeOK, NEW o, o.s \in Space
    PROVE  FlushParent(o) \in [Space -> [Page -> Frame \cup {NoFrame}]]
<1>1. pt[o.s] \in [Page -> Pte]
  BY DEF MemTypeOK, Table
<1> QED
  BY <1>1, RefillType DEF FlushParent, MemTypeOK

\* Leaving the window for a teardown: fork, its failure, a failed load.
LEMMA TearDown ==
    ASSUME op \in [Cpu -> Op], LockInv, NEW c \in Cpu, NEW x \in Op,
           op[c].pc \in {"forkpage", "forkfail", "stage", "stagemap"},
           op' = [op EXCEPT ![c] = x],
           x.pc = "teardown", x.call = op[c].call, x.s = op[c].s, x.n \in Space,
           bkl' = bkl, h'.stray = h.stray
    PROVE  op' \in [Cpu -> Op] /\ LockInv'
<1>1. Window(op[c])
  BY DEF Window
<1>2. op[c].call \in Marked /\ op[c].s \in Space
  BY DEF LockInv, PcFits, Fits, MarkedPc
<1>3. op' \in [Cpu -> Op] /\ (\A d \in Cpu \ {c} : op'[d] = op[d]) /\ op'[c] = x
  BY OpUpdate
<1>4. Fits(x)
  BY <1>2 DEF Fits, MarkedPc, UnmarkedPc
<1>5. ~Window(x)
  BY DEF Window
<1>6. LockInv'
  BY <1>1, <1>3, <1>4, <1>5, Inside
<1> QED
  BY <1>3, <1>6

LEMMA ForkFailStep ==
    ASSUME MemTypeOK, LockInv, NEW c \in Cpu, ForkFail(c)
    PROVE  MemTypeOK' /\ LockInv'
<1> DEFINE o == op[c]
           x == [o EXCEPT !.pc = "teardown", !.v = 1]
<1>0. o \in Op /\ o.pc = "forkfail" /\ Fits(o)
  BY DEF ForkFail, MemTypeOK, LockInv, PcFits
<1>1. o.s \in Space /\ o.n \in Space
  BY <1>0, Building
<1>2. x \in Op /\ x.pc = "teardown" /\ x.call = o.call /\ x.s = o.s /\ x.n = o.n
  BY Zenon, <1>0, TeardownOp
<1>3. op' = [op EXCEPT ![c] = x]
  BY Zenon DEF ForkFail
<1> HIDE DEF x
<1>4. op' \in [Cpu -> Op] /\ LockInv'
  BY ZenonT(40), <1>0, <1>1, <1>2, <1>3, TearDown DEF ForkFail, MemTypeOK
<1>5. tlb' \in [Space -> [Page -> Frame \cup {NoFrame}]]
  BY <1>1, FlushType DEF ForkFail
<1>6. status' \in [Space -> {"free", "built", "live", "dead", "dying"}]
  BY Zenon DEF ForkFail, MemTypeOK
<1>7. MemTypeOK'
  BY <1>4, <1>5, <1>6 DEF ForkFail, MemTypeOK, Table
<1> QED
  BY <1>4, <1>7

\* The child goes on the run queue, or is taken down again.
LEMMA ForkDoneStep ==
    ASSUME MemTypeOK, LockInv, NEW c \in Cpu, ForkDone(c)
    PROVE  MemTypeOK' /\ LockInv'
<1> DEFINE o == op[c]
           x == [o EXCEPT !.pc = "teardown", !.v = 1]
<1>0. o \in Op /\ o.pc = "forkpage" /\ Fits(o)
  BY DEF ForkDone, MemTypeOK, LockInv, PcFits
<1>1. o.s \in Space /\ o.n \in Space /\ o.call \in Marked
  BY <1>0 DEF Fits, MarkedPc
<1>2. FlushParent(o) \in [Space -> [Page -> Frame \cup {NoFrame}]]
  BY <1>1, FlushType
<1>3. Refill(pt[o.n]) \in [Page -> Frame \cup {NoFrame}]
  BY <1>1, RefillType DEF MemTypeOK, Table
<1>4. CASE /\ status' = [status EXCEPT ![o.n] = "live"]
           /\ tlb' = [FlushParent(o) EXCEPT ![o.n] = Refill(pt[o.n])]
           /\ home' = [home EXCEPT ![o.n] = c]
           /\ Goto(c, "release")
  <2>1. /\ op' \in [Cpu -> Op]
        /\ \A d \in Cpu \ {c} : op'[d] = op[d]
        /\ op'[c] = [o EXCEPT !.pc = "release"]
    BY Zenon, <1>4, GotoType DEF MemTypeOK, Pc
  <2>2. op'[c].pc = "release" /\ op'[c].call = o.call /\ op'[c].s = o.s
    BY <1>0, <2>1 DEF Op
  <2>3. tlb' \in [Space -> [Page -> Frame \cup {NoFrame}]]
    BY <1>1, <1>2, <1>3, <1>4
  <2>4. status' \in [Space -> {"free", "built", "live", "dead", "dying"}]
        /\ home' \in [Space -> Cpu]
    BY Zenon, <1>4 DEF MemTypeOK
  <2>5. MemTypeOK'
    BY <2>1, <2>3, <2>4 DEF ForkDone, MemTypeOK, Table
  <2>6. Fits(op'[c])
    BY <1>1, <2>2 DEF Fits, MarkedPc, UnmarkedPc
  <2>7. Window(o) /\ ~Window(op'[c])
    BY <1>0, <2>2 DEF Window
  <2>8. LockInv'
    BY Zenon, <1>0, <1>1, <2>1, <2>2, <2>6, <2>7, Inside DEF ForkDone, MemTypeOK
  <2> QED
    BY <2>5, <2>8
<1>5. CASE /\ status' = [status EXCEPT ![o.n] = "dying"]
           /\ tlb' = FlushParent(o)
           /\ op' = [op EXCEPT ![c].pc = "teardown", ![c].v = 1]
           /\ UNCHANGED home
  <2>1. x \in Op /\ x.pc = "teardown" /\ x.call = o.call /\ x.s = o.s /\ x.n = o.n
    BY Zenon, <1>0, TeardownOp
  <2>2. op' = [op EXCEPT ![c] = x]
    BY Zenon, <1>5
  <2> HIDE DEF x
  <2>3. op' \in [Cpu -> Op] /\ LockInv'
    BY Zenon, <1>0, <1>1, <2>1, <2>2, TearDown DEF ForkDone, MemTypeOK
  <2>4. status' \in [Space -> {"free", "built", "live", "dead", "dying"}]
    BY Zenon, <1>5 DEF MemTypeOK
  <2>5. MemTypeOK'
    BY <1>2, <1>5, <2>3, <2>4 DEF ForkDone, MemTypeOK, Table
  <2> QED
    BY <2>3, <2>5
<1> QED
  BY <1>4, <1>5 DEF ForkDone

-----------------------------------------------------------------------------
(* The ELF loader *)

LEMMA StageFailsStep ==
    ASSUME MemTypeOK, LockInv, NEW c \in Cpu, StageFails(c, op[c]), Fits(op[c]),
           op[c].pc \in {"stage", "stagemap"}, bkl' = bkl, h'.stray = h.stray
    PROVE  /\ op' \in [Cpu -> Op] /\ LockInv'
           /\ active_pml4' \in Table
           /\ status' \in [Space -> {"free", "built", "live", "dead", "dying"}]
<1> DEFINE o == op[c]
           x == [o EXCEPT !.pc = "teardown", !.v = 1]
<1>1. o \in Op /\ o.n \in Space /\ op \in [Cpu -> Op]
  BY Building DEF MemTypeOK
<1>2. x \in Op /\ x.pc = "teardown" /\ x.call = o.call /\ x.s = o.s /\ x.n = o.n
  BY Zenon, <1>1, TeardownOp
<1>3. op' = [op EXCEPT ![c] = x]
  BY Zenon DEF StageFails
<1> HIDE DEF x
<1>4. op' \in [Cpu -> Op] /\ LockInv'
  BY Zenon, <1>1, <1>2, <1>3, TearDown
<1>5. active_pml4' \in Table
  BY <1>1 DEF StageFails, Op
<1>6. status' \in [Space -> {"free", "built", "live", "dead", "dying"}]
  BY Zenon DEF StageFails, MemTypeOK
<1> QED
  BY <1>4, <1>5, <1>6

LEMMA StageStep ==
    ASSUME MemTypeOK, LockInv, NEW c \in Cpu, Stage(c)
    PROVE  MemTypeOK' /\ LockInv'
<1> DEFINE o == op[c]
           v == Walk(Eager, o.v)
<1>0. o \in Op /\ o.pc = "stage" /\ Fits(o)
  BY DEF Stage, MemTypeOK, LockInv, PcFits
<1>1. o.call \in Marked /\ o.s \in Space /\ o.n \in Space
  BY <1>0, Building
<1>2. v \in Page /\ v \in 0..(NPages + 1)
  BY MemAssumption DEF Stage, Page
<1> HIDE DEF v
<1>3. ASSUME NEW f \in free, free' = free \ {f}, UNCHANGED <<active_pml4, status>>,
             op' = [op EXCEPT ![c].pc = "stagemap", ![c].v = v, ![c].f = f]
      PROVE  MemTypeOK' /\ LockInv'
  <2> DEFINE x == [o EXCEPT !.pc = "stagemap", !.v = v, !.f = f]
  <2>1. f \in Frame
    BY <1>3 DEF MemTypeOK
  <2>2. /\ x \in Op /\ x.pc = "stagemap" /\ x.call = o.call /\ x.s = o.s /\ x.n = o.n
        /\ x.v = v /\ x.f = f
    BY Zenon, <1>0, <1>2, <2>1 DEF Op, Pc
  <2>3. op' = [op EXCEPT ![c] = x]
    BY Zenon, <1>3
  <2> HIDE DEF x
  <2>4. op' \in [Cpu -> Op] /\ (\A d \in Cpu \ {c} : op'[d] = op[d]) /\ op'[c] = x
    BY <2>2, <2>3, OpUpdate DEF MemTypeOK
  <2>5. MemTypeOK'
    BY Zenon, <1>3, <2>4 DEF Stage, MemTypeOK
  <2>6. Fits(x)
    BY <1>1, <1>2, <2>1, <2>2 DEF Fits, MarkedPc, UnmarkedPc
  <2>7. Window(o) /\ Target(x) = Target(o)
    BY <1>0, <2>2 DEF Window, Target
  <2>8. LockInv'
    <3>1. bkl' = bkl /\ h' = h /\ op \in [Cpu -> Op] /\ active_pml4' = active_pml4
      BY Zenon, <1>3 DEF Stage, MemTypeOK
    <3> QED
      BY <1>0, <1>1, <2>2, <2>4, <2>6, <2>7, <3>1, Inside
  <2> QED
    BY <2>5, <2>8
<1>4. ASSUME StageFails(c, o), UNCHANGED free
      PROVE  MemTypeOK' /\ LockInv'
  <2>1. bkl' = bkl /\ h' = h
    BY DEF Stage
  <2>2. /\ op' \in [Cpu -> Op] /\ LockInv'
        /\ active_pml4' \in Table
        /\ status' \in [Space -> {"free", "built", "live", "dead", "dying"}]
    BY <1>0, <1>4, <2>1, StageFailsStep
  <2> QED
    BY <1>4, <2>2 DEF Stage, MemTypeOK
<1> QED
  BY <1>3, <1>4 DEF Stage, v

LEMMA StageMapStep ==
    ASSUME MemTypeOK, LockInv, NEW c \in Cpu, StageMap(c)
    PROVE  MemTypeOK' /\ LockInv'
<1> DEFINE o == op[c]
<1>0. o \in Op /\ o.pc = "stagemap" /\ Fits(o)
  BY DEF StageMap, MemTypeOK, LockInv, PcFits
<1>1. o.call \in Marked /\ o.s \in Space /\ o.n \in Space /\ o.v \in Page /\ o.f \in Frame
  BY <1>0, Building, AtHand
<1>2. pt' \in [Table -> [Page -> Pte]]
  BY <1>1, MappedType, WritableType DEF StageMap
<1>3. CASE /\ op' = [op EXCEPT ![c].pc = "stage", ![c].v = @ + 1]
           /\ UNCHANGED <<active_pml4, status, h>>
  <2> DEFINE w == o.v + 1
             x == [o EXCEPT !.pc = "stage", !.v = w]
  <2>1. w \in 0..(NPages + 1)
    BY <1>1, MemAssumption DEF Page
  <2>2. op' = [op EXCEPT ![c] = x]
    BY Zenon, <1>3
  <2> HIDE DEF w
  <2>3. x \in Op /\ x.pc = "stage" /\ x.call = o.call /\ x.s = o.s /\ x.n = o.n
    BY Zenon, <1>0, <2>1 DEF Op, Pc
  <2> HIDE DEF x
  <2>4. op' \in [Cpu -> Op] /\ (\A d \in Cpu \ {c} : op'[d] = op[d]) /\ op'[c] = x
    BY <2>2, <2>3, OpUpdate DEF MemTypeOK
  <2>5. MemTypeOK'
    BY <1>2, <1>3, <2>4 DEF StageMap, MemTypeOK
  <2>6. Fits(x)
    BY <1>1, <2>3 DEF Fits, MarkedPc, UnmarkedPc
  <2>7. Window(o) /\ Target(x) = Target(o)
    BY <1>0, <2>3 DEF Window, Target
  <2>8. LockInv'
    BY Zenon, <1>0, <1>1, <1>3, <2>3, <2>4, <2>6, <2>7, Inside DEF StageMap, MemTypeOK
  <2> QED
    BY <2>5, <2>8
<1>4. CASE /\ StageFails(c, o)
           /\ h' = [h EXCEPT !.lost = @ \cup {o.f}]
  <2>1. bkl' = bkl /\ h' \in History /\ h'.stray = h.stray
    BY Zenon, <1>1, <1>4 DEF StageMap, MemTypeOK, History
  <2>2. /\ op' \in [Cpu -> Op] /\ LockInv'
        /\ active_pml4' \in Table
        /\ status' \in [Space -> {"free", "built", "live", "dead", "dying"}]
    BY <1>0, <1>4, <2>1, StageFailsStep
  <2> QED
    BY <1>2, <2>1, <2>2 DEF StageMap, MemTypeOK
<1> QED
  BY <1>3, <1>4 DEF StageMap

\* The new space goes live; execve takes the old one down.
LEMMA StagedStep ==
    ASSUME MemTypeOK, LockInv, NEW c \in Cpu, Staged(c)
    PROVE  MemTypeOK' /\ LockInv'
<1> DEFINE o == op[c]
<1>0. o \in Op /\ o.pc = "stage" /\ Fits(o)
  BY DEF Staged, MemTypeOK, LockInv, PcFits
<1>1. o.call \in Marked /\ o.s \in Space /\ o.n \in Space
  BY <1>0, Building
<1>2. active_pml4' \in Table
  BY <1>0 DEF Staged, Op
<1>3. tlb' \in [Space -> [Page -> Frame \cup {NoFrame}]]
  <2>1. Refill(pt[o.n]) \in [Page -> Frame \cup {NoFrame}]
    BY <1>1, RefillType DEF MemTypeOK, Table
  <2> QED
    BY <1>1, <2>1 DEF Staged, MemTypeOK
<1>4. CASE /\ status' = [status EXCEPT ![o.n] = "live"]
           /\ \/ home' = [home EXCEPT ![o.n] = c] /\ batch' = batch
              \/ home' = [home EXCEPT ![o.n] = Worker] /\ batch' = batch \cup {o.n}
           /\ Goto(c, "release")
  <2>1. /\ op' \in [Cpu -> Op]
        /\ \A d \in Cpu \ {c} : op'[d] = op[d]
        /\ op'[c] = [o EXCEPT !.pc = "release"]
    BY Zenon, <1>4, GotoType DEF MemTypeOK, Pc
  <2>2. op'[c].pc = "release" /\ op'[c].call = o.call /\ op'[c].s = o.s
    BY <1>0, <2>1 DEF Op
  <2>3. /\ status' \in [Space -> {"free", "built", "live", "dead", "dying"}]
        /\ home' \in [Space -> Cpu]
        /\ batch' \subseteq Space
    BY <1>1, <1>4, MemAssumption DEF MemTypeOK
  <2>4. MemTypeOK'
    BY <1>2, <1>3, <2>1, <2>3 DEF Staged, MemTypeOK
  <2>5. Fits(op'[c])
    BY <1>1, <2>2 DEF Fits, MarkedPc, UnmarkedPc
  <2>6. Window(o) /\ ~Window(op'[c])
    BY <1>0, <2>2 DEF Window
  <2>7. LockInv'
    BY Zenon, <1>0, <1>1, <2>1, <2>2, <2>5, <2>6, Inside DEF Staged, MemTypeOK
  <2> QED
    BY <2>4, <2>7
<1>5. CASE /\ status' = [status EXCEPT ![o.n] = "live", ![o.s] = "dying"]
           /\ home' = [home EXCEPT ![o.n] = c]
           /\ batch' = IF o.s \in batch THEN batch \cup {o.n} ELSE batch
           /\ op' = [op EXCEPT ![c].pc = "teardown", ![c].v = 1, ![c].n = o.s]
  <2> DEFINE x == [o EXCEPT !.pc = "teardown", !.v = 1, !.n = o.s]
  <2>1. x \in Op /\ x.pc = "teardown" /\ x.call = o.call /\ x.s = o.s /\ x.n \in Space
    <3>1. 1 \in 0..(NPages + 1) /\ "teardown" \in Pc /\ o.s \in Table
      BY <1>1, MemAssumption DEF Pc, Table
    <3> QED
      BY Zenon, <1>0, <1>1, <3>1 DEF Op
  <2>2. op' = [op EXCEPT ![c] = x]
    BY Zenon, <1>5
  <2> HIDE DEF x
  <2>3. op' \in [Cpu -> Op] /\ LockInv'
    BY Zenon, <1>0, <2>1, <2>2, TearDown DEF Staged, MemTypeOK
  <2>4. /\ status' \in [Space -> {"free", "built", "live", "dead", "dying"}]
        /\ home' \in [Space -> Cpu]
        /\ batch' \subseteq Space
    BY Zenon, <1>1, <1>5 DEF MemTypeOK
  <2>5. MemTypeOK'
    BY <1>2, <1>3, <2>3, <2>4 DEF Staged, MemTypeOK
  <2> QED
    BY <2>3, <2>5
<1> QED
  BY <1>4, <1>5 DEF Staged

-----------------------------------------------------------------------------
(* Exit, reaping, teardown *)

\* A step that moves no operation and touches neither the lock nor the target.
LEMMA Aside ==
    ASSUME LockInv, UNCHANGED <<op, bkl, active_pml4, h>>
    PROVE  LockInv'
  BY DEF LockInv, PcFits, BklExclusive, OneWindow, TargetHeld, TargetIsMine

\* A CPU at user code starts an operation outside the lock, or ends one.
LEMMA Unmarked ==
    ASSUME LockInv, NEW c \in Cpu, op \in [Cpu -> Op], op' \in [Cpu -> Op],
           \A d \in Cpu \ {c} : op'[d] = op[d],
           op[c].call \notin Marked, op'[c].call \notin Marked,
           ~Window(op'[c]), Fits(op'[c]),
           bkl' = bkl, h'.stray = h.stray,
           active_pml4' = active_pml4 \/ Window(op[c])
    PROVE  LockInv'
<1>1. PcFits'
  BY DEF LockInv, PcFits
<1>2. BklExclusive'
  BY DEF LockInv, BklExclusive
<1>3. OneWindow'
  BY DEF LockInv, OneWindow
<1>4. TargetHeld'
  BY DEF LockInv, OneWindow, TargetHeld, TargetIsMine
<1> QED
  BY <1>1, <1>2, <1>3, <1>4 DEF LockInv

LEMMA ExitStep ==
    ASSUME MemTypeOK, LockInv, NEW c \in Cpu, NEW s \in Space, Exit(c, s)
    PROVE  MemTypeOK' /\ LockInv'
<1>1. status' \in [Space -> {"free", "built", "live", "dead", "dying"}]
  BY DEF Exit, MemTypeOK
<1> QED
  BY <1>1, Aside DEF Exit, MemTypeOK, mem

LEMMA RehomeStep ==
    ASSUME MemTypeOK, LockInv, NEW s \in Space, Rehome(s)
    PROVE  MemTypeOK' /\ LockInv'
<1>1. Refill(pt[s]) \in [Page -> Frame \cup {NoFrame}]
  BY RefillType DEF MemTypeOK, Table
<1>2. tlb' \in [Space -> [Page -> Frame \cup {NoFrame}]] /\ home' \in [Space -> Cpu]
  BY <1>1, MemAssumption DEF Rehome, MemTypeOK
<1> QED
  BY <1>2, Aside DEF Rehome, MemTypeOK

LEMMA ReapStep ==
    ASSUME MemTypeOK, LockInv, NEW c \in Cpu, NEW s \in Space, Reap(c, s)
    PROVE  MemTypeOK' /\ LockInv'
<1> DEFINE x == NewOp("teardown", "exit", Kernel, s, 1, NoFrame)
<1>1. x \in Op /\ x.pc = "teardown" /\ x.call = "exit" /\ x.n = s
  BY MemAssumption, NoPteType DEF NewOp, Op, Pc, Call, Table
<1> HIDE DEF x
<1>2. op' \in [Cpu -> Op] /\ (\A d \in Cpu \ {c} : op'[d] = op[d]) /\ op'[c] = x
  BY <1>1, OpUpdate DEF Reap, MemTypeOK, x
<1>3. status' \in [Space -> {"free", "built", "live", "dead", "dying"}]
  BY DEF Reap, MemTypeOK
<1>4. MemTypeOK'
  BY <1>2, <1>3 DEF Reap, MemTypeOK, mem
<1>5. op[c].call \notin Marked
  BY Zenon DEF Reap, LockInv, PcFits, Fits, UnmarkedPc
<1>6. x.call \notin Marked /\ ~Window(x) /\ Fits(x)
  BY <1>1 DEF Marked, Window, Fits, MarkedPc, UnmarkedPc
<1>7. LockInv'
  BY <1>2, <1>5, <1>6, Unmarked DEF Reap, MemTypeOK
<1> QED
  BY <1>4, <1>7

LEMMA TeardownPageStep ==
    ASSUME MemTypeOK, LockInv, NEW c \in Cpu, TeardownPage(c)
    PROVE  MemTypeOK' /\ LockInv'
<1> DEFINE o == op[c]
           v == Walk(Present(o.n), o.v)
           f == pt[o.n][v].f
           x == [o EXCEPT !.v = v + 1]
<1>0. o \in Op /\ o.pc = "teardown" /\ Fits(o)
  BY DEF TeardownPage, MemTypeOK, LockInv, PcFits
<1>1. o.n \in Space /\ (o.call \in Marked => o.s \in Space)
  BY <1>0 DEF Fits
<1>2. v \in Page /\ f # NoFrame
  BY Zenon DEF TeardownPage, Present
<1> HIDE DEF v
<1>3. f \in Frame
  BY <1>1, <1>2 DEF MemTypeOK, Table, Pte
<1>4. v + 1 \in 0..(NPages + 1)
  BY <1>2, MemAssumption DEF Page
<1>5. x \in Op /\ x.pc = "teardown" /\ x.call = o.call /\ x.n = o.n /\ x.s = o.s
  BY <1>0, <1>4 DEF Op
<1>6. op' = [op EXCEPT ![c] = x]
  BY Zenon DEF TeardownPage, v
<1> HIDE DEF x
<1>7. op' \in [Cpu -> Op] /\ (\A d \in Cpu \ {c} : op'[d] = op[d]) /\ op'[c] = x
  BY <1>5, <1>6, OpUpdate DEF MemTypeOK
<1>8. cow_table' \in [Frame -> 0..COW_MAX_OWNERS]
  BY ZenonT(40), <1>3, UnrefType DEF TeardownPage, MemTypeOK, v
<1>9. free' \subseteq Frame
  BY Zenon, <1>3 DEF TeardownPage, MemTypeOK, v
<1>10. pt' \in [Table -> [Page -> Pte]]
  <2>1. pt' = [pt EXCEPT ![o.n][v] = NoPte]
    BY Zenon DEF TeardownPage, v
  <2>2. [pt[o.n] EXCEPT ![v] = NoPte] \in [Page -> Pte]
    BY <1>1, <1>2, NoPteType DEF MemTypeOK, Table
  <2> QED
    BY <1>1, <2>1, <2>2 DEF MemTypeOK, Table
<1>11. MemTypeOK'
  BY Zenon, <1>7, <1>8, <1>9, <1>10 DEF TeardownPage, MemTypeOK
<1>12. Fits(x) /\ ~Window(x)
  BY <1>1, <1>5 DEF Fits, MarkedPc, UnmarkedPc, Window
<1>13. bkl' = bkl /\ h' = h /\ op \in [Cpu -> Op] /\ active_pml4' = active_pml4
  BY DEF TeardownPage, MemTypeOK
<1>14. LockInv'
  BY <1>0, <1>5, <1>7, <1>12, <1>13, Inside
<1> QED
  BY <1>11, <1>14

LEMMA TeardownDoneStep ==
    ASSUME MemTypeOK, LockInv, NEW c \in Cpu, TeardownDone(c)
    PROVE  MemTypeOK' /\ LockInv'
<1> DEFINE o == op[c]
<1>0. o \in Op /\ o.pc = "teardown" /\ Fits(o)
  BY DEF TeardownDone, MemTypeOK, LockInv, PcFits
<1>1. o.n \in Space /\ (o.call \in Marked => o.s \in Space)
  BY <1>0 DEF Fits
<1>2. NoTlb \in [Page -> Frame \cup {NoFrame}]
  BY DEF NoTlb
<1>3. tlb' \in [Space -> [Page -> Frame \cup {NoFrame}]]
  BY Zenon, <1>2 DEF TeardownDone, MemTypeOK
<1>4. /\ status' \in [Space -> {"free", "built", "live", "dead", "dying"}]
      /\ home' \in [Space -> Cpu]
      /\ batch' \subseteq Space
      /\ cursor' \in [Space -> 1..(NPages + 1)]
  BY ZenonT(40), MemAssumption DEF TeardownDone, MemTypeOK
<1>5. bkl' = bkl /\ h' = h /\ op \in [Cpu -> Op] /\ active_pml4' = active_pml4
  BY DEF TeardownDone, MemTypeOK
<1>6. CASE o.call \in Marked
  <2>1. /\ op' \in [Cpu -> Op]
        /\ \A d \in Cpu \ {c} : op'[d] = op[d]
        /\ op'[c] = [o EXCEPT !.pc = "release"]
    BY Zenon, <1>5, <1>6, GotoType DEF TeardownDone, Pc
  <2>2. op'[c].pc = "release" /\ op'[c].call = o.call /\ op'[c].s = o.s
    BY <1>0, <2>1 DEF Op
  <2>3. MemTypeOK'
    BY <1>3, <1>4, <2>1 DEF TeardownDone, MemTypeOK
  <2>4. Fits(op'[c]) /\ ~Window(op'[c])
    BY <1>1, <1>6, <2>2 DEF Fits, MarkedPc, UnmarkedPc, Window
  <2>5. LockInv'
    BY Zenon, <1>0, <1>5, <1>6, <2>1, <2>2, <2>4, Inside
  <2> QED
    BY <2>3, <2>5
<1>7. CASE o.call \notin Marked
  <2>1. /\ op' \in [Cpu -> Op]
        /\ \A d \in Cpu \ {c} : op'[d] = op[d]
        /\ op'[c] = Idle
    BY <1>5, <1>7, DoneType DEF TeardownDone
  <2>2. op'[c].pc = "user" /\ op'[c].call \notin Marked
    BY <2>1 DEF Idle, NewOp, Marked
  <2>3. MemTypeOK'
    BY <1>3, <1>4, <2>1 DEF TeardownDone, MemTypeOK
  <2>4. Fits(op'[c]) /\ ~Window(op'[c])
    BY <2>2 DEF Fits, MarkedPc, UnmarkedPc, Window
  <2>5. LockInv'
    BY <1>5, <1>7, <2>1, <2>2, <2>4, Unmarked
  <2> QED
    BY <2>3, <2>5
<1> QED
  BY <1>6, <1>7

-----------------------------------------------------------------------------
(* Page faults *)

\* A CPU at user code enters a fault, an mmap or a munmap.
LEMMA StartStep ==
    ASSUME MemTypeOK, LockInv, NEW c \in Cpu, op[c].pc = "user",
           NEW pc \in {"cowcheck", "settarget"}, NEW call \in {"fault", "mmap", "munmap"},
           NEW s \in Space, NEW v \in Page, NEW f \in Frame \cup {NoFrame},
           pc = "cowcheck" \/ call # "munmap" => f \in Frame,
           Start(c, pc, call, s, v, f),
           UNCHANGED <<bkl, active_pml4, h>>
    PROVE  op' \in [Cpu -> Op] /\ LockInv'
<1>1. pc \in Pc /\ call \in Call /\ call \notin Marked /\ s \in Table /\ v \in 0..(NPages + 1)
  BY MemAssumption DEF Pc, Call, Marked, Table, Page
<1>2. op \in [Cpu -> Op]
  BY DEF MemTypeOK
<1>3. /\ op' \in [Cpu -> Op]
      /\ \A d \in Cpu \ {c} : op'[d] = op[d]
      /\ op'[c].pc = pc /\ op'[c].call = call /\ op'[c].s = s
  BY <1>1, <1>2, StartType
<1>4. op'[c].v = v /\ op'[c].f = f
  BY <1>2 DEF Start, NewOp
<1>5. op[c].call \notin Marked
  BY DEF LockInv, PcFits, Fits, UnmarkedPc
<1>6. Fits(op'[c]) /\ ~Window(op'[c])
  BY <1>1, <1>3, <1>4 DEF Fits, MarkedPc, UnmarkedPc, Window
<1>7. LockInv'
  BY <1>1, <1>2, <1>3, <1>5, <1>6, Unmarked
<1> QED
  BY <1>3, <1>7

LEMMA WriteFaultStep ==
    ASSUME MemTypeOK, LockInv, NEW c \in Cpu, NEW s \in Space, NEW v \in Page,
           WriteFault(c, s, v)
    PROVE  MemTypeOK' /\ LockInv'
<1>1. pt[s][v].f \in Frame
  BY DEF WriteFault, MemTypeOK, Table, Pte
<1>2. /\ op[c].pc = "user"
      /\ Start(c, "cowcheck", "fault", s, v, pt[s][v].f)
      /\ UNCHANGED <<bkl, active_pml4, h>>
  BY DEF WriteFault, Runs
<1>3. op' \in [Cpu -> Op] /\ LockInv'
  BY <1>1, <1>2, StartStep
<1> QED
  BY <1>3 DEF WriteFault, MemTypeOK, mem

\* The step of a fault that ends it.
LEMMA FaultEnds ==
    ASSUME MemTypeOK, LockInv, NEW c \in Cpu, Done(c),
           op[c].pc \in {"cowcheck", "cowcopy", "cowunref", "restore"},
           bkl' = bkl, h'.stray = h.stray,
           active_pml4' = active_pml4 \/ op[c].pc = "restore"
    PROVE  op' \in [Cpu -> Op] /\ LockInv'
<1>1. op \in [Cpu -> Op]
  BY DEF MemTypeOK
<1>2. /\ op' \in [Cpu -> Op]
      /\ \A d \in Cpu \ {c} : op'[d] = op[d]
      /\ op'[c] = Idle
  BY <1>1, DoneType
<1>3. op'[c].pc = "user" /\ op'[c].call \notin Marked
  <2>1. op'[c] = Idle
    BY <1>2
  <2>2. Idle.pc = "user" /\ Idle.call = "none"
    BY DEF Idle, NewOp
  <2> QED
    BY Zenon, <2>1, <2>2 DEF Marked
<1>4. op[c].call \notin Marked
  BY ZenonT(40) DEF LockInv, PcFits, Fits, UnmarkedPc
<1>5. Fits(op'[c]) /\ ~Window(op'[c])
  BY <1>3 DEF Fits, MarkedPc, UnmarkedPc, Window
<1>6. active_pml4' = active_pml4 \/ Window(op[c])
  BY ZenonT(40) DEF Window
<1>7. LockInv'
  BY Zenon, <1>1, <1>2, <1>3, <1>4, <1>5, <1>6, Unmarked
<1> QED
  BY <1>2, <1>7

\* The step of an unmarked operation that goes on outside a window.
LEMMA FaultGoesOn ==
    ASSUME MemTypeOK, LockInv, NEW c \in Cpu, NEW pc \in {"cowcopy", "cowunref"},
           Goto(c, pc), op[c].pc \in {"cowcheck", "cowcopy"},
           UNCHANGED <<bkl, active_pml4, h>>
    PROVE  op' \in [Cpu -> Op] /\ LockInv'
<1> DEFINE o == op[c]
<1>1. op \in [Cpu -> Op] /\ o \in Op /\ Fits(o)
  BY DEF MemTypeOK, LockInv, PcFits
<1>2. /\ op' \in [Cpu -> Op]
      /\ \A d \in Cpu \ {c} : op'[d] = op[d]
      /\ op'[c] = [o EXCEPT !.pc = pc]
  BY ZenonT(40), <1>1, GotoType DEF Pc
<1>3. /\ op'[c].pc = pc /\ op'[c].call = o.call /\ op'[c].s = o.s
      /\ op'[c].v = o.v /\ op'[c].f = o.f
  BY <1>1, <1>2 DEF Op
<1>4. o.call \notin Marked /\ o.s \in Space /\ o.v \in Page /\ o.f \in Frame
  BY <1>1, AtHand DEF Fits, UnmarkedPc
<1>5. Fits(op'[c]) /\ ~Window(op'[c])
  BY <1>3, <1>4 DEF Fits, MarkedPc, UnmarkedPc, Window
<1>6. LockInv'
  BY Zenon, <1>1, <1>2, <1>3, <1>4, <1>5, Unmarked
<1> QED
  BY <1>2, <1>6

LEMMA CowCheckStep ==
    ASSUME MemTypeOK, LockInv, NEW c \in Cpu, CowCheck(c)
    PROVE  MemTypeOK' /\ LockInv'
<1> DEFINE o == op[c]
<1>0. o \in Op /\ o.pc = "cowcheck" /\ Fits(o)
  BY DEF CowCheck, MemTypeOK, LockInv, PcFits
<1>1. o.s \in Space /\ o.v \in Page /\ o.f \in Frame
  BY <1>0, AtHand
<1>2. bkl' = bkl /\ h' = h /\ active_pml4' = active_pml4
  BY DEF CowCheck
<1>3. CASE /\ pt' = [pt EXCEPT ![o.s][o.v] = Writable(o.f)]
           /\ tlb' = [tlb EXCEPT ![o.s][o.v] = o.f]
           /\ Done(c)
  <2>1. op' \in [Cpu -> Op] /\ LockInv'
    BY <1>0, <1>2, <1>3, FaultEnds
  <2>2. [pt[o.s] EXCEPT ![o.v] = Writable(o.f)] \in [Page -> Pte]
    BY <1>1, WritableType DEF MemTypeOK, Table
  <2>3. pt' \in [Table -> [Page -> Pte]]
    BY <1>1, <1>3, <2>2 DEF MemTypeOK, Table
  <2>4. tlb' \in [Space -> [Page -> Frame \cup {NoFrame}]]
    BY <1>1, <1>3 DEF MemTypeOK
  <2> QED
    BY <2>1, <2>3, <2>4 DEF CowCheck, MemTypeOK
<1>4. CASE Goto(c, "cowcopy") /\ UNCHANGED <<pt, tlb>>
  <2>1. op' \in [Cpu -> Op] /\ LockInv'
    BY <1>0, <1>2, <1>4, FaultGoesOn
  <2> QED
    BY <1>4, <2>1 DEF CowCheck, MemTypeOK
<1> QED
  BY <1>3, <1>4 DEF CowCheck

LEMMA CowCopyStep ==
    ASSUME MemTypeOK, LockInv, NEW c \in Cpu, CowCopy(c)
    PROVE  MemTypeOK' /\ LockInv'
<1> DEFINE o == op[c]
<1>0. o \in Op /\ o.pc = "cowcopy" /\ Fits(o)
  BY DEF CowCopy, MemTypeOK, LockInv, PcFits
<1>1. o.s \in Space /\ o.v \in Page /\ o.f \in Frame
  BY <1>0, AtHand
<1>2. bkl' = bkl /\ h' = h /\ active_pml4' = active_pml4
  BY DEF CowCopy
<1>3. CASE \E f \in free :
             /\ free' = free \ {f}
             /\ pt' = [pt EXCEPT ![o.s][o.v] = Writable(f)]
             /\ Goto(c, "cowunref")
             /\ UNCHANGED status
  <2> PICK f \in free :
             /\ free' = free \ {f}
             /\ pt' = [pt EXCEPT ![o.s][o.v] = Writable(f)]
             /\ Goto(c, "cowunref")
             /\ UNCHANGED status
    BY ZenonT(40), <1>3
  <2>1. op' \in [Cpu -> Op] /\ LockInv'
    BY <1>0, <1>2, FaultGoesOn
  <2>2. [pt[o.s] EXCEPT ![o.v] = Writable(f)] \in [Page -> Pte]
    BY <1>1, WritableType DEF MemTypeOK, Table
  <2>3. pt' \in [Table -> [Page -> Pte]] /\ free' \subseteq Frame
    BY <1>1, <2>2 DEF MemTypeOK, Table
  <2> QED
    BY <2>1, <2>3 DEF CowCopy, MemTypeOK
<1>4. CASE /\ status' = [status EXCEPT ![o.s] = "dead"]
           /\ Done(c)
           /\ UNCHANGED <<pt, free>>
  <2>1. op' \in [Cpu -> Op] /\ LockInv'
    BY <1>0, <1>2, <1>4, FaultEnds
  <2>2. status' \in [Space -> {"free", "built", "live", "dead", "dying"}]
    BY Zenon, <1>4 DEF MemTypeOK
  <2> QED
    BY <1>4, <2>1, <2>2 DEF CowCopy, MemTypeOK
<1> QED
  BY <1>3, <1>4 DEF CowCopy

LEMMA CowUnrefStep ==
    ASSUME MemTypeOK, LockInv, NEW c \in Cpu, CowUnref(c)
    PROVE  MemTypeOK' /\ LockInv'
<1> DEFINE o == op[c]
<1>0. o \in Op /\ o.pc = "cowunref" /\ Fits(o)
  BY DEF CowUnref, MemTypeOK, LockInv, PcFits
<1>1. o.s \in Space /\ o.v \in Page /\ o.f \in Frame
  BY <1>0, AtHand
<1>2. h' \in History /\ h'.stray = h.stray
  BY Zenon, <1>1 DEF CowUnref, MemTypeOK, History
<1>3. op' \in [Cpu -> Op] /\ LockInv'
  BY <1>0, <1>2, FaultEnds DEF CowUnref
<1>4. cow_table' \in [Frame -> 0..COW_MAX_OWNERS]
  BY <1>1, UnrefType DEF CowUnref, MemTypeOK
<1>5. pt[o.s][o.v].f \in Frame \cup {NoFrame}
  BY <1>1 DEF MemTypeOK, Table, Pte
<1>6. tlb' \in [Space -> [Page -> Frame \cup {NoFrame}]]
  BY <1>1, <1>5 DEF CowUnref, MemTypeOK
<1> QED
  BY <1>2, <1>3, <1>4, <1>6 DEF CowUnref, MemTypeOK

LEMMA DemandFaultStep ==
    ASSUME MemTypeOK, LockInv, NEW c \in Cpu, NEW s \in Space, NEW v \in Page,
           DemandFault(c, s, v)
    PROVE  MemTypeOK' /\ LockInv'
<1>1. /\ op[c].pc = "user"
      /\ UNCHANGED <<bkl, active_pml4, h>>
  BY DEF DemandFault, Runs
<1>2. CASE \E f \in free :
             /\ free' = free \ {f}
             /\ Start(c, "settarget", "fault", s, v, f)
             /\ UNCHANGED status
  <2> PICK f \in free :
             /\ free' = free \ {f}
             /\ Start(c, "settarget", "fault", s, v, f)
             /\ UNCHANGED status
    BY <1>2
  <2>1. f \in Frame /\ free' \subseteq Frame
    BY DEF MemTypeOK
  <2>2. op' \in [Cpu -> Op] /\ LockInv'
    BY Zenon, <1>1, <2>1, StartStep
  <2> QED
    BY <2>1, <2>2 DEF DemandFault, MemTypeOK
<1>3. CASE /\ status' = [status EXCEPT ![s] = "dead"]
           /\ UNCHANGED <<free, op>>
  <2>1. status' \in [Space -> {"free", "built", "live", "dead", "dying"}]
    BY <1>3 DEF MemTypeOK
  <2>2. LockInv'
    BY <1>1, <1>3, Aside
  <2> QED
    BY <1>3, <2>1, <2>2 DEF DemandFault, MemTypeOK
<1> QED
  BY <1>2, <1>3 DEF DemandFault

-----------------------------------------------------------------------------
(* mmap, munmap and the mapping of a page *)

LEMMA MmapStep ==
    ASSUME MemTypeOK, LockInv, NEW c \in Cpu, NEW s \in Space, Mmap(c, s)
    PROVE  MemTypeOK' /\ LockInv'
<1>0. Anon \subseteq Page
  BY MemAssumption DEF Anon, Page
<1>1. /\ op[c].pc = "user"
      /\ UNCHANGED <<bkl, active_pml4, h>>
      /\ cursor[s] \in Page
  BY <1>0 DEF Mmap, Runs
<1> PICK f \in free : free' = free \ {f} /\ Start(c, "settarget", "mmap", s, cursor[s], f)
  BY DEF Mmap
<1>2. f \in Frame /\ free' \subseteq Frame
  BY DEF MemTypeOK
<1>3. op' \in [Cpu -> Op] /\ LockInv'
  BY <1>1, <1>2, StartStep
<1> QED
  BY <1>2, <1>3 DEF Mmap, MemTypeOK

LEMMA MunmapStep ==
    ASSUME MemTypeOK, LockInv, NEW c \in Cpu, NEW s \in Space, NEW v \in Page,
           Munmap(c, s, v)
    PROVE  MemTypeOK' /\ LockInv'
<1>1. /\ op[c].pc = "user"
      /\ Start(c, "settarget", "munmap", s, v, NoFrame)
      /\ UNCHANGED <<bkl, active_pml4, h>>
  BY DEF Munmap, Runs
<1>2. op' \in [Cpu -> Op] /\ LockInv'
  BY Zenon, <1>1, StartStep
<1> QED
  BY <1>2 DEF Munmap, MemTypeOK, mem

\* The window of an unmarked call opens.
LEMMA SetTargetStep ==
    ASSUME MemTypeOK, LockInv, NEW c \in Cpu, SetTarget(c)
    PROVE  MemTypeOK' /\ LockInv'
<1> DEFINE o == op[c]
           pc == IF o.call = "munmap" THEN "freepage" ELSE "map"
           old == IF o.call = "fault" THEN Kernel ELSE active_pml4
           x == [o EXCEPT !.pc = pc, !.saved = old]
<1>0. o \in Op /\ o.pc = "settarget" /\ Fits(o)
  BY DEF SetTarget, MemTypeOK, LockInv, PcFits
<1>1. /\ o.call \notin Marked /\ o.s \in Space /\ o.v \in Page
      /\ o.call # "munmap" => o.f \in Frame
  BY <1>0 DEF Fits, UnmarkedPc
<1>2. pc \in Pc /\ old \in Table
  BY DEF Pc, MemTypeOK, Table
<1>3. op' = [op EXCEPT ![c] = x]
  BY Zenon DEF SetTarget
<1>4. /\ x \in Op /\ x.pc = pc /\ x.call = o.call /\ x.s = o.s
      /\ x.v = o.v /\ x.f = o.f
  BY Zenon, <1>0, <1>2 DEF Op
<1> HIDE DEF x
<1>5. op' \in [Cpu -> Op] /\ (\A d \in Cpu \ {c} : op'[d] = op[d]) /\ op'[c] = x
  BY <1>3, <1>4, OpUpdate DEF MemTypeOK
<1>6. Retarget(c, o.s) /\ bkl' = bkl /\ op \in [Cpu -> Op] /\ h \in History
  BY DEF SetTarget, MemTypeOK
<1>7. MemTypeOK'
  BY <1>1, <1>5, <1>6, RetargetType DEF SetTarget, MemTypeOK, mem, Table
<1>8. Fits(x)
  BY <1>1, <1>4 DEF Fits, MarkedPc, UnmarkedPc
<1>9. ~Window(o) /\ Target(x) = o.s
  BY <1>0, <1>1, <1>4 DEF Window, Target
<1>10. OneWindow' /\ TargetHeld'
  BY <1>4, <1>5, <1>6, <1>9, Opening
<1>11. PcFits'
  BY <1>5, <1>8 DEF LockInv, PcFits
<1>12. BklExclusive'
  BY <1>1, <1>4, <1>5, <1>6 DEF LockInv, BklExclusive
<1> QED
  BY <1>7, <1>10, <1>11, <1>12 DEF LockInv

\* A step within the window of an unmarked call.
LEMMA WithinWindow ==
    ASSUME MemTypeOK, LockInv, NEW c \in Cpu, NEW x \in Op, op' = [op EXCEPT ![c] = x],
           op[c].pc \in {"map", "freepage", "unmap"},
           x.pc \in {"unmap", "restore"}, x.call = op[c].call, x.s = op[c].s,
           x.v = op[c].v, bkl' = bkl, active_pml4' = active_pml4, h'.stray = h.stray
    PROVE  op' \in [Cpu -> Op] /\ LockInv'
<1> DEFINE o == op[c]
<1>1. op \in [Cpu -> Op] /\ o \in Op /\ Fits(o)
  BY DEF MemTypeOK, LockInv, PcFits
<1>2. o.call \notin Marked /\ o.s \in Space /\ o.v \in Page
  BY <1>1 DEF Fits, UnmarkedPc
<1>3. op' \in [Cpu -> Op] /\ (\A d \in Cpu \ {c} : op'[d] = op[d]) /\ op'[c] = x
  BY <1>1, OpUpdate
<1>4. Fits(x)
  BY <1>2 DEF Fits, MarkedPc, UnmarkedPc
<1>5. Window(o) /\ Target(x) = Target(o)
  BY <1>2 DEF Window, Target
<1>6. LockInv'
  BY <1>1, <1>3, <1>4, <1>5, Inside
<1> QED
  BY <1>3, <1>6

LEMMA MapPageStep ==
    ASSUME MemTypeOK, LockInv, NEW c \in Cpu, MapPage(c)
    PROVE  MemTypeOK' /\ LockInv'
<1> DEFINE o == op[c]
           x == [o EXCEPT !.pc = "restore"]
<1>0. o \in Op /\ o.pc = "map" /\ Fits(o)
  BY DEF MapPage, MemTypeOK, LockInv, PcFits
<1>1. o.s \in Space /\ o.v \in Page /\ o.f \in Frame
  BY <1>0, AtHand
<1>2. x \in Op /\ x.pc = "restore" /\ x.call = o.call /\ x.s = o.s /\ x.v = o.v
  BY <1>0 DEF Op, Pc
<1>3. op' = [op EXCEPT ![c] = x]
  BY DEF MapPage, Goto
<1> HIDE DEF x
<1> PICK q \in Mapped(o.v, Writable(o.f)) :
         /\ pt' = q
         /\ h' = [h EXCEPT !.lost = IF q = pt THEN @ \cup {o.f} ELSE @,
                           !.over = @ \/ pt[o.s][o.v].f # NoFrame]
         /\ tlb' = [tlb EXCEPT ![o.s] = Refill(q[o.s])]
  BY Zenon DEF MapPage
<1>4. q \in [Table -> [Page -> Pte]]
  BY <1>1, MappedType, WritableType
<1>5. Refill(q[o.s]) \in [Page -> Frame \cup {NoFrame}]
  BY <1>1, <1>4, RefillType DEF Table
<1>6. tlb' \in [Space -> [Page -> Frame \cup {NoFrame}]]
  BY Zenon, <1>5 DEF MemTypeOK
<1>7. h' \in History /\ h'.stray = h.stray
  BY Zenon, <1>1 DEF MemTypeOK, History
<1>8. o.v + 1 \in 1..(NPages + 1)
  BY <1>1, MemAssumption DEF Page
<1>9. cursor' \in [Space -> 1..(NPages + 1)]
  BY ZenonT(40), <1>8 DEF MapPage, MemTypeOK
<1>10. op' \in [Cpu -> Op] /\ LockInv'
  BY Zenon, <1>0, <1>2, <1>3, <1>7, WithinWindow DEF MapPage
<1> QED
  BY Zenon, <1>4, <1>6, <1>7, <1>9, <1>10 DEF MapPage, MemTypeOK

LEMMA FreePageStep ==
    ASSUME MemTypeOK, LockInv, NEW c \in Cpu, FreePage(c)
    PROVE  MemTypeOK' /\ LockInv'
<1> DEFINE o == op[c]
           f == pt[o.s][o.v].f
           x == [o EXCEPT !.pc = "unmap", !.f = f]
<1>0. o \in Op /\ o.pc = "freepage" /\ Fits(o)
  BY DEF FreePage, MemTypeOK, LockInv, PcFits
<1>1. o.s \in Space /\ o.v \in Page
  BY <1>0 DEF Fits, UnmarkedPc
<1>2. f \in Frame \cup {NoFrame}
  BY <1>1 DEF MemTypeOK, Table, Pte
<1>3. op' = [op EXCEPT ![c] = x]
  BY ZenonT(40) DEF FreePage
<1>4. cow_table' \in [Frame -> 0..COW_MAX_OWNERS] /\ free' \subseteq Frame
  BY <1>2, UnrefType DEF FreePage, MemTypeOK
<1> HIDE DEF f
<1>5. x \in Op /\ x.pc = "unmap" /\ x.call = o.call /\ x.s = o.s /\ x.v = o.v
  BY Zenon, <1>0, <1>2 DEF Op, Pc
<1> HIDE DEF x
<1>6. bkl' = bkl /\ h' = h /\ active_pml4' = active_pml4
  BY DEF FreePage
<1>7. op' \in [Cpu -> Op] /\ LockInv'
  BY Zenon, <1>0, <1>3, <1>5, <1>6, WithinWindow
<1> QED
  BY <1>4, <1>7 DEF FreePage, MemTypeOK

LEMMA UnmapPageStep ==
    ASSUME MemTypeOK, LockInv, NEW c \in Cpu, UnmapPage(c)
    PROVE  MemTypeOK' /\ LockInv'
<1> DEFINE o == op[c]
           x == [o EXCEPT !.pc = "restore"]
<1>0. o \in Op /\ o.pc = "unmap" /\ Fits(o)
  BY DEF UnmapPage, MemTypeOK, LockInv, PcFits
<1>1. o.s \in Space /\ o.v \in Page
  BY <1>0 DEF Fits, UnmarkedPc
<1>2. x \in Op /\ x.pc = "restore" /\ x.call = o.call /\ x.s = o.s /\ x.v = o.v
  BY <1>0 DEF Op, Pc
<1>3. op' = [op EXCEPT ![c] = x]
  BY DEF UnmapPage, Goto
<1> HIDE DEF x
<1>4. [pt EXCEPT ![active_pml4][o.v] = NoPte] \in [Table -> [Page -> Pte]]
  BY <1>1, MappedType, NoPteType DEF Mapped
<1>5. tlb' \in [Space -> [Page -> Frame \cup {NoFrame}]]
  BY <1>1 DEF UnmapPage, MemTypeOK
<1>6. bkl' = bkl /\ h' = h /\ active_pml4' = active_pml4
  BY DEF UnmapPage
<1>7. op' \in [Cpu -> Op] /\ LockInv'
  BY Zenon, <1>0, <1>2, <1>3, <1>6, WithinWindow
<1> QED
  BY <1>4, <1>5, <1>7 DEF UnmapPage, MemTypeOK

LEMMA RestoreTargetStep ==
    ASSUME MemTypeOK, LockInv, NEW c \in Cpu, RestoreTarget(c)
    PROVE  MemTypeOK' /\ LockInv'
<1>1. op[c].saved \in Table
  BY DEF MemTypeOK, Op
<1>2. op' \in [Cpu -> Op] /\ LockInv'
  BY FaultEnds DEF RestoreTarget
<1> QED
  BY <1>1, <1>2 DEF RestoreTarget, MemTypeOK, mem

-----------------------------------------------------------------------------
(* The theorems *)

LEMMA InitHolds == Init => MemTypeOK /\ LockInv
<1> SUFFICES ASSUME Init PROVE MemTypeOK /\ LockInv
  OBVIOUS
<1> PICK s \in Space, g \in [Eager -> Frame] :
        /\ pt = [t \in Table |->
                   [v \in Page |-> IF t = s /\ v \in Eager THEN Writable(g[v])
                                                          ELSE NoPte]]
        /\ free = Frame \ {g[v] : v \in Eager}
        /\ status = [t \in Space |-> IF t = s THEN "live" ELSE "free"]
        /\ tlb = [t \in Space |-> Refill(pt[t])]
        /\ cow_table = [f \in Frame |-> 0]
        /\ active_pml4 = Kernel
        /\ home = [t \in Space |-> General]
        /\ batch = {}
        /\ bkl = FreeLock
        /\ op = [c \in Cpu |-> Idle]
        /\ cursor = [t \in Space |-> AnonBase]
        /\ h = [stray |-> FALSE, over |-> FALSE, lost |-> {}]
  BY DEF Init
<1>1. pt \in [Table -> [Page -> Pte]]
  <2>1. \A v \in Eager : Writable(g[v]) \in Pte
    BY WritableType
  <2> QED
    BY <2>1, NoPteType
<1>2. tlb \in [Space -> [Page -> Frame \cup {NoFrame}]]
  BY Zenon, <1>1, RefillType DEF Table
<1>3. op \in [Cpu -> Op]
  BY IdleType
<1>4. cow_table \in [Frame -> 0..COW_MAX_OWNERS] /\ cursor \in [Space -> 1..(NPages + 1)]
  BY MemAssumption
<1>5. bkl \in Lock /\ h \in History
  BY DEF FreeLock, Lock, History
<1>6. MemTypeOK
  BY <1>1, <1>2, <1>3, <1>4, <1>5, MemAssumption DEF MemTypeOK, Table
<1>7. \A c \in Cpu : op[c].pc = "user" /\ op[c].call = "none"
  BY DEF Idle, NewOp
<1>8. LockInv
  BY <1>7 DEF LockInv, PcFits, Fits, MarkedPc, UnmarkedPc, Marked, BklExclusive,
              OneWindow, TargetHeld, TargetIsMine, Window
<1> QED
  BY <1>6, <1>8

LEMMA StepHolds ==
    ASSUME MemTypeOK, LockInv, NEW c \in Cpu, Step(c)
    PROVE  MemTypeOK' /\ LockInv'
<1>1. CASE Locking(c)
  BY <1>1, BeginStep, ReleaseStep, UnlockStep DEF Locking
<1>2. CASE Forking(c)
  BY <1>2, ForkPageStep, ForkMapStep, ForkDoneStep, ForkFailStep DEF Forking
<1>3. CASE Loading(c)
  BY <1>3, StageStep, StageMapStep, StagedStep DEF Loading
<1>4. CASE Faulting(c)
  BY <1>4, CowCheckStep, CowCopyStep, CowUnrefStep DEF Faulting
<1>5. CASE Mapping(c)
  BY <1>5, SetTargetStep, MapPageStep, FreePageStep, UnmapPageStep, RestoreTargetStep
     DEF Mapping
<1>6. CASE TeardownPage(c) \/ TeardownDone(c)
  BY <1>6, TeardownPageStep, TeardownDoneStep
<1> QED
  BY <1>1, <1>2, <1>3, <1>4, <1>5, <1>6 DEF Step

\* Types are kept and the lock's invariant is inductive: whatever page faults,
\* mmaps, forks, loads, exits and reapings the CPUs interleave.
THEOREM MemInductive == Spec => [](MemTypeOK /\ LockInv)
<1>1. ASSUME MemTypeOK /\ LockInv, [Next]_vars PROVE (MemTypeOK /\ LockInv)'
  <2>1. CASE \E c \in Cpu : Step(c)
    BY <1>1, <2>1, StepHolds
  <2>2. CASE \E c \in Cpu, s \in Space : \E call \in Marked : Enter(c, s, call)
    BY <1>1, <2>2, EnterStep
  <2>3. CASE \E c \in Cpu, s \in Space : Exit(c, s) \/ Reap(c, s) \/ Mmap(c, s)
    BY <1>1, <2>3, ExitStep, ReapStep, MmapStep
  <2>4. CASE \E c \in Cpu, s \in Space, v \in Page :
               WriteFault(c, s, v) \/ DemandFault(c, s, v) \/ Munmap(c, s, v)
    BY <1>1, <2>4, WriteFaultStep, DemandFaultStep, MunmapStep
  <2>5. CASE \E s \in Space : Rehome(s)
    BY <1>1, <2>5, RehomeStep
  <2>6. CASE UNCHANGED vars
    BY <1>1, <2>6, Aside DEF vars, mem, MemTypeOK
  <2> QED
    BY <1>1, <2>1, <2>2, <2>3, <2>4, <2>5, <2>6 DEF Next
<1> QED
  BY <1>1, InitHolds, PTL DEF Spec

\* The big kernel lock (bkl_acquire and bkl_release) admits one CPU at a time,
\* and its word, owner and depth agree with who is inside a marked call.
THEOREM BklExclusiveHolds == Spec => []BklExclusive
<1>1. MemTypeOK /\ LockInv => BklExclusive
  BY DEF LockInv
<1> QED
  BY <1>1, MemInductive, PTL

\* As long as no page fault, mmap or munmap opens a window inside another one,
\* paging_set_target()'s single target stays where fork, execve and spawn put it.
THEOREM TargetHeldHolds == Spec => []TargetHeld
<1>1. MemTypeOK /\ LockInv => TargetHeld
  BY DEF LockInv
<1> QED
  BY <1>1, MemInductive, PTL

=============================================================================
