-------------------------- MODULE KernelMoveProofs --------------------------
(***************************************************************************)
(* What the functions of KernelState do to the state and the queue entry   *)
(* of each process, to its parent and to its wait link: the facts about    *)
(* waking, terminating, reaping and switching that the proofs about the    *)
(* life of a process need.                                                 *)
(***************************************************************************)
EXTENDS KernelProofs

(***************************************************************************)
(* What most kernel functions do to a process.                             *)
(***************************************************************************)
\* q, if it is asleep, is still so: on its wait object and on the sleep list.
Parked(k, k1, q) ==
    /\ k1.wait_on[q] = k.wait_on[q]
    /\ Contains(k.sleepers, q) => Contains(k1.sleepers, q)

\* q is left alone, or its PCB is freed, or a waker makes it ready.
Move(k, k1, q) ==
    \/ /\ k1.state[q] = k.state[q] /\ k1.on_queue[q] = k.on_queue[q]
       /\ k.state[q] = "BLOCKED" => Parked(k, k1, q)
    \/ k1.state[q] = "FREE" /\ ~k1.on_queue[q]
    \/ /\ k.state[q] = "BLOCKED" /\ k.wait_on[q] # SleepObj
       /\ k1.state[q] = "READY" /\ k1.on_queue[q]

\* The process a call is about may also lose its place on the queues.
Fall(k, k1, t) ==
    /\ k1.state[t] \in {k.state[t], "FREE"}
    /\ k1.on_queue[t] => k.on_queue[t]

\* Neither the CPU nor the family of a process changes; no wait link is new.
Frame(k, k1) ==
    /\ k1.current = k.current /\ k1.reaped = k.reaped
    /\ k1.parent = k.parent /\ k1.kin = k.kin
    /\ \A q \in Proc : k1.wait_on[q] \in {k.wait_on[q], None}

Moves(k, k1, t) ==
    /\ Frame(k, k1)
    /\ \A q \in Proc : q # t => Move(k, k1, q)
    /\ t \in Proc => Fall(k, k1, t)

\* A call that is about no process in particular.
LEMMA MovesAll ==
    ASSUME NEW k, NEW k1, Frame(k, k1), \A q \in Proc : Move(k, k1, q)
    PROVE  Moves(k, k1, None)
  BY Zenon, ConstantsAssumption DEF Moves

\* Nothing a scheduler looks at changes.
LEMMA MovesSame ==
    ASSUME NEW k, NEW k1, Frame(k, k1), k1.state = k.state, k1.on_queue = k.on_queue,
           k1.wait_on = k.wait_on, k1.sleepers = k.sleepers
    PROVE  Moves(k, k1, None)
  BY Zenon, MovesAll DEF Move, Parked

\* Frames compose.
LEMMA FrameTrans ==
    ASSUME NEW k, NEW k1, NEW k2, Frame(k, k1), Frame(k1, k2)
    PROVE  Frame(k, k2)
  BY DEF Frame

\* Calls about the same process compose.
LEMMA MovesTrans ==
    ASSUME NEW k, NEW k1, NEW k2, NEW t, Moves(k, k1, t), Moves(k1, k2, t)
    PROVE  Moves(k, k2, t)
<1>1. Frame(k, k2)  BY FrameTrans DEF Moves
<1>2. ASSUME NEW q \in Proc, q # t PROVE Move(k, k2, q)
    <2>1. Move(k, k1, q) /\ Move(k1, k2, q)  BY <1>2 DEF Moves
    <2>2. k1.wait_on[q] \in {k.wait_on[q], None}  BY DEF Moves, Frame
    <2> QED  BY <2>1, <2>2 DEF Move, Parked
<1>3. ASSUME t \in Proc PROVE Fall(k, k2, t)
    BY <1>3 DEF Moves, Fall
<1> QED  BY <1>1, <1>2, <1>3 DEF Moves

\* A call that is about no process is one about t, unless it wakes t.
LEMMA MovesAbout ==
    ASSUME NEW k, NEW k1, NEW t \in Proc, Moves(k, k1, None), k.state[t] # "BLOCKED"
    PROVE  Moves(k, k1, t)
<1>1. Move(k, k1, t)  BY Zenon, ConstantsAssumption DEF Moves
<1>2. Fall(k, k1, t)  BY <1>1 DEF Move, Fall
<1> QED  BY Zenon, <1>2, ConstantsAssumption DEF Moves

-----------------------------------------------------------------------------
(***************************************************************************)
(* The primitive functions.                                                *)
(***************************************************************************)
\* Removing one element keeps the others.
LEMMA RemoveFirstOther ==
    ASSUME NEW S, NEW s \in Seq(S), NEW e, NEW x, x # e, Contains(s, x)
    PROVE  Contains(RemoveFirst(s, e), x)
<1> DEFINE I == {j \in 1 .. Len(s) : s[j] = e}
           r == RemoveFirst(s, e)
<1>1. CASE I = {}  BY Zenon, <1>1 DEF RemoveFirst, Contains
<1>2. CASE I # {}
    <2>1. Min(I) \in I
        <3>1. I \in SUBSET Nat  OBVIOUS
        <3> HIDE DEF I
        <3> QED  BY <1>2, <3>1, MinOfNat
    <2> DEFINE n == Min(I)
    <2>2. r = RemoveAt(s, n)  BY <1>2 DEF RemoveFirst, Contains
    <2>3. n \in 1 .. Len(s) /\ s[n] = e  BY <2>1
    <2> HIDE DEF n, r
    <2>4. /\ r \in Seq(S) /\ Len(r) = Len(s) - 1
          /\ \A j \in 1 .. (Len(s) - 1) : r[j] = IF j < n THEN s[j] ELSE s[j + 1]
        BY Zenon, <2>2, <2>3, RemoveAtIs
    <2>5. PICK j \in 1 .. Len(s) : s[j] = x  BY DEF Contains
    <2>6. CASE j < n  BY <2>3, <2>4, <2>5, <2>6 DEF Contains, r
    <2>7. CASE j > n
        <3>1. j - 1 \in 1 .. Len(r) /\ r[j - 1] = x  BY <2>3, <2>4, <2>5, <2>7
        <3> QED  BY <3>1 DEF Contains, r
    <2> QED  BY <2>3, <2>5, <2>6, <2>7
<1> QED  BY <1>1, <1>2

\* The fields no scheduling function writes.
Rest(k, k1) ==
    /\ k1.reaped = k.reaped /\ k1.parent = k.parent /\ k1.kin = k.kin

\* process_ref() moves nobody.
LEMMA RefMoves ==
    ASSUME NEW k, KInv(k), NEW p \in Proc
    PROVE  Moves(k, process_ref(k, p), None)
<1> DEFINE kk == process_ref(k, p)
<1>1. k \in KState  BY Zenon DEF KInv
<1>2. /\ Rest(k, kk) /\ kk.current = k.current /\ kk.state = k.state
      /\ kk.on_queue = k.on_queue /\ kk.wait_on = k.wait_on
      /\ kk.sleepers = k.sleepers
    BY <1>1 DEF process_ref, KState, Rest
<1> HIDE DEF kk
<1>3. Moves(k, kk, None)  BY Zenon, <1>2, MovesSame DEF Frame, Rest
<1> QED  BY <1>3 DEF kk

\* What process_unref() writes.
LEMMA UnrefFields ==
    ASSUME NEW k \in KState, NEW p \in Proc
    PROVE  LET kk == process_unref(k, p)
           IN  /\ Rest(k, kk) /\ kk.current = k.current
               /\ kk.on_queue = k.on_queue /\ kk.wait_on = k.wait_on
               /\ kk.sleepers = k.sleepers /\ kk.ref = [k.ref EXCEPT ![p] = @ - 1]
               /\ \E x \in {k.state[p], "FREE"} : kk.state = [k.state EXCEPT ![p] = x]
<1>1. k.state \in [Proc -> PState]  BY Zenon DEF KState
<1> QED  BY Zenon, <1>1 DEF process_unref, KState, Rest

\* process_unref() moves nobody, or frees the PCB.
LEMMA UnrefMoves ==
    ASSUME NEW k, KInv(k), NEW p \in Proc, KInv(process_unref(k, p))
    PROVE  Moves(k, process_unref(k, p), None)
<1> DEFINE kk == process_unref(k, p)
<1>1. k \in KState /\ k.state \in [Proc -> PState]  BY Zenon DEF KInv, KState
<1>2. /\ Rest(k, kk) /\ kk.current = k.current
      /\ kk.on_queue = k.on_queue /\ kk.wait_on = k.wait_on
      /\ kk.sleepers = k.sleepers
      /\ \E x \in {k.state[p], "FREE"} : kk.state = [k.state EXCEPT ![p] = x]
    BY Zenon, <1>1, UnrefFields
<1> HIDE DEF kk
<1>3. ASSUME NEW q \in Proc PROVE Move(k, kk, q)
    <2>1. kk.state[q] \in {k.state[q], "FREE"}  BY <1>1, <1>2
    <2>2. kk.state[q] = "FREE" => ~kk.on_queue[q]
        BY DEF KInv, Unheld, Held, One, kk
    <2> QED  BY Zenon, <1>2, <2>1, <2>2 DEF Move, Parked
<1>4. Moves(k, kk, None)  BY Zenon, <1>2, <1>3, MovesAll DEF Frame, Rest
<1> QED  BY <1>4 DEF kk

\* A function that returns a loan moves nobody but by freeing the PCB.
LEMMA LoanMoves ==
    ASSUME NEW k, KInv(k), NEW k1, NEW p \in Proc, Lends(k, k1, p), NEW t, Moves(k, k1, t),
           t = None \/ (t \in Proc /\ k1.state[t] # "BLOCKED") \/ t = p
    PROVE  Moves(k, process_unref(k1, p), t)
<1>1. KInv(k1) /\ KInv(process_unref(k1, p))
    BY Zenon, LoanReturned DEF Keeps, Lends
<1>2. Moves(k1, process_unref(k1, p), None)  BY Zenon, <1>1, UnrefMoves
<1>3. CASE t = None  BY Zenon, <1>2, <1>3, MovesTrans
<1>4. CASE t \in Proc /\ k1.state[t] # "BLOCKED"
    BY Zenon, <1>2, <1>4, MovesAbout, MovesTrans
<1>5. CASE t = p
    <2>1. Fall(k1, process_unref(k1, p), p)
        <3>1. k1 \in KState /\ k1.state \in [Proc -> PState]
            BY Zenon, <1>1 DEF KInv, KState
        <3> QED  BY Zenon, <3>1, UnrefFields DEF Fall
    <2>2. Moves(k1, process_unref(k1, p), p)
        BY Zenon, <1>2, <2>1, ConstantsAssumption DEF Moves
    <2> QED  BY Zenon, <1>5, <2>2, MovesTrans
<1> QED  BY Zenon, <1>3, <1>4, <1>5

\* What wo_unlink() writes.
LEMMA UnlinkFields ==
    ASSUME NEW k \in KState, NEW p \in Proc, NEW w \in WaitObj
    PROVE  LET kk == wo_unlink(k, w, p)
           IN  /\ Rest(k, kk) /\ kk.current = k.current /\ kk.state = k.state
               /\ kk.on_queue = k.on_queue /\ kk.sleepers = k.sleepers
               /\ kk.wait_on = [k.wait_on EXCEPT ![p] = None]
  BY Zenon DEF wo_unlink, KState, Rest

\* What leaving the sleep list writes.
LEMMA SleepOffFields ==
    ASSUME NEW k \in KState, NEW p \in Proc,
           NEW kk \in {sleep_list_remove(k, p),
                       [sleep_list_remove(k, p) EXCEPT !.deadline[p] = 0]}
    PROVE  /\ Rest(k, kk) /\ kk.current = k.current /\ kk.state = k.state
           /\ kk.on_queue = k.on_queue /\ kk.wait_on = k.wait_on
           /\ kk.sleepers = RemoveFirst(k.sleepers, p)
  BY ZenonT(20) DEF sleep_list_remove, KState, Rest

\* What queueing a live process that is not on the queue writes.
LEMMA AddFields ==
    ASSUME NEW k \in KState, NEW p \in Proc, ~Dead(k, p), ~k.on_queue[p]
    PROVE  LET kk == scheduler_add_process(k, p)
           IN  /\ Rest(k, kk) /\ kk.current = k.current
               /\ kk.state = [k.state EXCEPT ![p] = "READY"]
               /\ kk.on_queue = [k.on_queue EXCEPT ![p] = TRUE]
               /\ kk.wait_on = k.wait_on /\ kk.sleepers = k.sleepers
<1> DEFINE kk == scheduler_add_process(k, p)
           R  == [k.ref EXCEPT ![p] = @ + 1]
           S  == [k.state EXCEPT ![p] = "READY"]
           O  == [k.on_queue EXCEPT ![p] = TRUE]
           Q  == Append(k.rq, p)
<1>1. kk = [k EXCEPT !.ref = R, !.state = S, !.on_queue = O, !.rq = Q]
    <2>1. process_ref(k, p) = [k EXCEPT !.ref = R]  BY Zenon DEF process_ref, KState
    <2>2. ~Dead(process_ref(k, p), p)  BY Zenon, <2>1 DEF Dead, KState
    <2>3. process_set_ready(process_ref(k, p), p) = [k EXCEPT !.ref = R, !.state = S]
        BY <2>1, <2>2 DEF process_set_ready, KState
    <2> QED  BY <2>3 DEF scheduler_add_process, KState
<1> HIDE DEF R, S, O, Q, kk
<1>2. /\ Rest(k, kk) /\ kk.current = k.current /\ kk.state = S
      /\ kk.on_queue = O /\ kk.wait_on = k.wait_on /\ kk.sleepers = k.sleepers
    BY Zenon, <1>1 DEF KState, Rest
<1> QED  BY Zenon, <1>2 DEF S, O, kk

\* What making a live process ready and queueing it writes.
LEMMA ReadyFields ==
    ASSUME NEW k \in KState, NEW p \in Proc, ~Dead(k, p)
    PROVE  LET kk == scheduler_add_process(process_set_ready(k, p), p)
           IN  /\ Rest(k, kk) /\ kk.current = k.current
               /\ kk.state = [k.state EXCEPT ![p] = "READY"]
               /\ kk.on_queue = [k.on_queue EXCEPT ![p] = TRUE]
               /\ kk.wait_on = k.wait_on /\ kk.sleepers = k.sleepers
<1> DEFINE k1 == process_set_ready(k, p)
           k2 == scheduler_add_process(k1, p)
<1>1. k.state \in [Proc -> PState] /\ k.on_queue \in [Proc -> BOOLEAN]
    BY Zenon DEF KState
<1>2. /\ k1 = [k EXCEPT !.state[p] = "READY"]  BY DEF process_set_ready
<1>3. /\ Rest(k, k1) /\ k1.current = k.current
      /\ k1.state = [k.state EXCEPT ![p] = "READY"] /\ k1.on_queue = k.on_queue
      /\ k1.wait_on = k.wait_on /\ k1.sleepers = k.sleepers
    BY Zenon, <1>2 DEF KState, Rest
<1>4. k1.state[p] = "READY" /\ ~Dead(k1, p)  BY <1>1, <1>3 DEF Dead
<1>5. k1 \in KState
    <2> DEFINE S == [k.state EXCEPT ![p] = "READY"]
    <2>1. S \in [Proc -> PState]  BY <1>1 DEF PState
    <2>2. k1 = [k EXCEPT !.state = S]  BY <1>2
    <2> HIDE DEF S, k1
    <2>3. [k EXCEPT !.state = S] \in KState  BY Zenon, <2>1 DEF KState
    <2> QED  BY Zenon, <2>2, <2>3
<1> HIDE DEF k1
<1>6. CASE k1.on_queue[p]
    <2>1. k2 = k1  BY Zenon, <1>6 DEF scheduler_add_process
    <2>2. k.on_queue = [k.on_queue EXCEPT ![p] = TRUE]  BY Zenon, <1>1, <1>3, <1>6
    <2> QED  BY Zenon, <1>3, <2>1, <2>2 DEF k1
<1>7. CASE ~k1.on_queue[p]
    <2>1. /\ Rest(k1, k2) /\ k2.current = k1.current
          /\ k2.state = [k1.state EXCEPT ![p] = "READY"]
          /\ k2.on_queue = [k1.on_queue EXCEPT ![p] = TRUE]
          /\ k2.wait_on = k1.wait_on /\ k2.sleepers = k1.sleepers
        BY Zenon, <1>4, <1>5, <1>7, AddFields
    <2> HIDE DEF k2
    <2>2. [k1.state EXCEPT ![p] = "READY"] = k1.state  BY <1>1, <1>3
    <2> QED  BY Zenon, <1>3, <2>1, <2>2 DEF Rest, k1, k2
<1> QED  BY Zenon, <1>6, <1>7

-----------------------------------------------------------------------------
(***************************************************************************)
(* Waking, aborting a wait, leaving the ready queue.                       *)
(***************************************************************************)
\* wo_unlink() moves nobody but the one it unlinks.
LEMMA UnlinkMoves ==
    ASSUME NEW k, KInv(k), NEW p \in Proc, NEW w \in WaitObj
    PROVE  Moves(k, wo_unlink(k, w, p), p)
<1> DEFINE kk == wo_unlink(k, w, p)
<1>1. k \in KState /\ k.wait_on \in [Proc -> WaitObj \cup {None}]
    BY Zenon DEF KInv, KState
<1>2. /\ Rest(k, kk) /\ kk.current = k.current /\ kk.state = k.state
      /\ kk.on_queue = k.on_queue /\ kk.sleepers = k.sleepers
      /\ kk.wait_on = [k.wait_on EXCEPT ![p] = None]
    BY Zenon, <1>1, UnlinkFields
<1> HIDE DEF kk
<1>3. \A q \in Proc : kk.wait_on[q] = IF q = p THEN None ELSE k.wait_on[q]
    BY Zenon, <1>1, <1>2
<1>4. Moves(k, kk, p)  BY <1>2, <1>3 DEF Moves, Frame, Rest, Move, Parked, Fall
<1> QED  BY <1>4 DEF kk

\* The waker's loop readies a BLOCKED waiter and touches no other process.
LEMMA WakePoppedMoves ==
    ASSUME NEW k, KInv(k), NEW p \in Proc, NEW w \in WaitObj, w # SleepObj,
           k.wait_on[p] = w
    PROVE  /\ Moves(k, wake_popped(k, w, p), None)
           /\ wake_popped(k, w, p).wait_on[p] = None
<1> DEFINE k1 == wo_unlink(k, w, p)
           k2 == [sleep_list_remove(k1, p) EXCEPT !.deadline[p] = 0]
           k3 == scheduler_add_process(process_set_ready(k2, p), p)
           k4 == IF k.state[p] = "BLOCKED" THEN k3 ELSE k1
           kk == wake_popped(k, w, p)
<1>0. /\ k \in KState /\ k.wait_on \in [Proc -> WaitObj \cup {None}]
      /\ k.state \in [Proc -> PState] /\ k.on_queue \in [Proc -> BOOLEAN]
      /\ k.sleepers \in Seq(Proc)
    BY Zenon DEF KInv, KState
<1>1. Lends(k, k1, p)  BY Zenon, UnlinkLends
<1>2. kk = process_unref(k4, p)  BY Zenon DEF wake_popped
<1>3. /\ Rest(k, k1) /\ k1.current = k.current /\ k1.state = k.state
      /\ k1.on_queue = k.on_queue /\ k1.sleepers = k.sleepers
      /\ k1.wait_on = [k.wait_on EXCEPT ![p] = None]
    BY <1>0, UnlinkFields
<1> HIDE DEF k1
<1>4. KInv(k1) /\ k1 \in KState  BY Zenon, <1>1 DEF Lends, KInv
<1>5. Keeps(k1, k2)  BY Zenon, <1>4, SleepRemoveKeeps
<1>6. /\ Rest(k1, k2) /\ k2.current = k1.current /\ k2.state = k1.state
      /\ k2.on_queue = k1.on_queue /\ k2.wait_on = k1.wait_on
      /\ k2.sleepers = RemoveFirst(k1.sleepers, p)
    BY Zenon, <1>4, SleepOffFields
<1> HIDE DEF k2
<1>7. KInv(k2) /\ k2 \in KState  BY Zenon, <1>5 DEF Keeps, KInv
<1>8. Keeps(k2, k3)
    <2> DEFINE r == process_set_ready(k2, p)
    <2>1. Keeps(k2, r) /\ KInv(r)  BY Zenon, <1>7, SetReadyKeeps DEF Keeps
    <2> HIDE DEF r
    <2>2. Keeps(r, scheduler_add_process(r, p))  BY Zenon, <2>1, AddKeeps
    <2>3. Keeps(k2, scheduler_add_process(r, p))  BY Zenon, <2>1, <2>2, KeepsTrans
    <2> QED  BY Zenon, <2>3 DEF r
<1>9. Lends(k, k4, p) /\ KInv(k4)
    <2>1. Lends(k, k3, p)  BY Zenon, <1>1, <1>5, <1>8, KeepsTrans, LendsTrans
    <2> QED  BY Zenon, <1>1, <2>1 DEF Lends
<1>10. ASSUME k.state[p] = "BLOCKED"
       PROVE  /\ Rest(k, k3) /\ k3.current = k.current
              /\ k3.state = [k.state EXCEPT ![p] = "READY"]
              /\ k3.on_queue = [k.on_queue EXCEPT ![p] = TRUE]
              /\ k3.wait_on = k1.wait_on /\ k3.sleepers = RemoveFirst(k.sleepers, p)
    <2>1. ~Dead(k2, p)  BY <1>3, <1>6, <1>10 DEF Dead
    <2>2. /\ Rest(k2, k3) /\ k3.current = k2.current
          /\ k3.state = [k2.state EXCEPT ![p] = "READY"]
          /\ k3.on_queue = [k2.on_queue EXCEPT ![p] = TRUE]
          /\ k3.wait_on = k2.wait_on /\ k3.sleepers = k2.sleepers
        BY Zenon, <1>7, <2>1, ReadyFields
    <2> HIDE DEF k3
    <2> QED  BY <1>3, <1>6, <2>2 DEF Rest
<1> HIDE DEF k3, kk
<1>11. /\ Frame(k, k4) /\ k4.wait_on[p] = None
       /\ \A q \in Proc : q # p => k4.wait_on[q] = k.wait_on[q]
    BY <1>0, <1>3, <1>10 DEF Frame, Rest
<1>12. ASSUME NEW q \in Proc PROVE Move(k, k4, q)
    <2>1. CASE k.state[p] = "BLOCKED" /\ q = p
        BY Zenon, <1>0, <1>10, <2>1 DEF Move
    <2>2. CASE k.state[p] = "BLOCKED" /\ q # p
        <3>1. Contains(k.sleepers, q) => Contains(k4.sleepers, q)
            BY <1>0, <1>10, <2>2, RemoveFirstOther
        <3> QED  BY <1>0, <1>10, <1>11, <2>2, <3>1 DEF Move, Parked
    <2>3. CASE k.state[p] # "BLOCKED"
        <3>1. k4 = k1  BY Zenon, <2>3
        <3> QED  BY Zenon, <1>3, <1>11, <2>3, <3>1 DEF Move, Parked
    <2> QED  BY Zenon, <2>1, <2>2, <2>3
<1>13. Moves(k, k4, None)  BY Zenon, <1>11, <1>12, MovesAll
<1> HIDE DEF k4
<1>14. Moves(k, kk, None)  BY Zenon, <1>2, <1>9, <1>13, LoanMoves
<1>15. kk.wait_on[p] = None
    <2>1. k4 \in KState  BY Zenon, <1>9 DEF KInv
    <2> QED  BY Zenon, <1>2, <1>11, <2>1, UnrefFields
<1> QED  BY Zenon, <1>14, <1>15 DEF kk

\* Nobody moves when nothing is done.
LEMMA MovesRefl ==
    ASSUME NEW k, NEW t
    PROVE  Moves(k, k, t)
  BY Zenon DEF Moves, Frame, Move, Parked, Fall

\* After wq_wake_one() the owner of a child_wait queue does not wait on it.
LEMMA WakeChildMoves ==
    ASSUME NEW k, KInv(k), NEW q \in Proc
    PROVE  /\ Moves(k, wake_child_wait(k, q), None)
           /\ wake_child_wait(k, q).wait_on[q] # q
<1>1. q \in WaitObj /\ q # SleepObj /\ q # None  BY Zenon, ConstantsAssumption DEF WaitObj
<1>2. Linked(k, q, q) <=> k.wait_on[q] = q  BY Zenon, <1>1 DEF KInv, LinkSound
<1>3. CASE Linked(k, q, q)
    BY Zenon, <1>1, <1>2, <1>3, WakePoppedMoves DEF wake_child_wait
<1>4. CASE ~Linked(k, q, q)
    BY Zenon, <1>2, <1>4, MovesRefl DEF wake_child_wait
<1> QED  BY Zenon, <1>3, <1>4

\* wait_object_abort() moves nobody but the one it unlinks.
LEMMA AbortMoves ==
    ASSUME NEW k, KInv(k), NEW p \in Proc, NEW w \in WaitObj
    PROVE  Moves(k, wait_object_abort(k, w, p), p)
<1>1. CASE Linked(k, w, p)
    <2> DEFINE k1 == wo_unlink(k, w, p)
    <2>1. k.wait_on[p] = w  BY Zenon, <1>1 DEF KInv, LinkSound
    <2>2. Lends(k, k1, p) /\ Moves(k, k1, p)  BY Zenon, <2>1, UnlinkLends, UnlinkMoves
    <2>3. wait_object_abort(k, w, p) = process_unref(k1, p)
        BY Zenon, <1>1 DEF wait_object_abort
    <2> HIDE DEF k1
    <2> QED  BY Zenon, <2>2, <2>3, LoanMoves
<1>2. CASE ~Linked(k, w, p)
    BY Zenon, <1>2, MovesRefl DEF wait_object_abort
<1> QED  BY Zenon, <1>1, <1>2

\* The guarded abort of the kill paths.
LEMMA AbortIfBlockedMoves ==
    ASSUME NEW k, KInv(k), NEW p \in Proc
    PROVE  Moves(k, abort_if_blocked(k, p), p)
<1>1. k.wait_on[p] \in WaitObj \cup {None}  BY Zenon DEF KInv, KState
<1> QED  BY Zenon, <1>1, AbortMoves, MovesRefl DEF abort_if_blocked

\* scheduler_remove_process() takes its process off the queue and moves nobody else.
LEMMA RemoveMoves ==
    ASSUME NEW k, KInv(k), NEW p \in Proc
    PROVE  /\ Moves(k, scheduler_remove_process(k, p), p)
           /\ ~scheduler_remove_process(k, p).on_queue[p]
<1>1. CASE ~k.on_queue[p]
    BY Zenon, <1>1, MovesRefl DEF scheduler_remove_process
<1>2. CASE k.on_queue[p]
    <2> DEFINE O  == [k.on_queue EXCEPT ![p] = FALSE]
               Q  == RemoveFirst(k.rq, p)
               k1 == [k EXCEPT !.on_queue = O, !.rq = Q]
               kk == process_unref(k1, p)
    <2>1. /\ k \in KState /\ k.rq \in Seq(Proc) /\ k.on_queue \in [Proc -> BOOLEAN]
          /\ k.state \in [Proc -> PState]
        BY Zenon DEF KInv, KState
    <2>2. O \in [Proc -> BOOLEAN] /\ Q \in Seq(Proc)  BY <2>1, RemoveFirstType
    <2>3. scheduler_remove_process(k, p) = kk
        BY <1>2, <2>1 DEF scheduler_remove_process
    <2>4. k1 \in KState
        <3> HIDE DEF O, Q
        <3> QED  BY Zenon, <2>1, <2>2 DEF KState
    <2>5. /\ Rest(k, k1) /\ k1.current = k.current /\ k1.state = k.state
          /\ k1.on_queue = O /\ k1.wait_on = k.wait_on /\ k1.sleepers = k.sleepers
        BY Zenon, <2>1 DEF KState, Rest
    <2> HIDE DEF k1
    <2>6. /\ Rest(k1, kk) /\ kk.current = k1.current
          /\ kk.on_queue = k1.on_queue /\ kk.wait_on = k1.wait_on
          /\ kk.sleepers = k1.sleepers
          /\ \E x \in {k1.state[p], "FREE"} : kk.state = [k1.state EXCEPT ![p] = x]
        BY Zenon, <2>4, UnrefFields
    <2> HIDE DEF kk
    <2>7. /\ Frame(k, kk) /\ ~kk.on_queue[p] /\ Fall(k, kk, p)
        BY <2>1, <2>5, <2>6 DEF Frame, Rest, Fall
    <2>8. ASSUME NEW q \in Proc, q # p PROVE Move(k, kk, q)
        BY <2>1, <2>5, <2>6, <2>8 DEF Move, Parked
    <2> QED  BY Zenon, <2>3, <2>7, <2>8 DEF Moves
<1> QED  BY Zenon, <1>1, <1>2

\* wo_park_and_cleanup() moves nobody but its caller.
LEMMA CleanupMoves ==
    ASSUME NEW k, KInv(k), NEW p \in Proc, NEW w \in WaitObj
    PROVE  Moves(k, wait_object_cleanup(k, w, p), p)
<1> DEFINE k1 == wait_object_abort(k, w, p)
           k2 == [sleep_list_remove(k1, p) EXCEPT !.deadline[p] = 0]
<1>1. Keeps(k, k1) /\ Moves(k, k1, p)  BY Zenon, AbortKeeps, AbortMoves
<1>2. wait_object_cleanup(k, w, p) = k2  BY Zenon DEF wait_object_cleanup
<1> HIDE DEF k1
<1>3. k1 \in KState /\ k1.sleepers \in Seq(Proc)
    BY Zenon, <1>1 DEF Keeps, KInv, KState
<1>4. /\ Rest(k1, k2) /\ k2.current = k1.current /\ k2.state = k1.state
      /\ k2.on_queue = k1.on_queue /\ k2.wait_on = k1.wait_on
      /\ k2.sleepers = RemoveFirst(k1.sleepers, p)
    BY Zenon, <1>3, SleepOffFields
<1> HIDE DEF k2
<1>5. \A q \in Proc : q # p /\ Contains(k1.sleepers, q) => Contains(k2.sleepers, q)
    BY <1>3, <1>4, RemoveFirstOther
<1>6. Moves(k1, k2, p)  BY <1>4, <1>5 DEF Moves, Frame, Rest, Move, Parked, Fall
<1> QED  BY Zenon, <1>1, <1>2, <1>6, MovesTrans

-----------------------------------------------------------------------------
(***************************************************************************)
(* Termination.                                                            *)
(***************************************************************************)
\* c is a zombie that waitpid() by p would reap.
ZombieOf(k, c, p) == IsChildOf(k, c, p) /\ k.state[c] = "TERMINATED"

\* Whoever is on its child_wait queue, asleep or already woken by the timer, has
\* no zombie child.
WaitInv(k) ==
    \A p \in Proc : k.wait_on[p] = p => \A c \in Proc : ~ZombieOf(k, c, p)

\* The children of t are init's; every other process keeps its parent.
Inherited(k, kk, t) ==
    \A q \in Proc :
        IF t # InitProc /\ q \in Children(k, t)
        THEN kk.parent[q] = InitProc /\ kk.kin[q]
        ELSE kk.parent[q] = k.parent[q] /\ kk.kin[q] = k.kin[q]

\* t is dead and off the ready queue, the others move.
Ends(k, kk, t) ==
    /\ kk.current = k.current /\ kk.reaped = k.reaped
    /\ \A q \in Proc : kk.wait_on[q] \in {k.wait_on[q], None}
    /\ \A q \in Proc : q # t => Move(k, kk, q)
    /\ Dead(kk, t) /\ ~kk.on_queue[t]
    /\ Inherited(k, kk, t)

\* A step after which less is on a wait object, and no new process is dead.
LEMMA MovesWaitInv ==
    ASSUME NEW k, NEW kk, NEW t, WaitInv(k), Moves(k, kk, t)
    PROVE  WaitInv(kk)
<1> SUFFICES ASSUME NEW p \in Proc, NEW c \in Proc, kk.wait_on[p] = p, ZombieOf(kk, c, p)
             PROVE  FALSE
    BY Zenon DEF WaitInv
<1>1. p # None  BY Zenon, ConstantsAssumption
<1>2. k.wait_on[p] = p  BY <1>1 DEF Moves, Frame
<1>3. k.state[c] = "TERMINATED"  BY DEF Moves, Move, Fall, ZombieOf
<1>4. ZombieOf(k, c, p)  BY <1>3 DEF Moves, Frame, ZombieOf, IsChildOf
<1> QED  BY Zenon, <1>2, <1>4 DEF WaitInv

\* What marking a process TERMINATED and reparenting its children write.
LEMMA ReparentFields ==
    ASSUME NEW k, KInv(k), NEW t \in Proc
    PROVE  LET r == reparent([k EXCEPT !.state[t] = "TERMINATED"], t)
           IN  /\ r.current = k.current /\ r.reaped = k.reaped
               /\ r.on_queue = k.on_queue /\ r.wait_on = k.wait_on
               /\ r.sleepers = k.sleepers
               /\ r.state = [k.state EXCEPT ![t] = "TERMINATED"]
               /\ Inherited(k, r, t)
<1> DEFINE k1 == [k EXCEPT !.state[t] = "TERMINATED"]
           r  == reparent(k1, t)
<1>1. /\ k \in KState /\ k.state \in [Proc -> PState]
      /\ k.parent \in [Proc -> Proc \cup {None}] /\ k.kin \in [Proc -> BOOLEAN]
    BY Zenon DEF KInv, KState
<1>2. /\ k1.current = k.current /\ k1.reaped = k.reaped /\ k1.parent = k.parent
      /\ k1.on_queue = k.on_queue /\ k1.wait_on = k.wait_on /\ k1.kin = k.kin
      /\ k1.sleepers = k.sleepers /\ k1.state = [k.state EXCEPT ![t] = "TERMINATED"]
    BY Zenon, <1>1 DEF KState
<1>3. k1 \in KState  BY Zenon, SetStateKeeps DEF Keeps, KInv, PState
<1>4. Children(k1, t) = Children(k, t)  BY <1>1, <1>2 DEF Children
<1> HIDE DEF k1
<1>5. CASE t = InitProc
    <2>1. r = k1  BY Zenon, <1>5 DEF reparent
    <2>2. Inherited(k, k1, t)  BY Zenon, <1>2, <1>5 DEF Inherited
    <2> QED  BY Zenon, <1>2, <2>1, <2>2 DEF k1
<1>6. CASE t # InitProc
    <2> DEFINE P == [q \in Proc |-> IF q \in Children(k1, t) THEN InitProc
                                    ELSE k1.parent[q]]
               N == [q \in Proc |-> k1.kin[q] \/ q \in Children(k1, t)]
    <2>1. r = [k1 EXCEPT !.parent = P, !.kin = N]  BY Zenon, <1>6 DEF reparent
    <2>2. /\ r.current = k1.current /\ r.reaped = k1.reaped
          /\ r.on_queue = k1.on_queue /\ r.wait_on = k1.wait_on
          /\ r.sleepers = k1.sleepers /\ r.state = k1.state
          /\ r.parent = P /\ r.kin = N
        BY Zenon, <1>3, <2>1 DEF KState
    <2> HIDE DEF r
    <2>3. ASSUME NEW q \in Proc
          PROVE  IF q \in Children(k, t)
                 THEN r.parent[q] = InitProc /\ r.kin[q]
                 ELSE r.parent[q] = k.parent[q] /\ r.kin[q] = k.kin[q]
        <3>1. k.kin[q] \in BOOLEAN  BY Zenon, <1>1
        <3>2. r.parent[q] = IF q \in Children(k, t) THEN InitProc ELSE k.parent[q]
            BY <1>2, <1>4, <2>2
        <3>3. r.kin[q] = (k.kin[q] \/ q \in Children(k, t))  BY Zenon, <1>2, <1>4, <2>2
        <3> QED  BY Zenon, <3>1, <3>2, <3>3
    <2>4. Inherited(k, r, t)  BY Zenon, <1>6, <2>3 DEF Inherited
    <2> QED  BY Zenon, <1>2, <2>2, <2>4 DEF k1, r
<1> QED  BY Zenon, <1>5, <1>6

\* Waking a child_wait queue is a call that is about no dead process.
LEMMA WakeChildAbout ==
    ASSUME NEW k, KInv(k), NEW q \in Proc, NEW t \in Proc, Dead(k, t)
    PROVE  LET kk == wake_child_wait(k, q)
           IN  /\ Keeps(k, kk) /\ KInv(kk) /\ Moves(k, kk, t) /\ Dead(kk, t)
               /\ kk.wait_on[q] # q
<1> DEFINE kk == wake_child_wait(k, q)
<1>1. Keeps(k, kk) /\ Moves(k, kk, None) /\ kk.wait_on[q] # q
    BY Zenon, WakeChildKeeps, WakeChildMoves
<1> HIDE DEF kk
<1>2. k.state[t] # "BLOCKED"  BY DEF Dead
<1>3. Moves(k, kk, t)  BY Zenon, <1>1, <1>2, MovesAbout
<1>4. Dead(kk, t)  BY <1>3 DEF Dead, Moves, Fall
<1> QED  BY Zenon, <1>1, <1>3, <1>4 DEF Keeps, kk

\* process_on_terminate() and the removal from the ready queue, once t is marked
\* dead and its children are reparented.
LEMMA AfterReparent ==
    ASSUME NEW r, KInv(r), NEW t \in Proc, NEW z, Dead(r, t)
    PROVE  LET kk == scheduler_remove_process(
                         wake_child_wait(wake_init(wake_parent(r, t), z), t), t)
           IN  /\ KInv(kk) /\ Moves(r, kk, t) /\ ~kk.on_queue[t] /\ Dead(kk, t)
               /\ kk.wait_on[t] # t
               /\ HasParent(r, t) => kk.wait_on[r.parent[t]] # r.parent[t]
               /\ z => kk.wait_on[InitProc] # InitProc
<1> DEFINE k2 == wake_parent(r, t)
           k3 == wake_init(k2, z)
           k4 == wake_child_wait(k3, t)
           k5 == scheduler_remove_process(k4, t)
<1>0. InitProc \in Proc /\ None \notin Proc  BY Zenon, ConstantsAssumption
<1>1. /\ Moves(r, k2, t) /\ KInv(k2) /\ Dead(k2, t)
      /\ HasParent(r, t) => k2.wait_on[r.parent[t]] # r.parent[t]
    <2>1. CASE HasParent(r, t)
        <3>1. r.parent[t] \in Proc  BY Zenon, <2>1 DEF HasParent
        <3> QED  BY Zenon, <2>1, <3>1, WakeChildAbout DEF wake_parent
    <2>2. CASE ~HasParent(r, t)  BY Zenon, <2>2, MovesRefl DEF wake_parent
    <2> QED  BY Zenon, <2>1, <2>2
<1> HIDE DEF k2
<1>2. /\ Moves(k2, k3, t) /\ KInv(k3) /\ Dead(k3, t)
      /\ z => k3.wait_on[InitProc] # InitProc
    <2>1. CASE z /\ k2.state[InitProc] # "FREE"
        BY Zenon, <1>0, <1>1, <2>1, WakeChildAbout DEF wake_init
    <2>2. CASE ~z  BY Zenon, <1>1, <2>2, MovesRefl DEF wake_init
    <2>3. CASE z /\ k2.state[InitProc] = "FREE"
        <3>1. k2.wait_on[InitProc] = None
            BY <1>0, <1>1, <2>3 DEF KInv, Unheld, Held, One
        <3> QED  BY Zenon, <1>0, <1>1, <2>3, <3>1, MovesRefl DEF wake_init
    <2> QED  BY Zenon, <2>1, <2>2, <2>3
<1> HIDE DEF k3
<1>3. Moves(k3, k4, t) /\ KInv(k4) /\ Dead(k4, t) /\ k4.wait_on[t] # t
    BY Zenon, <1>2, WakeChildAbout
<1> HIDE DEF k4
<1>4. Moves(k4, k5, t) /\ KInv(k5) /\ ~k5.on_queue[t]
    BY Zenon, <1>3, RemoveMoves, RemoveKeeps DEF Keeps
<1> HIDE DEF k5
<1>5. Dead(k5, t)  BY <1>3, <1>4 DEF Dead, Moves, Fall
<1>6. Moves(k3, k5, t) /\ Moves(k2, k5, t) /\ Moves(r, k5, t)
    BY Zenon, <1>1, <1>2, <1>3, <1>4, MovesTrans
<1>7. \A q \in Proc : /\ k2.wait_on[q] # q => k5.wait_on[q] # q
                      /\ k3.wait_on[q] # q => k5.wait_on[q] # q
                      /\ k4.wait_on[q] # q => k5.wait_on[q] # q
    BY <1>0, <1>4, <1>6 DEF Moves, Frame
<1>8. HasParent(r, t) => k5.wait_on[r.parent[t]] # r.parent[t]
    BY Zenon, <1>1, <1>7 DEF HasParent
<1>9. k5.wait_on[t] # t /\ (z => k5.wait_on[InitProc] # InitProc)
    BY Zenon, <1>0, <1>2, <1>3, <1>7
<1> QED  BY Zenon, <1>4, <1>5, <1>6, <1>8, <1>9 DEF k2, k3, k4, k5

\* Every kill path: t is dead and off the ready queue, its children are init's,
\* and nobody sleeps through it who has a zombie to reap now.
LEMMA TerminateEnds ==
    ASSUME NEW k, KInv(k), NEW t \in Proc, WaitInv(k)
    PROVE  Ends(k, terminate(k, t), t) /\ WaitInv(terminate(k, t))
<1> DEFINE k1 == [k EXCEPT !.state[t] = "TERMINATED"]
           z  == InheritsZombie(k1, t)
           r  == reparent(k1, t)
           kk == terminate(k, t)
<1>0. InitProc \in Proc /\ None \notin Proc /\ k.state \in [Proc -> PState]
    BY Zenon, ConstantsAssumption DEF KInv, KState
<1>1. KInv(r)
    <2>1. KInv(k1)  BY Zenon, SetStateKeeps DEF Keeps, PState
    <2> HIDE DEF k1
    <2> QED  BY Zenon, <2>1, ReparentKeeps DEF Keeps
<1>2. /\ r.current = k.current /\ r.reaped = k.reaped
      /\ r.on_queue = k.on_queue /\ r.wait_on = k.wait_on
      /\ r.sleepers = k.sleepers
      /\ r.state = [k.state EXCEPT ![t] = "TERMINATED"]
      /\ Inherited(k, r, t)
    BY Zenon, ReparentFields
<1>3. kk = scheduler_remove_process(
               wake_child_wait(wake_init(wake_parent(r, t), z), t), t)
    BY Zenon DEF terminate, process_on_terminate
<1>4. z <=> t # InitProc /\ \E q \in Children(k, t) : k.state[q] = "TERMINATED"
    <2>1. k1.state = [k.state EXCEPT ![t] = "TERMINATED"] /\ k1.parent = k.parent
        BY Zenon DEF KInv, KState
    <2> QED  BY <1>0, <2>1 DEF InheritsZombie, Children
<1> HIDE DEF r, z, kk
<1>5. Dead(r, t) /\ \A q \in Proc : q # t => r.state[q] = k.state[q]
    BY <1>0, <1>2 DEF Dead
<1>6. /\ KInv(kk) /\ Moves(r, kk, t) /\ ~kk.on_queue[t] /\ Dead(kk, t)
      /\ kk.wait_on[t] # t
      /\ HasParent(r, t) => kk.wait_on[r.parent[t]] # r.parent[t]
      /\ z => kk.wait_on[InitProc] # InitProc
    BY <1>1, <1>3, <1>5, AfterReparent
<1>7. Ends(k, kk, t)
    <2>1. ASSUME NEW q \in Proc, q # t PROVE Move(k, kk, q)
        <3>1. Move(r, kk, q)  BY Zenon, <1>6, <2>1 DEF Moves
        <3> QED  BY <1>2, <1>5, <2>1, <3>1 DEF Move, Parked
    <2>2. /\ kk.current = k.current /\ kk.reaped = k.reaped
          /\ \A q \in Proc : kk.wait_on[q] \in {k.wait_on[q], None}
        BY Zenon, <1>2, <1>6 DEF Moves, Frame
    <2>3. Inherited(k, kk, t)
        BY Zenon, <1>2, <1>6 DEF Moves, Frame, Inherited
    <2> QED  BY Zenon, <1>6, <2>1, <2>2, <2>3 DEF Ends
<1>8. WaitInv(kk)
    <2> SUFFICES ASSUME NEW p \in Proc, NEW c \in Proc, kk.wait_on[p] = p,
                        ZombieOf(kk, c, p)
                 PROVE  FALSE
        BY Zenon DEF WaitInv
    <2>1. r.wait_on[p] = p /\ k.wait_on[p] = p /\ p # t
        BY <1>0, <1>2, <1>6 DEF Moves, Frame
    <2>2. r.parent[c] = p /\ (p = InitProc \/ r.kin[c])
        BY Zenon, <1>6 DEF ZombieOf, IsChildOf, Moves, Frame
    <2>3. r.state[c] = "TERMINATED"
        BY <1>6 DEF Moves, Move, Fall, ZombieOf
    <2>4. CASE c = t
        <3>1. r.state[p] # "FREE"  BY <1>0, <1>1, <2>1 DEF KInv, Unheld, Held, One
        <3> QED  BY Zenon, <1>6, <2>2, <2>4, <3>1 DEF HasParent
    <2>5. CASE c # t /\ ~(t # InitProc /\ c \in Children(k, t))
        <3>1. k.parent[c] = p /\ (p = InitProc \/ k.kin[c])
            BY <1>2, <2>2, <2>3, <2>5 DEF Inherited
        <3>2. k.state[c] = "TERMINATED"  BY Zenon, <1>5, <2>3, <2>5
        <3>3. ZombieOf(k, c, p)  BY <3>1, <3>2 DEF ZombieOf, IsChildOf
        <3> QED  BY Zenon, <2>1, <3>3 DEF WaitInv
    <2>6. CASE c # t /\ t # InitProc /\ c \in Children(k, t)
        <3>1. p = InitProc  BY <1>2, <2>2, <2>3, <2>6 DEF Inherited
        <3>2. z  BY Zenon, <1>4, <1>5, <2>3, <2>6
        <3> QED  BY Zenon, <1>6, <3>1, <3>2
    <2> QED  BY Zenon, <2>4, <2>5, <2>6
<1> QED  BY Zenon, <1>7, <1>8 DEF kk

\* What is done to t before the kill changes nothing more.
LEMMA MovesEnds ==
    ASSUME NEW k, NEW k1, NEW k2, NEW t \in Proc, Moves(k, k1, t), Ends(k1, k2, t),
           \A q \in Proc : q # t => k1.state[q] = k.state[q]
    PROVE  Ends(k, k2, t)
<1>1. ASSUME NEW q \in Proc, q # t PROVE Move(k, k2, q)
    <2>1. Move(k, k1, q) /\ Move(k1, k2, q)  BY Zenon, <1>1 DEF Moves, Ends
    <2>2. k1.wait_on[q] \in {k.wait_on[q], None}  BY Zenon DEF Moves, Frame
    <2> QED  BY <2>1, <2>2 DEF Move, Parked
<1>2. k2.current = k.current /\ k2.reaped = k.reaped  BY Zenon DEF Moves, Frame, Ends
<1>3. \A q \in Proc : k2.wait_on[q] \in {k.wait_on[q], None}
    BY DEF Moves, Frame, Ends
<1>4. Dead(k2, t) /\ ~k2.on_queue[t]  BY Zenon DEF Ends
<1>5. k1.parent = k.parent /\ k1.kin = k.kin  BY Zenon DEF Moves, Frame
<1>6. Children(k1, t) = Children(k, t)  BY <1>5 DEF Children
<1>7. Inherited(k1, k2, t)  BY Zenon DEF Ends
<1>8. Inherited(k, k2, t)  BY Zenon, <1>5, <1>6, <1>7 DEF Inherited
<1> QED  BY Zenon, <1>1, <1>2, <1>3, <1>4, <1>8 DEF Ends

\* Nor does dropping a reference on t after it.
LEMMA EndsMoves ==
    ASSUME NEW k, NEW k1, NEW k2, NEW t \in Proc, Ends(k, k1, t), Moves(k1, k2, t)
    PROVE  Ends(k, k2, t)
<1>1. ASSUME NEW q \in Proc, q # t PROVE Move(k, k2, q)
    <2>1. Move(k, k1, q) /\ Move(k1, k2, q)  BY Zenon, <1>1 DEF Moves, Ends
    <2>2. k1.wait_on[q] \in {k.wait_on[q], None}  BY Zenon DEF Ends
    <2> QED  BY <2>1, <2>2 DEF Move, Parked
<1>2. k2.current = k.current /\ k2.reaped = k.reaped  BY Zenon DEF Moves, Frame, Ends
<1>3. \A q \in Proc : k2.wait_on[q] \in {k.wait_on[q], None}
    BY DEF Moves, Frame, Ends
<1>4. Dead(k2, t) /\ ~k2.on_queue[t]  BY DEF Ends, Moves, Fall, Dead
<1>5. Inherited(k, k2, t)  BY Zenon DEF Ends, Inherited, Moves, Frame
<1> QED  BY Zenon, <1>1, <1>2, <1>3, <1>4, <1>5 DEF Ends

-----------------------------------------------------------------------------
(***************************************************************************)
(* The invariant of the life of a process, and what keeps it.              *)
(***************************************************************************)
\* The scheduler finds p if it can run, and nothing dead is on its queue.  A
\* BLOCKED process is on it if it was woken while it halted in place.
Sane(k, p) ==
    /\ k.on_queue[p] => k.state[p] \in {"READY", "BLOCKED"}
    /\ k.state[p] = "RUNNING" => k.current = p
    /\ k.state[p] = "READY" => k.on_queue[p] \/ k.current = p

\* Only a dead process that has left the CPU was reaped; nobody is its own
\* parent, and init has none, so that it is never reaped.
Family(k) ==
    /\ \A p \in Proc : k.reaped[p] => Dead(k, p) /\ k.current # p
    /\ \A p \in Proc : k.parent[p] # p
    /\ ~k.reaped[InitProc] /\ k.parent[InitProc] = None

Good(k) == (\A p \in Proc : Sane(k, p)) /\ Family(k) /\ WaitInv(k)

\* A call keeps the invariant if it leaves the process it is about sane.
LEMMA MovesGood ==
    ASSUME NEW k, NEW kk, NEW t, Good(k), Moves(k, kk, t), t \in Proc => Sane(kk, t)
    PROVE  Good(kk)
<1>1. WaitInv(kk)  BY Zenon, MovesWaitInv DEF Good
<1>2. ASSUME NEW q \in Proc PROVE Sane(kk, q)
    <2>1. CASE q = t  BY Zenon, <2>1
    <2>2. CASE q # t
        <3>1. Move(k, kk, q) /\ Sane(k, q) /\ kk.current = k.current
            BY Zenon, <2>2 DEF Moves, Frame, Good
        <3> QED  BY <3>1 DEF Move, Sane
    <2> QED  BY Zenon, <2>1, <2>2
<1>3. ASSUME NEW q \in Proc, kk.reaped[q] PROVE Dead(kk, q) /\ kk.current # q
    <2>1. Dead(k, q) /\ kk.current # q  BY Zenon, <1>3 DEF Good, Family, Moves, Frame
    <2> QED  BY <2>1 DEF Moves, Move, Fall, Dead
<1>4. Family(kk)  BY Zenon, <1>3 DEF Good, Family, Moves, Frame
<1> QED  BY Zenon, <1>1, <1>2, <1>4 DEF Good

\* So does a termination.
LEMMA EndsGood ==
    ASSUME NEW k, NEW kk, NEW t \in Proc, Good(k), Ends(k, kk, t), WaitInv(kk)
    PROVE  Good(kk)
<1>0. InitProc \in Proc /\ None \notin Proc  BY Zenon, ConstantsAssumption
<1>1. ASSUME NEW q \in Proc PROVE Sane(kk, q)
    <2>1. CASE q = t  BY <2>1 DEF Sane, Ends, Dead
    <2>2. CASE q # t
        <3>1. Move(k, kk, q) /\ Sane(k, q) /\ kk.current = k.current
            BY Zenon, <2>2 DEF Ends, Good
        <3> QED  BY <3>1 DEF Move, Sane
    <2> QED  BY Zenon, <2>1, <2>2
<1>2. ASSUME NEW q \in Proc, kk.reaped[q] PROVE Dead(kk, q) /\ kk.current # q
    <2>1. Dead(k, q) /\ kk.current # q  BY Zenon, <1>2 DEF Good, Family, Ends
    <2> QED  BY <2>1 DEF Ends, Move, Dead
<1>3. ASSUME NEW q \in Proc PROVE kk.parent[q] # q /\ (q = InitProc => kk.parent[q] = None)
    <2>1. k.parent[q] # q /\ k.parent[InitProc] = None  BY Zenon DEF Good, Family
    <2>2. q = InitProc => q \notin Children(k, t)  BY <1>0, <2>1 DEF Children
    <2>3. IF t # InitProc /\ q \in Children(k, t)
          THEN kk.parent[q] = InitProc ELSE kk.parent[q] = k.parent[q]
        BY Zenon DEF Ends, Inherited
    <2> QED  BY <2>1, <2>2, <2>3
<1>4. Family(kk)  BY Zenon, <1>0, <1>2, <1>3 DEF Good, Family, Ends
<1> QED  BY Zenon, <1>1, <1>4 DEF Good

-----------------------------------------------------------------------------
(***************************************************************************)
(* What becomes of one process in one step of the kernel.                  *)
(***************************************************************************)
\* q has the CPU in kk only if it had it in k.
Stays(k, kk, q) == kk.current = q => k.current = q

\* q is left alone, woken through its wait object, or freed.
Calm(k, kk, q) == Move(k, kk, q) /\ (kk.current = q <=> k.current = q)

\* q dies, or was dead.
Dying(k, kk, q) == Dead(kk, q) /\ ~kk.on_queue[q] /\ Stays(k, kk, q)

\* q was on the ready queue, or is woken, and is given the CPU.
Picked(k, kk, q) ==
    /\ kk.current = q /\ kk.state[q] = "RUNNING" /\ ~kk.on_queue[q]
    /\ k.on_queue[q] \/ (k.state[q] = "BLOCKED" /\ k.wait_on[q] # SleepObj)

\* q gives up the CPU and is queued, or takes it up again.
Requeued(k, kk, q) ==
    /\ k.current = q /\ ~Dead(k, q) /\ k.wait_on[q] = None
    /\ \/ kk.state[q] = "READY" /\ kk.on_queue[q]
       \/ /\ kk.current = q /\ ~kk.on_queue[q]
          /\ kk.state[q] \in {"READY", "RUNNING"}

\* q gives up the CPU, or picks itself, as it is.
Leaves(k, kk, q) ==
    /\ k.current = q /\ kk.state[q] = k.state[q] /\ Parked(k, kk, q)
    /\ \/ kk.current = q /\ ~kk.on_queue[q] /\ k.state[q] # "TERMINATED"
       \/ /\ kk.current # q /\ kk.on_queue[q] = k.on_queue[q]
          /\ k.state[q] # "RUNNING" /\ (k.state[q] = "READY" => k.on_queue[q])

\* q, which is BLOCKED or running, leaves its wait object or the sleep list.
Unparked(k, kk, q) ==
    /\ kk.state[q] = k.state[q] /\ (kk.on_queue[q] => k.on_queue[q])
    /\ k.current = q \/ k.state[q] = "BLOCKED"
    /\ kk.current = q <=> k.current = q

\* q blocks: a waker of its wait object or the timer can reach it.
Blocks(k, kk, q) ==
    /\ k.current = q /\ kk.state[q] = "BLOCKED" /\ kk.on_queue[q] = k.on_queue[q]
    /\ kk.wait_on[q] \notin {None, SleepObj} \/ Contains(kk.sleepers, q)

\* A runnable q is stopped.
Stops(k, kk, q) ==
    /\ k.state[q] \in {"RUNNING", "READY"}
    /\ kk.state[q] = "BLOCKED" /\ ~kk.on_queue[q] /\ Stays(k, kk, q)

\* A BLOCKED q is made ready, whatever it waits for.
Readied(k, kk, q) ==
    /\ k.state[q] = "BLOCKED" /\ kk.state[q] = "READY" /\ kk.on_queue[q]
    /\ Stays(k, kk, q)

\* q is created.
Born(k, kk, q) ==
    /\ k.state[q] = "FREE" /\ kk.state[q] = "READY" /\ kk.on_queue[q]
    /\ Stays(k, kk, q) /\ ~kk.reaped[q]

\* What every step does, whoever takes it.
Shift(k, kk, q) ==
    \/ Calm(k, kk, q) \/ Dying(k, kk, q) \/ Picked(k, kk, q)
    \/ Requeued(k, kk, q) \/ Leaves(k, kk, q)

\* Each of them leaves q sane.
LEMMA ShiftSane ==
    ASSUME NEW k, NEW kk, NEW q \in Proc, Sane(k, q),
           \/ Shift(k, kk, q) \/ Unparked(k, kk, q) \/ Blocks(k, kk, q)
           \/ Stops(k, kk, q) \/ Readied(k, kk, q) \/ Born(k, kk, q)
    PROVE  Sane(kk, q)
<1>1. CASE Calm(k, kk, q)  BY <1>1 DEF Calm, Sane, Move
<1>2. CASE Dying(k, kk, q)  BY <1>2 DEF Dying, Sane, Dead
<1>3. CASE Picked(k, kk, q)  BY <1>3 DEF Picked, Sane
<1>4. CASE Requeued(k, kk, q)  BY <1>4 DEF Requeued, Sane
<1>5. CASE Leaves(k, kk, q)  BY <1>5 DEF Leaves, Sane
<1>6. CASE Unparked(k, kk, q)  BY <1>6 DEF Unparked, Sane
<1>7. CASE Blocks(k, kk, q)  BY <1>7 DEF Blocks, Sane
<1>8. CASE Stops(k, kk, q) \/ Readied(k, kk, q) \/ Born(k, kk, q)
    BY <1>8 DEF Stops, Readied, Born, Sane
<1> QED  BY Zenon, <1>1, <1>2, <1>3, <1>4, <1>5, <1>6, <1>7, <1>8 DEF Shift

\* And, if it was dead and off the CPU, dead and off the CPU.
LEMMA ShiftDead ==
    ASSUME NEW k, NEW kk, NEW q \in Proc, Sane(k, q), Dead(k, q), k.current # q,
           \/ Shift(k, kk, q) \/ Unparked(k, kk, q) \/ Blocks(k, kk, q)
           \/ Stops(k, kk, q) \/ Readied(k, kk, q)
    PROVE  Dead(kk, q) /\ kk.current # q
<1>1. CASE Calm(k, kk, q)  BY <1>1 DEF Calm, Move, Dead
<1>2. CASE Dying(k, kk, q)  BY <1>2 DEF Dying, Stays
<1>3. CASE Picked(k, kk, q)  BY <1>3 DEF Picked, Sane, Dead
<1>4. CASE Requeued(k, kk, q) \/ Leaves(k, kk, q) \/ Blocks(k, kk, q)
    BY Zenon, <1>4 DEF Requeued, Leaves, Blocks
<1>5. CASE Unparked(k, kk, q)  BY Zenon, <1>5 DEF Unparked, Dead
<1>6. CASE Stops(k, kk, q) \/ Readied(k, kk, q)  BY <1>6 DEF Stops, Readied, Dead
<1> QED  BY Zenon, <1>1, <1>2, <1>3, <1>4, <1>5, <1>6 DEF Shift

\* q starts to wait for its children only if it has no zombie child.
Awaits(k, kk, q) ==
    kk.wait_on[q] = q => k.wait_on[q] = q \/ \A c \in Proc : ~ZombieOf(k, c, q)

LEMMA AwaitsNothing ==
    ASSUME NEW k, NEW kk, NEW q \in Proc, kk.wait_on[q] \in {k.wait_on[q], None}
    PROVE  Awaits(k, kk, q)
  BY ConstantsAssumption DEF Awaits

\* A step that keeps the families, makes no zombie and lets nobody wait for a
\* child that is one keeps the invariant.
LEMMA ShiftGood ==
    ASSUME NEW k, NEW kk, Good(k), Rest(k, kk),
           \A q \in Proc : \/ Shift(k, kk, q) \/ Unparked(k, kk, q) \/ Blocks(k, kk, q)
                           \/ Stops(k, kk, q) \/ Readied(k, kk, q),
           \A q \in Proc : kk.state[q] = "TERMINATED" => k.state[q] = "TERMINATED",
           \A q \in Proc : Awaits(k, kk, q)
    PROVE  Good(kk)
<1>1. ASSUME NEW q \in Proc PROVE Sane(kk, q)
    <2>1. Sane(k, q)  BY Zenon DEF Good
    <2> QED  BY Zenon, <2>1, ShiftSane
<1>2. ASSUME NEW q \in Proc, kk.reaped[q] PROVE Dead(kk, q) /\ kk.current # q
    <2>1. Sane(k, q) /\ Dead(k, q) /\ k.current # q  BY Zenon, <1>2 DEF Good, Family, Rest
    <2> QED  BY Zenon, <2>1, ShiftDead
<1>3. Family(kk)  BY Zenon, <1>2 DEF Good, Family, Rest
<1>4. ASSUME NEW p \in Proc, kk.wait_on[p] = p, NEW c \in Proc, ZombieOf(kk, c, p)
      PROVE  FALSE
    <2>1. ZombieOf(k, c, p)  BY <1>4 DEF ZombieOf, IsChildOf, Rest
    <2>2. k.wait_on[p] = p  BY Zenon, <1>4, <2>1 DEF Awaits
    <2> QED  BY Zenon, <2>1, <2>2 DEF Good, WaitInv
<1>5. WaitInv(kk)  BY Zenon, <1>4 DEF WaitInv
<1> QED  BY Zenon, <1>1, <1>3, <1>5 DEF Good

-----------------------------------------------------------------------------
(***************************************************************************)
(* Switching to the next process.                                          *)
(***************************************************************************)
\* What handing the CPU over writes.
LEMMA SwitchFields ==
    ASSUME NEW k \in KState, NEW p \in Proc, NEW n \in Proc \cup {Idle}, n # p
    PROVE  LET kk == switch_away(k, p, n)
           IN  /\ Rest(k, kk) /\ kk.current = n /\ kk.on_queue = k.on_queue
               /\ kk.wait_on = k.wait_on /\ kk.sleepers = k.sleepers
               /\ \A q \in Proc : q \notin {p, n} => kk.state[q] = k.state[q]
               /\ n \in Proc => kk.state[n] = "RUNNING"
               /\ kk.state[p] \in {k.state[p], "FREE"}
<1> DEFINE S  == IF n \in Proc THEN [k.state EXCEPT ![n] = "RUNNING"] ELSE k.state
           k1 == process_set_current(k, n)
           kk == process_unref(k1, p)
<1>1. k.state \in [Proc -> PState]  BY Zenon DEF KState
<1>2. S \in [Proc -> PState]  BY <1>1 DEF PState
<1>3. k1 = [k EXCEPT !.current = n, !.state = S]
    BY <1>1 DEF process_set_current, KState
<1> HIDE DEF S, k1
<1>4. k1 \in KState
    <2>1. [k EXCEPT !.current = n, !.state = S] \in KState  BY Zenon, <1>2 DEF KState
    <2> QED  BY Zenon, <1>3, <2>1
<1>5. /\ Rest(k, k1) /\ k1.current = n /\ k1.on_queue = k.on_queue
      /\ k1.wait_on = k.wait_on /\ k1.sleepers = k.sleepers /\ k1.state = S
    BY Zenon, <1>3 DEF KState, Rest
<1>6. /\ Rest(k1, kk) /\ kk.current = k1.current /\ kk.on_queue = k1.on_queue
      /\ kk.wait_on = k1.wait_on /\ kk.sleepers = k1.sleepers
      /\ \E x \in {k1.state[p], "FREE"} : kk.state = [k1.state EXCEPT ![p] = x]
    BY Zenon, <1>4, UnrefFields
<1>7. switch_away(k, p, n) = kk  BY Zenon DEF switch_away, k1
<1> HIDE DEF kk
<1>8. \A q \in Proc : S[q] = IF q = n THEN "RUNNING" ELSE k.state[q]
    BY <1>1 DEF S
<1>9. /\ \A q \in Proc : q # p => kk.state[q] = S[q]
      /\ kk.state[p] \in {S[p], "FREE"}
    BY <1>2, <1>5, <1>6
<1>10. /\ \A q \in Proc : q \notin {p, n} => kk.state[q] = k.state[q]
       /\ n \in Proc => kk.state[n] = "RUNNING"
       /\ kk.state[p] \in {k.state[p], "FREE"}
    BY <1>8, <1>9
<1> QED  BY Zenon, <1>5, <1>6, <1>7, <1>10 DEF Rest

\* What scheduler_pick_next() writes when it finds a process.
LEMMA PickFields ==
    ASSUME NEW k, KInv(k), k.rq # << >>
    PROVE  LET kk == scheduler_pick_next(k)
               n  == PickedNext(k)
           IN  /\ n \in Proc /\ k.on_queue[n] /\ Rest(k, kk)
               /\ kk.current = k.current /\ kk.state = k.state
               /\ kk.wait_on = k.wait_on /\ kk.sleepers = k.sleepers
               /\ kk.on_queue = [k.on_queue EXCEPT ![n] = FALSE]
<1> DEFINE n  == Head(k.rq)
           kk == scheduler_pick_next(k)
<1>1. k \in KState /\ k.rq \in Seq(Proc) /\ QueueSound(k)  BY Zenon DEF KInv, KState
<1>2. PickedNext(k) = n  BY Zenon DEF PickedNext
<1>3. n \in Proc /\ Contains(k.rq, n)  BY <1>1, TailOfInjective DEF QueueSound
<1>4. kk = [k EXCEPT !.on_queue[n] = FALSE, !.rq = Tail(@)]
    BY Zenon DEF scheduler_pick_next
<1> HIDE DEF n, kk
<1>5. k.on_queue[n]  BY Zenon, <1>1, <1>3 DEF QueueSound
<1>6. /\ Rest(k, kk) /\ kk.current = k.current /\ kk.state = k.state
      /\ kk.wait_on = k.wait_on /\ kk.sleepers = k.sleepers
      /\ kk.on_queue = [k.on_queue EXCEPT ![n] = FALSE]
    BY Zenon, <1>1, <1>4 DEF KState, Rest
<1> QED  BY Zenon, <1>2, <1>3, <1>5, <1>6 DEF kk

\* The current process p hands the CPU to the next one, or to the idle thread.
Hands(k, kk, p) ==
    /\ k.current = p /\ kk.current # p /\ Rest(k, kk)
    /\ kk.wait_on = k.wait_on /\ kk.sleepers = k.sleepers
    /\ \A q \in Proc : q \notin {p, kk.current} =>
           kk.state[q] = k.state[q] /\ kk.on_queue[q] = k.on_queue[q]
    /\ \A q \in Proc : q = kk.current =>
           k.on_queue[q] /\ kk.state[q] = "RUNNING" /\ ~kk.on_queue[q]
    /\ kk.state[p] \in {k.state[p], "FREE"} /\ kk.on_queue[p] = k.on_queue[p]

\* So does schedule(), if the next one is not p itself.
LEMMA PickHands ==
    ASSUME NEW k, KInv(k), NEW p \in Proc, k.current = p, PickedNext(k) # p
    PROVE  LET kk == switch_away(scheduler_pick_next(k), p, PickedNext(k))
           IN  KInv(kk) /\ Hands(k, kk, p)
<1> DEFINE n  == PickedNext(k)
           k1 == scheduler_pick_next(k)
           kk == switch_away(k1, p, n)
<1>0. KInv(kk)  BY Zenon, PickAndSwitch
<1>1. k.on_queue \in [Proc -> BOOLEAN] /\ k \in KState  BY Zenon DEF KInv, KState
<1>2. /\ n \in Proc \cup {Idle} /\ k1 \in KState /\ Rest(k, k1) /\ k1.state = k.state
      /\ k1.wait_on = k.wait_on /\ k1.sleepers = k.sleepers
      /\ n \in Proc => k.on_queue[n]
      /\ \A q \in Proc : q # n => k1.on_queue[q] = k.on_queue[q]
      /\ n \in Proc => ~k1.on_queue[n]
    <2>1. CASE k.rq = << >>
        <3>1. n = Idle /\ k1 = k  BY Zenon, <2>1 DEF PickedNext, scheduler_pick_next
        <3> QED  BY Zenon, <1>1, <3>1, ConstantsAssumption DEF Rest
    <2>2. CASE k.rq # << >>
        <3>1. /\ n \in Proc /\ k.on_queue[n] /\ Rest(k, k1) /\ k1.state = k.state
              /\ k1.wait_on = k.wait_on /\ k1.sleepers = k.sleepers
              /\ k1.on_queue = [k.on_queue EXCEPT ![n] = FALSE]
            BY Zenon, <2>2, PickFields
        <3>2. k1 \in KState  BY Zenon, <2>2, PickLends DEF Lends, KInv
        <3> HIDE DEF n, k1
        <3> QED  BY <1>1, <3>1, <3>2
    <2> QED  BY Zenon, <2>1, <2>2
<1> HIDE DEF n, k1
<1>3. n # p  BY Zenon DEF n
<1>4. /\ Rest(k1, kk) /\ kk.current = n /\ kk.on_queue = k1.on_queue
      /\ kk.wait_on = k1.wait_on /\ kk.sleepers = k1.sleepers
      /\ \A q \in Proc : q \notin {p, n} => kk.state[q] = k1.state[q]
      /\ n \in Proc => kk.state[n] = "RUNNING"
      /\ kk.state[p] \in {k1.state[p], "FREE"}
    BY <1>2, <1>3, SwitchFields
<1> HIDE DEF kk
<1>5. Rest(k, kk) /\ kk.wait_on = k.wait_on /\ kk.sleepers = k.sleepers
    BY Zenon, <1>2, <1>4 DEF Rest
<1>6. ASSUME NEW q \in Proc, q # p, q # n
      PROVE  kk.state[q] = k.state[q] /\ kk.on_queue[q] = k.on_queue[q]
    BY <1>2, <1>4, <1>6
<1>7. n \in Proc => k.on_queue[n] /\ kk.state[n] = "RUNNING" /\ ~kk.on_queue[n]
    BY Zenon, <1>2, <1>4
<1>8. kk.state[p] \in {k.state[p], "FREE"} /\ kk.on_queue[p] = k.on_queue[p]
    BY <1>2, <1>3, <1>4
<1>9. Hands(k, kk, p)  BY <1>3, <1>4, <1>5, <1>6, <1>7, <1>8 DEF Hands
<1> QED  BY Zenon, <1>0, <1>9 DEF kk, k1, n

\* A process that gives up the CPU is not RUNNING and, if it is READY, is queued.
Leaving(k, p) == k.state[p] # "RUNNING" /\ (k.state[p] = "READY" => k.on_queue[p])

\* Giving up the CPU moves only the two processes it is about.
LEMMA HandsShift ==
    ASSUME NEW k, NEW kk, NEW p \in Proc, Hands(k, kk, p), KInv(kk), Leaving(k, p)
    PROVE  /\ \A q \in Proc : Shift(k, kk, q)
           /\ \A q \in Proc : kk.state[q] = "TERMINATED" => k.state[q] = "TERMINATED"
<1>1. ASSUME NEW q \in Proc, q # p, kk.current # q PROVE Calm(k, kk, q)
    BY <1>1 DEF Calm, Move, Parked, Hands
<1>2. ASSUME NEW q \in Proc, kk.current = q PROVE Picked(k, kk, q)
    BY <1>2 DEF Picked, Hands
<1>3. /\ k.current = p /\ kk.current # p /\ kk.wait_on = k.wait_on
      /\ kk.sleepers = k.sleepers /\ kk.on_queue[p] = k.on_queue[p]
      /\ kk.state[p] \in {k.state[p], "FREE"}
    BY Zenon DEF Hands
<1>4. ASSUME kk.state[p] = k.state[p] PROVE Leaves(k, kk, p)
    BY Zenon, <1>3, <1>4 DEF Leaves, Parked, Leaving
<1>5. ASSUME kk.state[p] = "FREE" PROVE Dying(k, kk, p)
    <2>1. ~kk.on_queue[p]  BY <1>5 DEF KInv, Unheld, Held, One
    <2> QED  BY Zenon, <1>3, <1>5, <2>1 DEF Dying, Dead, Stays
<1>6. Leaves(k, kk, p) \/ Dying(k, kk, p)  BY <1>3, <1>4, <1>5
<1>7. \A q \in Proc : Shift(k, kk, q)  BY Zenon, <1>1, <1>2, <1>6 DEF Shift
<1>8. \A q \in Proc : kk.state[q] = "TERMINATED" => k.state[q] = "TERMINATED"
    BY DEF Hands
<1> QED  BY <1>7, <1>8

\* The processes other than p, when something happens before p hands over.
LEMMA HandsOthers ==
    ASSUME NEW k, NEW k1, NEW kk, NEW p \in Proc, Hands(k1, kk, p), k.current = p,
           \A q \in Proc : q # p => Move(k, k1, q)
    PROVE  \A q \in Proc : q # p => Calm(k, kk, q) \/ Picked(k, kk, q)
<1> SUFFICES ASSUME NEW q \in Proc, q # p PROVE Calm(k, kk, q) \/ Picked(k, kk, q)
    OBVIOUS
<1>0. Move(k, k1, q)  BY Zenon
<1>1. CASE kk.current = q
    <2>1. k1.on_queue[q] /\ kk.state[q] = "RUNNING" /\ ~kk.on_queue[q]
        BY Zenon, <1>1 DEF Hands
    <2>2. k.on_queue[q] \/ (k.state[q] = "BLOCKED" /\ k.wait_on[q] # SleepObj)
        BY Zenon, <1>0, <2>1 DEF Move
    <2> QED  BY Zenon, <1>1, <2>1, <2>2 DEF Picked
<1>2. CASE kk.current # q
    <2>1. /\ kk.state[q] = k1.state[q] /\ kk.on_queue[q] = k1.on_queue[q]
          /\ kk.wait_on = k1.wait_on /\ kk.sleepers = k1.sleepers
        BY <1>2 DEF Hands
    <2>2. Move(k, kk, q)  BY Zenon, <1>0, <2>1 DEF Move, Parked
    <2> QED  BY Zenon, <1>2, <2>2 DEF Calm
<1> QED  BY Zenon, <1>1, <1>2

\* A step whose successor state is kk changes nobody's family and makes no zombie.
Orderly(k, kk) ==
    /\ Rest(k, kk)
    /\ \A q \in Proc : kk.state[q] = "TERMINATED" => k.state[q] = "TERMINATED"

\* The current process is requeued and the next one, possibly itself, runs.
LEMMA RequeueShift ==
    ASSUME NEW k, KInv(k), NEW p \in Proc, k.current = p, k.wait_on[p] = None, Sane(k, p),
           NEW kk, KInv(kk),
           LET queued == scheduler_add_process(k, p)
               next   == PickedNext(queued)
               picked == scheduler_pick_next(queued)
           IN  \/ next = p /\ kk \in {process_unref(picked, p),
                     process_unref([picked EXCEPT !.state[p] = "RUNNING"], p)}
               \/ next # p /\ kk = switch_away(picked, p, next)
    PROVE  Orderly(k, kk) /\ \A q \in Proc : Shift(k, kk, q)
<1> DEFINE k1 == scheduler_add_process(k, p)
           n  == PickedNext(k1)
           k2 == scheduler_pick_next(k1)
           k3 == [k2 EXCEPT !.state[p] = "RUNNING"]
<1>1. /\ k \in KState /\ k.state \in [Proc -> PState]
      /\ k.on_queue \in [Proc -> BOOLEAN]
    BY Zenon DEF KInv, KState
<1>2. Keeps(k, k1) /\ KInv(k1) /\ k1.current = p  BY AddKeeps DEF Keeps
<1>3. \/ n = p /\ kk \in {process_unref(k2, p), process_unref(k3, p)}
      \/ n # p /\ kk = switch_away(k2, p, n)
    BY Zenon
<1>4. \/ k1 = k /\ (Dead(k, p) \/ k.on_queue[p])
      \/ /\ ~Dead(k, p) /\ Rest(k, k1)
         /\ k1.state = [k.state EXCEPT ![p] = "READY"]
         /\ k1.on_queue = [k.on_queue EXCEPT ![p] = TRUE]
         /\ k1.wait_on = k.wait_on /\ k1.sleepers = k.sleepers
    <2>1. CASE Dead(k, p) \/ k.on_queue[p]  BY Zenon, <2>1 DEF scheduler_add_process
    <2>2. CASE ~(Dead(k, p) \/ k.on_queue[p])  BY Zenon, <1>1, <2>2, AddFields
    <2> QED  BY Zenon, <2>1, <2>2
<1> HIDE DEF k1
<1>5. /\ Rest(k, k1) /\ k1.wait_on = k.wait_on /\ k1.sleepers = k.sleepers
      /\ \A q \in Proc : q # p => k1.state[q] = k.state[q] /\ k1.on_queue[q] = k.on_queue[q]
    BY <1>1, <1>4 DEF Rest
<1>6. \/ k1.state[p] = k.state[p] /\ k1.on_queue[p] = k.on_queue[p]
                                  /\ (Dead(k, p) \/ k.on_queue[p])
      \/ ~Dead(k, p) /\ k1.state[p] = "READY" /\ k1.on_queue[p]
    BY <1>1, <1>4
<1>7. Leaving(k1, p)  BY <1>6 DEF Leaving, Sane, Dead
<1>8. \A q \in Proc : k1.state[q] = "TERMINATED" => k.state[q] = "TERMINATED"
    BY <1>5, <1>6
<1>9. CASE n # p
    <2>1. Hands(k1, kk, p)  BY Zenon, <1>2, <1>3, <1>9, PickHands
    <2>2. \A q \in Proc : q # p => Move(k, k1, q)
        BY Zenon, <1>5 DEF Move, Parked
    <2>3. \A q \in Proc : q # p => Calm(k, kk, q) \/ Picked(k, kk, q)
        BY Zenon, <2>1, <2>2, HandsOthers
    <2>4. /\ kk.current # p /\ Rest(k1, kk) /\ kk.wait_on = k1.wait_on
          /\ kk.sleepers = k1.sleepers /\ kk.on_queue[p] = k1.on_queue[p]
          /\ kk.state[p] \in {k1.state[p], "FREE"}
        BY Zenon, <2>1 DEF Hands
    <2>5. kk.state[p] = "FREE" => ~kk.on_queue[p]
        BY DEF KInv, Unheld, Held, One
    <2>6. ASSUME kk.state[p] = "FREE" PROVE Dying(k, kk, p)
        BY Zenon, <2>4, <2>5, <2>6 DEF Dying, Dead, Stays
    <2>7. ASSUME kk.state[p] = k1.state[p], k1.state[p] = k.state[p],
                 k1.on_queue[p] = k.on_queue[p]
          PROVE  Leaves(k, kk, p)
        BY Zenon, <1>5, <1>7, <2>4, <2>7 DEF Leaves, Parked, Leaving
    <2>8. ASSUME kk.state[p] = k1.state[p], ~Dead(k, p), k1.state[p] = "READY",
                 k1.on_queue[p]
          PROVE  Requeued(k, kk, p)
        BY Zenon, <2>4, <2>8 DEF Requeued
    <2>9. Shift(k, kk, p)  BY Zenon, <1>6, <2>4, <2>6, <2>7, <2>8 DEF Shift
    <2>10. Orderly(k, kk)
        <3>1. \A q \in Proc : kk.state[q] = "TERMINATED" => k1.state[q] = "TERMINATED"
            BY <1>2, <1>7, <2>1, HandsShift
        <3> QED  BY Zenon, <1>5, <1>8, <2>4, <3>1 DEF Orderly, Rest
    <2> QED  BY Zenon, <2>3, <2>9, <2>10 DEF Shift
<1>10. CASE n = p
    <2>1. k1.rq # << >>  BY Zenon, <1>10, ConstantsAssumption DEF PickedNext
    <2>2. /\ k1.on_queue[p] /\ Rest(k1, k2) /\ k2.current = p /\ k2.state = k1.state
          /\ k2.wait_on = k1.wait_on /\ k2.sleepers = k1.sleepers
          /\ k2.on_queue = [k1.on_queue EXCEPT ![p] = FALSE]
        BY Zenon, <1>2, <1>10, <2>1, PickFields
    <2>3. k2 \in KState  BY Zenon, <1>2, <2>1, PickLends DEF Lends, KInv
    <2> HIDE DEF k2
    <2>4. k2.state \in [Proc -> PState]  BY Zenon, <2>3 DEF KState
    <2> DEFINE S == [k2.state EXCEPT ![p] = "RUNNING"]
    <2>5. k3 \in KState /\ Rest(k2, k3) /\ k3.current = p /\ k3.state = S
          /\ k3.wait_on = k2.wait_on /\ k3.sleepers = k2.sleepers
          /\ k3.on_queue = k2.on_queue
        <3>1. S \in [Proc -> PState]  BY <2>4 DEF PState
        <3>2. k3 = [k2 EXCEPT !.state = S]  BY <2>3 DEF KState
        <3> HIDE DEF S, k3
        <3>3. [k2 EXCEPT !.state = S] \in KState  BY Zenon, <2>3, <3>1 DEF KState
        <3> QED  BY Zenon, <2>2, <2>3, <3>2, <3>3 DEF KState, Rest
    <2> HIDE DEF k3
    <2>6. /\ Rest(k1, kk) /\ kk.current = p /\ kk.wait_on = k1.wait_on
          /\ kk.sleepers = k1.sleepers /\ kk.on_queue = k2.on_queue
          /\ \E x \in {k1.state[p], "RUNNING", "FREE"} : kk.state = [k1.state EXCEPT ![p] = x]
        <3>1. CASE kk = process_unref(k2, p)
            <4> DEFINE u == process_unref(k2, p)
            <4>1. /\ Rest(k2, u) /\ u.current = k2.current /\ u.wait_on = k2.wait_on
                  /\ u.sleepers = k2.sleepers /\ u.on_queue = k2.on_queue
                  /\ \E x \in {k2.state[p], "FREE"} : u.state = [k2.state EXCEPT ![p] = x]
                BY Zenon, <2>3, UnrefFields
            <4>2. kk = u  BY Zenon, <3>1
            <4> HIDE DEF u
            <4> QED  BY <2>2, <4>1, <4>2 DEF Rest
        <3>2. CASE kk = process_unref(k3, p)
            <4> DEFINE u == process_unref(k3, p)
            <4>1. /\ Rest(k3, u) /\ u.current = k3.current /\ u.wait_on = k3.wait_on
                  /\ u.sleepers = k3.sleepers /\ u.on_queue = k3.on_queue
                  /\ \E x \in {k3.state[p], "FREE"} : u.state = [k3.state EXCEPT ![p] = x]
                BY Zenon, <2>5, UnrefFields
            <4>2. kk = u  BY Zenon, <3>2
            <4> HIDE DEF u
            <4> QED  BY <2>2, <2>4, <2>5, <4>1, <4>2 DEF Rest
        <3> QED  BY Zenon, <1>3, <1>10, <3>1, <3>2
    <2>7. /\ k1.state \in [Proc -> PState] /\ k1.on_queue \in [Proc -> BOOLEAN]
        BY Zenon, <1>2 DEF KInv, KState
    <2>8. /\ \A q \in Proc : q # p => kk.state[q] = k.state[q] /\ kk.on_queue[q] = k.on_queue[q]
          /\ kk.state[p] \in {k1.state[p], "RUNNING", "FREE"} /\ ~kk.on_queue[p]
        BY <1>5, <2>2, <2>6, <2>7
    <2>9. /\ kk.current = p /\ kk.wait_on = k.wait_on /\ kk.sleepers = k.sleepers
          /\ Rest(k, kk)
        BY Zenon, <1>5, <2>6 DEF Rest
    <2>10. ASSUME NEW q \in Proc, q # p PROVE Calm(k, kk, q)
        BY Zenon, <2>8, <2>9, <2>10 DEF Calm, Move, Parked
    <2>11. ~Dead(k, p)  BY Zenon, <1>6, <2>2 DEF Sane, Dead
    <2>12. Shift(k, kk, p)
        <3>1. ASSUME kk.state[p] = "FREE" PROVE Dying(k, kk, p)
            BY Zenon, <2>8, <2>9, <3>1 DEF Dying, Dead, Stays
        <3>2. ASSUME kk.state[p] \in {"READY", "RUNNING"} PROVE Requeued(k, kk, p)
            BY Zenon, <2>8, <2>9, <2>11, <3>2 DEF Requeued
        <3>3. ASSUME kk.state[p] = k.state[p] PROVE Leaves(k, kk, p)
            BY <2>8, <2>9, <2>11, <3>3 DEF Leaves, Parked, Dead
        <3> QED  BY <1>6, <2>8, <3>1, <3>2, <3>3 DEF Shift
    <2>13. Orderly(k, kk)  BY <1>6, <2>8, <2>9 DEF Orderly
    <2> QED  BY Zenon, <2>10, <2>12, <2>13 DEF Shift
<1> QED  BY Zenon, <1>9, <1>10

\* The timer preempts p, or takes the CPU from a dead p.
LEMMA PreemptShift ==
    ASSUME NEW k, KInv(k), NEW p \in Proc, k.current = p, k.wait_on[p] = None, Sane(k, p),
           k.state[p] \in {"RUNNING", "TERMINATED"}, NEW kk, KInv(kk),
           LET next   == PickedNext(k)
               picked == scheduler_pick_next(k)
           IN  kk = IF next = p \/ (next = Idle /\ k.state[p] # "TERMINATED")
                    THEN picked
                    ELSE switch_away(scheduler_add_process(picked, p), p, next)
    PROVE  Orderly(k, kk) /\ \A q \in Proc : Shift(k, kk, q)
<1> DEFINE n  == PickedNext(k)
           k1 == scheduler_pick_next(k)
           k2 == scheduler_add_process(k1, p)
<1>1. /\ k \in KState /\ k.state \in [Proc -> PState]
      /\ k.on_queue \in [Proc -> BOOLEAN] /\ ~k.on_queue[p]
    BY Zenon DEF KInv, KState, Sane
<1>2. CASE k.rq = << >> /\ k.state[p] # "TERMINATED"
    <2>1. n = Idle /\ k1 = k  BY Zenon, <1>2 DEF PickedNext, scheduler_pick_next
    <2>2. kk = k  BY Zenon, <1>2, <2>1
    <2> QED  BY Zenon, <2>2 DEF Orderly, Rest, Shift, Calm, Move, Parked
<1>3. n # p
    BY Zenon, <1>1, PickFields, ConstantsAssumption DEF PickedNext
<1>4. CASE k.state[p] = "TERMINATED"
    <2>1. k1.state = k.state
        BY Zenon, PickFields DEF scheduler_pick_next
    <2>2. k2 = k1  BY Zenon, <1>4, <2>1 DEF scheduler_add_process, Dead
    <2>3. kk = switch_away(k1, p, n)  BY Zenon, <1>3, <1>4, <2>2
    <2>4. Hands(k, kk, p)  BY Zenon, <1>3, <2>3, PickHands
    <2>5. Leaving(k, p)  BY <1>4 DEF Leaving
    <2> QED  BY Zenon, <2>4, <2>5, HandsShift DEF Orderly, Hands
<1>5. CASE k.rq # << >> /\ k.state[p] = "RUNNING"
    <2>1. /\ n \in Proc /\ k.on_queue[n] /\ Rest(k, k1) /\ k1.state = k.state
          /\ k1.wait_on = k.wait_on /\ k1.sleepers = k.sleepers
          /\ k1.on_queue = [k.on_queue EXCEPT ![n] = FALSE]
        BY Zenon, <1>5, PickFields
    <2>2. KInv(k1) /\ k1 \in KState  BY Zenon, <1>5, PickLends DEF Lends, KInv
    <2>3. kk = switch_away(k2, p, n)
        BY Zenon, <1>3, <1>5, <2>1, ConstantsAssumption
    <2> HIDE DEF n, k1
    <2>4. ~Dead(k1, p) /\ ~k1.on_queue[p]  BY <1>1, <1>3, <1>5, <2>1 DEF Dead
    <2>5. /\ Rest(k1, k2) /\ k2.state = [k1.state EXCEPT ![p] = "READY"]
          /\ k2.on_queue = [k1.on_queue EXCEPT ![p] = TRUE]
          /\ k2.wait_on = k1.wait_on /\ k2.sleepers = k1.sleepers
        BY Zenon, <2>2, <2>4, AddFields
    <2>6. k2 \in KState  BY Zenon, <2>2, AddKeeps DEF Keeps, KInv
    <2> HIDE DEF k2
    <2> DEFINE u == switch_away(k2, p, n)
    <2>7. /\ Rest(k2, u) /\ u.current = n /\ u.on_queue = k2.on_queue
          /\ u.wait_on = k2.wait_on /\ u.sleepers = k2.sleepers
          /\ \A q \in Proc : q \notin {p, n} => u.state[q] = k2.state[q]
          /\ u.state[n] = "RUNNING" /\ u.state[p] \in {k2.state[p], "FREE"}
        BY <1>3, <2>1, <2>6, SwitchFields
    <2>8. kk = u  BY Zenon, <2>3
    <2> HIDE DEF u
    <2>9. /\ kk.current = n /\ kk.wait_on = k.wait_on /\ kk.sleepers = k.sleepers
          /\ Rest(k, kk)
        BY <2>1, <2>5, <2>7, <2>8 DEF Rest
    <2>10. /\ kk.state[n] = "RUNNING" /\ ~kk.on_queue[n] /\ kk.on_queue[p]
           /\ kk.state[p] \in {"READY", "FREE"}
           /\ \A q \in Proc : q \notin {p, n} =>
                 kk.state[q] = k.state[q] /\ kk.on_queue[q] = k.on_queue[q]
        BY <1>1, <1>3, <2>1, <2>5, <2>7, <2>8
    <2>11. kk.state[p] # "FREE"  BY <2>10 DEF KInv, Unheld, Held, One
    <2>12. Requeued(k, kk, p) /\ Picked(k, kk, n)
        BY <1>5, <2>1, <2>9, <2>10, <2>11 DEF Requeued, Picked, Dead
    <2>13. ASSUME NEW q \in Proc, q \notin {p, n} PROVE Calm(k, kk, q)
        BY Zenon, <2>9, <2>10, <2>13 DEF Calm, Move, Parked
    <2>14. Orderly(k, kk)  BY <2>9, <2>10 DEF Orderly
    <2> QED  BY Zenon, <2>12, <2>13, <2>14 DEF Shift
<1> QED  BY Zenon, <1>2, <1>4, <1>5

-----------------------------------------------------------------------------
(***************************************************************************)
(* Blocking.                                                               *)
(***************************************************************************)
\* The outcomes of Park(): halt in place, run on at once, or switch.
ParkTo(k, kk, p) ==
    \/ PickedNext(k) = Idle /\ kk = k
    \/ PickedNext(k) = p /\ kk = process_set_current(scheduler_pick_next(k), p)
    \/ /\ PickedNext(k) \notin {Idle, p}
       /\ kk = switch_away(scheduler_pick_next(k), p, PickedNext(k))

\* A blocked process that parks stays blocked, unless it picks itself.
Parks(k, kk, p) ==
    /\ Orderly(k, kk) /\ kk.wait_on = k.wait_on /\ kk.sleepers = k.sleepers
    /\ \A q \in Proc : Shift(k, kk, q)
    /\ \A q \in Proc : q # p => Calm(k, kk, q) \/ Picked(k, kk, q)
    /\ \/ kk.state[p] = "BLOCKED" /\ kk.on_queue[p] = k.on_queue[p]
       \/ Dying(k, kk, p)
       \/ Picked(k, kk, p) /\ k.on_queue[p]

\* Whatever Park() picks.
LEMMA ParkShift ==
    ASSUME NEW k, KInv(k), NEW p \in Proc, k.current = p, k.state[p] = "BLOCKED",
           NEW kk, KInv(kk), ParkTo(k, kk, p)
    PROVE  Parks(k, kk, p)
<1> DEFINE n  == PickedNext(k)
           k1 == scheduler_pick_next(k)
<1>1. CASE kk = k
    <2>1. \A q \in Proc : Calm(k, kk, q)  BY Zenon, <1>1 DEF Calm, Move, Parked
    <2> QED  BY Zenon, <1>1, <2>1 DEF Orderly, Rest, Shift, Parks
<1>2. CASE n = p /\ kk = process_set_current(k1, p)
    <2>1. k.rq # << >>  BY Zenon, <1>2, ConstantsAssumption DEF PickedNext
    <2>2. /\ k.on_queue[p] /\ Rest(k, k1) /\ k1.state = k.state
          /\ k1.wait_on = k.wait_on /\ k1.sleepers = k.sleepers
          /\ k1.on_queue = [k.on_queue EXCEPT ![p] = FALSE]
        BY Zenon, <1>2, <2>1, PickFields
    <2>3. k1 \in KState  BY Zenon, <2>1, PickLends DEF Lends, KInv
    <2>4. k.state \in [Proc -> PState] /\ k.on_queue \in [Proc -> BOOLEAN]
        BY Zenon DEF KInv, KState
    <2>5. kk = [k1 EXCEPT !.current = p, !.state[p] = "RUNNING"]
        BY Zenon, <1>2 DEF process_set_current
    <2> HIDE DEF k1
    <2>6. /\ Rest(k, kk) /\ kk.wait_on = k.wait_on /\ kk.sleepers = k.sleepers
          /\ kk.current = p /\ kk.state = [k.state EXCEPT ![p] = "RUNNING"]
          /\ kk.on_queue = [k.on_queue EXCEPT ![p] = FALSE]
        BY Zenon, <2>2, <2>3, <2>5 DEF KState, Rest
    <2>7. /\ \A q \in Proc : q # p => kk.state[q] = k.state[q] /\ kk.on_queue[q] = k.on_queue[q]
          /\ kk.state[p] = "RUNNING" /\ ~kk.on_queue[p]
        BY <2>4, <2>6
    <2>8. \A q \in Proc : q # p => Calm(k, kk, q)
        BY <2>6, <2>7 DEF Calm, Move, Parked
    <2>9. Picked(k, kk, p)  BY Zenon, <2>2, <2>6, <2>7 DEF Picked
    <2>10. Orderly(k, kk)  BY <2>6, <2>7 DEF Orderly
    <2> QED  BY Zenon, <2>2, <2>6, <2>8, <2>9, <2>10 DEF Shift, Parks
<1>3. CASE n # p /\ kk = switch_away(k1, p, n)
    <2>1. Hands(k, kk, p)  BY Zenon, <1>3, PickHands
    <2>2. Leaving(k, p)  BY DEF Leaving
    <2>3. \A q \in Proc : q # p => Calm(k, kk, q) \/ Picked(k, kk, q)
        <3>1. \A q \in Proc : q # p => Move(k, k, q)  BY Zenon DEF Move, Parked
        <3> QED  BY Zenon, <2>1, <3>1, HandsOthers
    <2>4. /\ \A q \in Proc : Shift(k, kk, q)
          /\ \A q \in Proc : kk.state[q] = "TERMINATED" => k.state[q] = "TERMINATED"
        BY Zenon, <2>1, <2>2, HandsShift
    <2>5. kk.state[p] = "FREE" => ~kk.on_queue[p]  BY DEF KInv, Unheld, Held, One
    <2>6. \/ kk.state[p] = "BLOCKED" /\ kk.on_queue[p] = k.on_queue[p]
          \/ Dying(k, kk, p)
        BY <2>1, <2>5 DEF Hands, Dying, Dead, Stays
    <2> QED  BY Zenon, <2>1, <2>3, <2>4, <2>6 DEF Orderly, Hands, Parks
<1> QED  BY Zenon, <1>1, <1>2, <1>3 DEF ParkTo

\* What linking p on the wait object w writes.
LEMMA LinkFields ==
    ASSUME NEW k, KInv(k), NEW p \in Proc, NEW w \in WaitObj, NEW d \in Nat
    PROVE  LET kk == wait_object_link(k, w, p, d)
           IN  /\ Rest(k, kk) /\ kk.current = k.current /\ kk.on_queue = k.on_queue
               /\ kk.state = [k.state EXCEPT ![p] = "BLOCKED"]
               /\ kk.wait_on = [k.wait_on EXCEPT ![p] = w]
               /\ \A q \in Proc : Contains(k.sleepers, q) => Contains(kk.sleepers, q)
               /\ d # 0 => Contains(kk.sleepers, p)
<1> DEFINE r  == process_ref(k, p)
           k1 == [r EXCEPT !.wait_on[p] = w, !.waiters[w] = Append(@, p),
                           !.state[p] = "BLOCKED"]
           s  == << p >> \o k.sleepers
           kk == wait_object_link(k, w, p, d)
<1>1. k \in KState /\ k.sleepers \in Seq(Proc)  BY Zenon DEF KInv, KState
<1>2. k1 = [k EXCEPT !.ref[p] = @ + 1, !.wait_on[p] = w, !.waiters[w] = Append(@, p),
                     !.state[p] = "BLOCKED"]
    BY <1>1 DEF process_ref, KState
<1>3. kk = IF d = 0 THEN k1 ELSE [k1 EXCEPT !.sleepers = << p >> \o @, !.deadline[p] = d]
    BY Zenon DEF wait_object_link, sleep_list_push
<1> HIDE DEF r, k1, kk
<1>4. /\ Rest(k, k1) /\ k1.current = k.current /\ k1.on_queue = k.on_queue
      /\ k1.state = [k.state EXCEPT ![p] = "BLOCKED"]
      /\ k1.wait_on = [k.wait_on EXCEPT ![p] = w] /\ k1.sleepers = k.sleepers
      /\ DOMAIN k1 = DOMAIN k
    BY <1>1, <1>2 DEF KState, Rest
<1>5. /\ Rest(k1, kk) /\ kk.current = k1.current /\ kk.on_queue = k1.on_queue
      /\ kk.state = k1.state /\ kk.wait_on = k1.wait_on
      /\ kk.sleepers = IF d = 0 THEN k.sleepers ELSE s
    BY <1>1, <1>3, <1>4 DEF KState, Rest
<1>6. Contains(s, p) /\ \A q \in Proc : Contains(k.sleepers, q) => Contains(s, q)
    <2>1. << p >> \in Seq(Proc) /\ Len(<< p >>) = 1 /\ << p >>[1] = p  OBVIOUS
    <2>2. Len(k.sleepers) \in Nat /\ DOMAIN k.sleepers = 1 .. Len(k.sleepers)
        BY <1>1, LenProperties
    <2>3. /\ s \in Seq(Proc) /\ Len(s) = 1 + Len(k.sleepers)
          /\ \A j \in 1 .. (1 + Len(k.sleepers)) :
                s[j] = IF j <= 1 THEN << p >>[j] ELSE k.sleepers[j - 1]
        BY <1>1, <2>1, ConcatProperties
    <2> HIDE DEF s
    <2>4. s[1] = p /\ \A j \in 1 .. Len(k.sleepers) : s[j + 1] = k.sleepers[j]
        BY <2>1, <2>2, <2>3
    <2>5. Contains(s, p)
        <3>1. 1 \in 1 .. Len(s)  BY <2>2, <2>3
        <3> QED  BY Zenon, <2>4, <3>1 DEF Contains
    <2>6. ASSUME NEW q \in Proc, Contains(k.sleepers, q) PROVE Contains(s, q)
        <3>1. PICK j \in 1 .. Len(k.sleepers) : k.sleepers[j] = q
            BY Zenon, <2>6 DEF Contains
        <3>2. j + 1 \in 1 .. Len(s) /\ s[j + 1] = q  BY <2>2, <2>3, <2>4, <3>1
        <3> QED  BY Zenon, <3>2 DEF Contains
    <2> QED  BY Zenon, <2>5, <2>6
<1> HIDE DEF s
<1> QED  BY <1>4, <1>5, <1>6 DEF Rest, kk

\* Whoever goes on after Park() without having halted is not BLOCKED.
LEMMA ParkRuns ==
    ASSUME NEW k, KInv(k), NEW p \in Proc, k.current = p, NEW kk, ParkTo(k, kk, p),
           PickedNext(k) # Idle
    PROVE  kk.current = p => kk.state[p] # "BLOCKED"
<1> DEFINE n  == PickedNext(k)
           k1 == scheduler_pick_next(k)
<1>1. CASE n = p /\ kk = process_set_current(k1, p)
    <2>1. k.rq # << >>  BY Zenon, ConstantsAssumption DEF PickedNext
    <2>2. k1 \in KState  BY Zenon, <2>1, PickLends DEF Lends, KInv
    <2>3. kk = [k1 EXCEPT !.current = p, !.state[p] = "RUNNING"]
        BY Zenon, <1>1 DEF process_set_current
    <2> HIDE DEF k1
    <2> QED  BY <2>2, <2>3 DEF KState
<1>2. CASE n \notin {Idle, p} /\ kk = switch_away(k1, p, n)
    <2>1. Hands(k, kk, p)  BY Zenon, <1>2, PickHands
    <2> QED  BY Zenon, <2>1 DEF Hands
<1> QED  BY Zenon, <1>1, <1>2 DEF ParkTo

\* wait_object_block() on w by p, which is on no wait object.
BlocksOn(k, kk, p, w) ==
    /\ Orderly(k, kk) /\ kk.wait_on = [k.wait_on EXCEPT ![p] = w]
    /\ \A q \in Proc : q # p => Shift(k, kk, q)
    /\ Shift(k, kk, p) \/ Blocks(k, kk, p)

\* Whatever Park() picks, a sleeper has the timer armed.
LEMMA BlockShift ==
    ASSUME NEW k, KInv(k), NEW p \in Proc, k.current = p, k.wait_on[p] = None,
           NEW w \in WaitObj, NEW d \in Nat, w = SleepObj => d # 0, NEW kk, KInv(kk),
           ParkTo(wait_object_link(k, w, p, d), kk, p)
    PROVE  BlocksOn(k, kk, p, w)
<1> DEFINE k1 == wait_object_link(k, w, p, d)
<1>0. ParkTo(k1, kk, p)  BY Zenon
<1>1. /\ Rest(k, k1) /\ k1.current = p /\ k1.on_queue = k.on_queue
      /\ k1.state = [k.state EXCEPT ![p] = "BLOCKED"]
      /\ k1.wait_on = [k.wait_on EXCEPT ![p] = w]
      /\ \A q \in Proc : Contains(k.sleepers, q) => Contains(k1.sleepers, q)
      /\ d # 0 => Contains(k1.sleepers, p)
    BY LinkFields
<1>2. KInv(k1)  BY Zenon, LinkKeeps
<1>3. /\ k.state \in [Proc -> PState] /\ k.wait_on \in [Proc -> WaitObj \cup {None}]
    BY Zenon DEF KInv, KState
<1> HIDE DEF k1
<1>4. k1.current = p /\ k1.state[p] = "BLOCKED" /\ k1.wait_on[p] = w /\ w # None
    BY <1>1, <1>3, ConstantsAssumption DEF WaitObj
<1>5. \A q \in Proc : q # p => k1.state[q] = k.state[q] /\ k1.wait_on[q] = k.wait_on[q]
    BY <1>1, <1>3
<1>6. Parks(k1, kk, p)  BY Zenon, <1>0, <1>2, <1>4, ParkShift
<1>7. ASSUME NEW q \in Proc, q # p PROVE Calm(k, kk, q) \/ Picked(k, kk, q)
    <2>1. CASE Calm(k1, kk, q)
        <3>1. Calm(k, kk, q)  BY <1>1, <1>5, <1>7, <2>1 DEF Calm, Move, Parked
        <3> QED  BY <3>1
    <2>2. CASE Picked(k1, kk, q)
        <3>1. Picked(k, kk, q)  BY <1>1, <1>5, <1>7, <2>2 DEF Picked
        <3> QED  BY <3>1
    <2> QED  BY Zenon, <1>6, <1>7, <2>1, <2>2 DEF Parks
<1>8. ASSUME kk.state[p] = "BLOCKED", kk.on_queue[p] = k1.on_queue[p] PROVE Blocks(k, kk, p)
    BY <1>1, <1>4, <1>6, <1>8 DEF Blocks, Parks
<1>9. Dying(k1, kk, p) => Dying(k, kk, p)  BY Zenon, <1>1 DEF Dying, Stays
<1>10. Picked(k1, kk, p) /\ k1.on_queue[p] => Picked(k, kk, p)
    BY Zenon, <1>1 DEF Picked
<1>11. Orderly(k, kk)  BY <1>1, <1>4, <1>5, <1>6 DEF Orderly, Rest, Parks
<1> QED  BY Zenon, <1>1, <1>6, <1>7, <1>8, <1>9, <1>10, <1>11 DEF Shift, Parks, BlocksOn

-----------------------------------------------------------------------------
(***************************************************************************)
(* Killing, stopping, continuing and signalling a process t, which the     *)
(* caller holds a reference on.                                            *)
(***************************************************************************)
\* A call about t, which has the CPU or is BLOCKED.
LEMMA MovesShift ==
    ASSUME NEW k, NEW kk, KInv(kk), NEW t, Moves(k, kk, t),
           t \in Proc => k.current = t \/ k.state[t] = "BLOCKED"
    PROVE  /\ Orderly(k, kk)
           /\ \A q \in Proc : q # t => Calm(k, kk, q)
           /\ t \in Proc => Unparked(k, kk, t) \/ Dying(k, kk, t)
<1>1. Frame(k, kk)  BY Zenon DEF Moves
<1>2. ASSUME NEW q \in Proc, q # t PROVE Calm(k, kk, q)
    BY Zenon, <1>1, <1>2 DEF Moves, Calm, Frame
<1>3. ASSUME t \in Proc PROVE Unparked(k, kk, t) \/ Dying(k, kk, t)
    <2>1. Fall(k, kk, t) /\ kk.current = k.current  BY Zenon, <1>1, <1>3 DEF Moves, Frame
    <2>2. kk.state[t] = "FREE" => ~kk.on_queue[t]
        BY <1>3 DEF KInv, Unheld, Held, One
    <2> QED  BY Zenon, <1>3, <2>1, <2>2 DEF Fall, Unparked, Dying, Dead, Stays
<1>4. Orderly(k, kk)
    <2>1. Rest(k, kk)  BY Zenon, <1>1 DEF Frame, Rest
    <2> QED  BY <2>1 DEF Orderly, Moves, Move, Fall
<1> QED  BY Zenon, <1>2, <1>3, <1>4

\* Nobody but t is touched by an abort of its wait.
LEMMA AbortOthers ==
    ASSUME NEW k, KInv(k), NEW t \in Proc, NEW q \in Proc, q # t
    PROVE  abort_if_blocked(k, t).state[q] = k.state[q]
<1> DEFINE w == k.wait_on[t]
           u == wo_unlink(k, w, t)
<1>1. CASE w \in WaitObj /\ abort_if_blocked(k, t) = process_unref(u, t)
    <2>1. k \in KState /\ u.state = k.state
        BY Zenon, <1>1, UnlinkFields DEF KInv
    <2>2. k.state \in [Proc -> PState]  BY Zenon, <2>1 DEF KState
    <2>3. process_unref(u, t).state = [u.state EXCEPT ![t] = IF u.ref[t] = 1 THEN "FREE" ELSE @]
        <3>1. u = [k EXCEPT !.waiters[w] = RemoveFirst(@, t), !.wait_on[t] = None]
            BY Zenon DEF wo_unlink
        <3> QED  BY <2>1, <3>1 DEF process_unref, KState
    <2> QED  BY <1>1, <2>1, <2>2, <2>3
<1>2. CASE abort_if_blocked(k, t) = k  BY Zenon, <1>2
<1>3. w \in WaitObj \cup {None}  BY Zenon DEF KInv, KState
<1> QED  BY Zenon, <1>1, <1>2, <1>3 DEF abort_if_blocked, wait_object_abort

\* The kill paths end t and keep the invariant.
LEMMA KillEnds ==
    ASSUME NEW k, KInv(k), NEW t \in Proc, WaitInv(k)
    PROVE  LET kk == process_unref(terminate(abort_if_blocked(process_ref(k, t), t), t), t)
           IN  Ends(k, kk, t) /\ WaitInv(kk)
<1> DEFINE k1 == process_ref(k, t)
           k2 == abort_if_blocked(k1, t)
           k3 == terminate(k2, t)
           kk == process_unref(k3, t)
<1>1. Lends(k, k1, t) /\ Moves(k, k1, None)  BY Zenon, RefLends, RefMoves
<1>2. k1.state = k.state  BY Zenon DEF process_ref, KInv, KState
<1> HIDE DEF k1
<1>3. KInv(k1)  BY Zenon, <1>1 DEF Lends
<1>4. /\ Keeps(k1, k2) /\ Moves(k1, k2, t)
      /\ \A q \in Proc : q # t => k2.state[q] = k1.state[q]
    BY Zenon, <1>3, AbortIfBlockedKeeps, AbortIfBlockedMoves, AbortOthers
<1>5. WaitInv(k2)  BY Zenon, <1>1, <1>4, MovesWaitInv
<1> HIDE DEF k2
<1>6. KInv(k2)  BY Zenon, <1>4 DEF Keeps
<1>7. Keeps(k2, k3) /\ Ends(k2, k3, t) /\ WaitInv(k3)
    BY Zenon, <1>5, <1>6, TerminateKeeps, TerminateEnds
<1> HIDE DEF k3
<1>8. Lends(k, k3, t)  BY Zenon, <1>1, <1>4, <1>7, KeepsTrans, LendsTrans
<1>9. KInv(k3) /\ KInv(kk)  BY Zenon, <1>8, LoanReturned DEF Lends, Keeps
<1>10. Moves(k3, kk, None)  BY Zenon, <1>9, UnrefMoves
<1>11. Moves(k3, kk, t)
    <2>1. k3.state[t] # "BLOCKED"  BY <1>7 DEF Ends, Dead
    <2> QED  BY Zenon, <1>10, <2>1, MovesAbout
<1> HIDE DEF kk
<1>12. Ends(k1, kk, t)  BY Zenon, <1>4, <1>7, <1>11, MovesEnds, EndsMoves
<1>13. Ends(k, kk, t)
    <2>1. Frame(k, k1) /\ \A q \in Proc : Move(k, k1, q)
        BY Zenon, <1>1, ConstantsAssumption DEF Moves
    <2>2. k1.parent = k.parent /\ k1.kin = k.kin /\ Children(k1, t) = Children(k, t)
        BY <1>2, <2>1 DEF Frame, Children
    <2>3. Inherited(k, kk, t)  BY Zenon, <1>12, <2>2 DEF Ends, Inherited
    <2>4. ASSUME NEW q \in Proc, q # t PROVE Move(k, kk, q)
        <3>1. Move(k1, kk, q) /\ Move(k, k1, q) /\ k1.wait_on[q] \in {k.wait_on[q], None}
            BY Zenon, <1>12, <2>1, <2>4 DEF Ends, Frame
        <3> QED  BY <3>1 DEF Move, Parked
    <2> QED  BY <1>12, <2>1, <2>3, <2>4 DEF Ends, Frame
<1>14. WaitInv(kk)  BY Zenon, <1>7, <1>10, MovesWaitInv
<1> QED  BY Zenon, <1>13, <1>14 DEF kk, k3, k2, k1

\* SIGSTOP and PROC_CTL_SUSPEND of a runnable t.
LEMMA SuspendShift ==
    ASSUME NEW k, KInv(k), NEW t \in Proc, k.state[t] \in {"RUNNING", "READY"}, NEW kk, KInv(kk),
           kk = process_unref(scheduler_remove_process(
                    [process_ref(k, t) EXCEPT !.state[t] = "BLOCKED"], t), t)
    PROVE  /\ Orderly(k, kk) /\ \A q \in Proc : kk.wait_on[q] \in {k.wait_on[q], None}
           /\ \A q \in Proc : q # t => Calm(k, kk, q)
           /\ Stops(k, kk, t) \/ Dying(k, kk, t)
<1> DEFINE k1 == process_ref(k, t)
           S  == [k.state EXCEPT ![t] = "BLOCKED"]
           k2 == [k1 EXCEPT !.state[t] = "BLOCKED"]
           k3 == scheduler_remove_process(k2, t)
<1>1. k \in KState /\ k.state \in [Proc -> PState]  BY Zenon DEF KInv, KState
<1>2. Lends(k, k1, t)  BY Zenon, RefLends
<1>3. k2 = [k EXCEPT !.ref[t] = @ + 1, !.state = S]  BY <1>1 DEF process_ref, KState
<1>4. kk = process_unref(k3, t)  BY Zenon
<1> HIDE DEF k1
<1>5. KInv(k2) /\ Lends(k, k2, t)
    <2>1. Keeps(k1, k2)  BY <1>2, SetStateKeeps DEF PState, Lends
    <2> HIDE DEF k2
    <2> QED  BY Zenon, <1>2, <2>1, LendsTrans DEF Keeps
<1> HIDE DEF k2, S
<1>6. /\ Rest(k, k2) /\ k2.current = k.current /\ k2.on_queue = k.on_queue
      /\ k2.wait_on = k.wait_on /\ k2.sleepers = k.sleepers /\ k2.state = S
    BY Zenon, <1>1, <1>3 DEF KState, Rest
<1>7. /\ Keeps(k2, k3) /\ Moves(k2, k3, t) /\ ~k3.on_queue[t]
    BY Zenon, <1>5, RemoveKeeps, RemoveMoves
<1> HIDE DEF k3
<1>8. KInv(k3)  BY Zenon, <1>7 DEF Keeps
<1>9. Moves(k3, kk, None)  BY Zenon, <1>4, <1>8, UnrefMoves
<1>10. Frame(k2, kk)  BY Zenon, <1>7, <1>9, FrameTrans DEF Moves
<1>11. ASSUME NEW q \in Proc, q # t PROVE Calm(k, kk, q)
    <2>1. Move(k2, k3, q) /\ Move(k3, kk, q) /\ k3.wait_on[q] \in {k2.wait_on[q], None}
        BY Zenon, <1>7, <1>9, <1>11, ConstantsAssumption DEF Moves, Frame
    <2>2. k2.state[q] = k.state[q]  BY Zenon, <1>1, <1>6, <1>11 DEF S
    <2>3. Move(k, kk, q)  BY <1>6, <2>1, <2>2 DEF Move, Parked
    <2> QED  BY Zenon, <1>6, <1>10, <2>3 DEF Calm, Frame
<1>12. kk.state[t] \in {"BLOCKED", "FREE"} /\ ~kk.on_queue[t]
    <2>1. k2.state[t] = "BLOCKED"  BY Zenon, <1>1, <1>6 DEF S
    <2>2. k3.state[t] \in {"BLOCKED", "FREE"}  BY <1>7, <2>1 DEF Moves, Fall
    <2> DEFINE u == process_unref(k3, t)
    <2>3. k3 \in KState /\ k3.state \in [Proc -> PState]  BY Zenon, <1>8 DEF KInv, KState
    <2>4. /\ u.on_queue = k3.on_queue
          /\ \E x \in {k3.state[t], "FREE"} : u.state = [k3.state EXCEPT ![t] = x]
        BY Zenon, <2>3, UnrefFields
    <2>5. kk = u  BY Zenon, <1>4
    <2> HIDE DEF u
    <2> QED  BY <1>7, <2>2, <2>3, <2>4, <2>5
<1>13. Stops(k, kk, t) \/ Dying(k, kk, t)
    BY <1>6, <1>10, <1>12 DEF Stops, Dying, Dead, Stays, Frame
<1>14. Orderly(k, kk) /\ \A q \in Proc : kk.wait_on[q] \in {k.wait_on[q], None}
    <2>1. Rest(k, kk) /\ \A q \in Proc : kk.wait_on[q] \in {k.wait_on[q], None}
        BY Zenon, <1>6, <1>10 DEF Frame, Rest
    <2>2. ASSUME NEW q \in Proc, kk.state[q] = "TERMINATED" PROVE k.state[q] = "TERMINATED"
        BY <1>11, <1>12, <2>2 DEF Calm, Move
    <2> QED  BY Zenon, <2>1, <2>2 DEF Orderly
<1> QED  BY Zenon, <1>11, <1>13, <1>14

\* SIGCONT and PROC_CTL_RESUME of a BLOCKED t.
LEMMA ResumeShift ==
    ASSUME NEW k, KInv(k), NEW t \in Proc, k.state[t] = "BLOCKED", NEW kk, KInv(kk),
           kk = process_unref(scheduler_add_process(
                    process_set_ready(process_ref(k, t), t), t), t)
    PROVE  /\ Orderly(k, kk) /\ kk.wait_on = k.wait_on
           /\ \A q \in Proc : q # t => Calm(k, kk, q)
           /\ Readied(k, kk, t)
<1> DEFINE k1 == process_ref(k, t)
           k3 == scheduler_add_process(process_set_ready(k1, t), t)
           u  == process_unref(k3, t)
<1>1. k \in KState /\ k.state \in [Proc -> PState] /\ k.on_queue \in [Proc -> BOOLEAN]
    BY Zenon DEF KInv, KState
<1>2. k1 \in KState  BY Zenon, RefLends DEF Lends, KInv
<1>3. /\ Rest(k, k1) /\ k1.current = k.current /\ k1.on_queue = k.on_queue
      /\ k1.wait_on = k.wait_on /\ k1.sleepers = k.sleepers /\ k1.state = k.state
    BY Zenon, <1>1 DEF process_ref, KState, Rest
<1>4. kk = u  BY Zenon
<1> HIDE DEF k1
<1>5. ~Dead(k1, t)  BY <1>3 DEF Dead
<1>6. /\ Rest(k1, k3) /\ k3.current = k1.current
      /\ k3.state = [k1.state EXCEPT ![t] = "READY"]
      /\ k3.on_queue = [k1.on_queue EXCEPT ![t] = TRUE]
      /\ k3.wait_on = k1.wait_on /\ k3.sleepers = k1.sleepers
    BY Zenon, <1>2, <1>5, ReadyFields
<1>7. k3 \in KState
    <2> DEFINE r == process_set_ready(k1, t)
    <2>1. KInv(k1)  BY Zenon, RefLends DEF Lends, k1
    <2>2. KInv(r)  BY Zenon, <2>1, SetReadyKeeps DEF Keeps
    <2> HIDE DEF r
    <2>3. scheduler_add_process(r, t) \in KState  BY Zenon, <2>2, AddKeeps DEF Keeps, KInv
    <2> QED  BY Zenon, <2>3 DEF r
<1> HIDE DEF k3
<1>8. /\ Rest(k3, u) /\ u.current = k3.current /\ u.on_queue = k3.on_queue
      /\ u.wait_on = k3.wait_on /\ u.sleepers = k3.sleepers
      /\ \E x \in {k3.state[t], "FREE"} : u.state = [k3.state EXCEPT ![t] = x]
    BY Zenon, <1>7, UnrefFields
<1> HIDE DEF u
<1>9. /\ Rest(k, kk) /\ kk.current = k.current
      /\ kk.wait_on = k.wait_on /\ kk.sleepers = k.sleepers
    BY <1>3, <1>4, <1>6, <1>8 DEF Rest
<1>10. /\ kk.on_queue[t] /\ kk.state[t] \in {"READY", "FREE"}
       /\ \A q \in Proc : q # t => kk.state[q] = k.state[q] /\ kk.on_queue[q] = k.on_queue[q]
    BY <1>1, <1>3, <1>4, <1>6, <1>8
<1>11. kk.state[t] # "FREE"  BY <1>10 DEF KInv, Unheld, Held, One
<1>12. ASSUME NEW q \in Proc, q # t PROVE Calm(k, kk, q)
    BY Zenon, <1>9, <1>10, <1>12 DEF Calm, Move, Parked
<1>13. Readied(k, kk, t)  BY <1>9, <1>10, <1>11 DEF Readied, Stays
<1>14. Orderly(k, kk)  BY <1>9, <1>10 DEF Orderly
<1> QED  BY Zenon, <1>9, <1>12, <1>13, <1>14

-----------------------------------------------------------------------------
(***************************************************************************)
(* The timer, exit, reaping and creation.                                  *)
(***************************************************************************)
\* sleep_list_wake_due() takes t off the sleep list and readies it.
LEMMA DueShift ==
    ASSUME NEW k, KInv(k), NEW t \in Proc, NEW kk,
           LET taken == sleep_list_remove(k, t)
           IN  kk = IF k.state[t] = "BLOCKED"
                    THEN scheduler_add_process(process_set_ready(taken, t), t)
                    ELSE taken
    PROVE  /\ Orderly(k, kk) /\ kk.wait_on = k.wait_on
           /\ \A q \in Proc : q # t => Calm(k, kk, q)
           /\ Calm(k, kk, t) \/ Readied(k, kk, t)
<1> DEFINE k1 == sleep_list_remove(k, t)
           k3 == scheduler_add_process(process_set_ready(k1, t), t)
<1>1. /\ k \in KState /\ k.state \in [Proc -> PState] /\ k.on_queue \in [Proc -> BOOLEAN]
      /\ k.sleepers \in Seq(Proc)
    BY Zenon DEF KInv, KState
<1>2. k1 \in KState  BY Zenon, SleepRemoveKeeps DEF Keeps, KInv
<1>3. /\ Rest(k, k1) /\ k1.current = k.current /\ k1.state = k.state
      /\ k1.on_queue = k.on_queue /\ k1.wait_on = k.wait_on
      /\ k1.sleepers = RemoveFirst(k.sleepers, t)
    BY Zenon, <1>1, SleepOffFields
<1>4. kk = IF k.state[t] = "BLOCKED" THEN k3 ELSE k1  BY Zenon
<1> HIDE DEF k1
<1>5. \A q \in Proc : q # t /\ Contains(k.sleepers, q) => Contains(k1.sleepers, q)
    BY <1>1, <1>3, RemoveFirstOther
<1>6. CASE k.state[t] = "BLOCKED"
    <2>1. ~Dead(k1, t)  BY <1>3, <1>6 DEF Dead
    <2>2. /\ Rest(k1, k3) /\ k3.current = k1.current
          /\ k3.state = [k1.state EXCEPT ![t] = "READY"]
          /\ k3.on_queue = [k1.on_queue EXCEPT ![t] = TRUE]
          /\ k3.wait_on = k1.wait_on /\ k3.sleepers = k1.sleepers
        BY Zenon, <1>2, <2>1, ReadyFields
    <2> HIDE DEF k3
    <2>3. kk = k3  BY Zenon, <1>4, <1>6
    <2>4. /\ Rest(k, kk) /\ kk.current = k.current /\ kk.wait_on = k.wait_on
          /\ kk.sleepers = k1.sleepers
        BY Zenon, <1>3, <2>2, <2>3 DEF Rest
    <2>5. /\ kk.on_queue[t] /\ kk.state[t] = "READY"
          /\ \A q \in Proc : q # t => kk.state[q] = k.state[q] /\ kk.on_queue[q] = k.on_queue[q]
        BY <1>1, <1>3, <2>2, <2>3
    <2>6. ASSUME NEW q \in Proc, q # t PROVE Calm(k, kk, q)
        BY Zenon, <1>5, <2>4, <2>5, <2>6 DEF Calm, Move, Parked
    <2>7. Readied(k, kk, t)  BY Zenon, <1>6, <2>4, <2>5 DEF Readied, Stays
    <2>8. Orderly(k, kk)  BY <2>4, <2>5 DEF Orderly
    <2> QED  BY Zenon, <2>4, <2>6, <2>7, <2>8
<1>7. CASE k.state[t] # "BLOCKED"
    <2>1. kk = k1  BY Zenon, <1>4, <1>7
    <2>2. \A q \in Proc : Calm(k, kk, q)
        BY <1>3, <1>5, <1>7, <2>1 DEF Calm, Move, Parked
    <2> QED  BY Zenon, <1>3, <2>1, <2>2 DEF Orderly
<1> QED  BY Zenon, <1>6, <1>7

\* p ends and hands the CPU over: sys_exit() and the fatal signals.
LEMMA ExitShift ==
    ASSUME NEW k, KInv(k), Good(k), NEW p \in Proc, k.current = p
    PROVE  LET kk == schedule_dead(terminate(k, p), p)
           IN  /\ Good(kk) /\ \A q \in Proc : Shift(k, kk, q)
               /\ \E k1 : Ends(k, k1, p) /\ KInv(k1) /\ Good(k1) /\ Hands(k1, kk, p)
<1> DEFINE k1 == terminate(k, p)
           kk == schedule_dead(k1, p)
<1>1. Keeps(k, k1) /\ Ends(k, k1, p) /\ WaitInv(k1)
    BY Zenon, TerminateKeeps, TerminateEnds DEF Good
<1>2. kk = switch_away(scheduler_pick_next(k1), p, PickedNext(k1))
    BY Zenon DEF schedule_dead
<1> HIDE DEF k1
<1>3. KInv(k1) /\ k1.current = p  BY Zenon, <1>1 DEF Keeps
<1>4. Good(k1)  BY Zenon, <1>1, EndsGood
<1>5. PickedNext(k1) # p
    <2>1. CASE k1.rq = << >>  BY <2>1, ConstantsAssumption DEF PickedNext
    <2>2. CASE k1.rq # << >>
        <3>1. k1.on_queue[PickedNext(k1)]  BY Zenon, <1>3, <2>2, PickFields
        <3> QED  BY Zenon, <1>1, <3>1 DEF Ends
    <2> QED  BY Zenon, <2>1, <2>2
<1>6. Hands(k1, kk, p) /\ KInv(kk)  BY Zenon, <1>2, <1>3, <1>5, PickHands
<1> HIDE DEF kk
<1>7. Leaving(k1, p)  BY <1>1 DEF Leaving, Ends, Dead
<1>8. /\ \A q \in Proc : Shift(k1, kk, q)
      /\ \A q \in Proc : kk.state[q] = "TERMINATED" => k1.state[q] = "TERMINATED"
    BY Zenon, <1>6, <1>7, HandsShift
<1>9. Good(kk)
    <2>1. Rest(k1, kk) /\ \A q \in Proc : Awaits(k1, kk, q)
        BY Zenon, <1>6 DEF Hands, Awaits
    <2> QED  BY ZenonT(30), <1>4, <1>8, <2>1, ShiftGood
<1>10. \A q \in Proc : q # p => Calm(k, kk, q) \/ Picked(k, kk, q)
    BY Zenon, <1>1, <1>6, HandsOthers DEF Ends
<1>11. Dying(k, kk, p)  BY <1>1, <1>6 DEF Ends, Hands, Dying, Dead, Stays
<1> QED  BY Zenon, <1>1, <1>3, <1>4, <1>6, <1>9, <1>10, <1>11 DEF Shift, kk, k1

\* c is reaped: it leaves its family, and nothing else changes.
Reaps(k, kk, c) ==
    /\ kk.current = k.current /\ kk.wait_on = k.wait_on /\ kk.sleepers = k.sleepers
    /\ Dead(kk, c) /\ ~kk.on_queue[c] /\ kk.reaped[c] /\ kk.parent[c] = None
    /\ \A q \in Proc : q # c => /\ kk.state[q] = k.state[q] /\ kk.on_queue[q] = k.on_queue[q]
                                /\ kk.reaped[q] = k.reaped[q]
                                /\ kk.parent[q] = k.parent[q] /\ kk.kin[q] = k.kin[q]

\* waitpid() reaps a zombie, which is on no queue.
LEMMA ReapFields ==
    ASSUME NEW k, KInv(k), NEW c \in Proc, k.state[c] = "TERMINATED", ~k.on_queue[c]
    PROVE  Reaps(k, reap(k, c), c)
<1> DEFINE k1 == process_ref(k, c)
           P  == [k.parent EXCEPT ![c] = None]
           N  == [k.kin EXCEPT ![c] = FALSE]
           B  == [k.reaped EXCEPT ![c] = TRUE]
           k2 == [k1 EXCEPT !.parent[c] = None, !.kin[c] = FALSE]
           k3 == reap_claim_release(k2, c)
           k4 == scheduler_remove_process(k3, c)
           kk == process_unref(k4, c)
<1>0. reap(k, c) = kk  BY Zenon DEF reap
<1>1. /\ k \in KState /\ k.state \in [Proc -> PState] /\ k.on_queue \in [Proc -> BOOLEAN]
      /\ k.parent \in [Proc -> Proc \cup {None}] /\ k.kin \in [Proc -> BOOLEAN]
      /\ k.reaped \in [Proc -> BOOLEAN]
    BY Zenon DEF KInv, KState
<1>2. k1 \in KState  BY Zenon, RefLends DEF Lends, KInv
<1>3. /\ k1.current = k.current /\ k1.state = k.state /\ k1.on_queue = k.on_queue
      /\ k1.wait_on = k.wait_on /\ k1.sleepers = k.sleepers
      /\ k1.parent = k.parent /\ k1.kin = k.kin /\ k1.reaped = k.reaped
    BY <1>1 DEF process_ref, KState
<1>4. P \in [Proc -> Proc \cup {None}] /\ N \in [Proc -> BOOLEAN] /\ B \in [Proc -> BOOLEAN]
    BY <1>1
<1> HIDE DEF k1, P, N, B
<1>5. k2 = [k1 EXCEPT !.parent = P, !.kin = N]  BY <1>2, <1>3 DEF KState, P, N
<1>6. KInv(k2) /\ k2 \in KState
    <2>1. [k1 EXCEPT !.parent = P, !.kin = N] \in KState  BY Zenon, <1>2, <1>4 DEF KState
    <2>2. KInv(k1)  BY Zenon, RefLends DEF Lends, k1
    <2>3. Keeps(k1, [k1 EXCEPT !.parent = P, !.kin = N])
        BY ZenonT(40), <1>2, <2>1, <2>2, SameRefs DEF KState
    <2> QED  BY Zenon, <1>5, <2>3 DEF Keeps, KInv
<1>7. /\ k2.current = k.current /\ k2.state = k.state /\ k2.on_queue = k.on_queue
      /\ k2.wait_on = k.wait_on /\ k2.sleepers = k.sleepers
      /\ k2.parent = P /\ k2.kin = N /\ k2.reaped = k.reaped
    BY <1>2, <1>3, <1>5 DEF KState
<1> HIDE DEF k2
<1>8. /\ k3 \in KState /\ k3.current = k.current /\ k3.on_queue = k.on_queue
      /\ k3.wait_on = k.wait_on /\ k3.sleepers = k.sleepers
      /\ k3.parent = P /\ k3.kin = N /\ k3.reaped = B
      /\ \E x \in {"TERMINATED", "FREE"} : k3.state = [k.state EXCEPT ![c] = x]
    <2>1. CASE k2.reaped[c]
        <3>1. k3 = k2  BY Zenon, <2>1 DEF reap_claim_release
        <3>2. B = k.reaped /\ k.state = [k.state EXCEPT ![c] = "TERMINATED"]
            BY <1>1, <1>7, <2>1 DEF B
        <3> QED  BY Zenon, <1>6, <1>7, <3>1, <3>2
    <2>2. CASE ~k2.reaped[c]
        <3> DEFINE b == [k2 EXCEPT !.reaped[c] = TRUE]
                   u == process_unref(b, c)
        <3>1. k3 = u  BY Zenon, <2>2 DEF reap_claim_release
        <3>2. b = [k2 EXCEPT !.reaped = B]  BY <1>6, <1>7 DEF KState, B
        <3>3. /\ b.current = k.current /\ b.state = k.state /\ b.on_queue = k.on_queue
              /\ b.wait_on = k.wait_on /\ b.sleepers = k.sleepers
              /\ b.parent = P /\ b.kin = N /\ b.reaped = B
            BY <1>6, <1>7, <3>2 DEF KState
        <3>4. b \in KState
            <4>1. [k2 EXCEPT !.reaped = B] \in KState  BY Zenon, <1>4, <1>6 DEF KState
            <4> QED  BY Zenon, <3>2, <4>1
        <3>5. k3 \in KState  BY Zenon, <1>6, ClaimKeeps DEF Keeps, KInv
        <3> HIDE DEF b
        <3>6. /\ Rest(b, u) /\ u.current = b.current /\ u.on_queue = b.on_queue
              /\ u.wait_on = b.wait_on /\ u.sleepers = b.sleepers
              /\ \E x \in {b.state[c], "FREE"} : u.state = [b.state EXCEPT ![c] = x]
            BY Zenon, <3>4, UnrefFields
        <3> QED  BY <3>1, <3>3, <3>5, <3>6 DEF Rest
    <2> QED  BY Zenon, <2>1, <2>2
<1> HIDE DEF k3
<1>9. k4 = k3  BY Zenon, <1>8 DEF scheduler_remove_process
<1> HIDE DEF k4
<1>10. /\ Rest(k3, kk) /\ kk.current = k3.current /\ kk.on_queue = k3.on_queue
       /\ kk.wait_on = k3.wait_on /\ kk.sleepers = k3.sleepers
       /\ \E x \in {k3.state[c], "FREE"} : kk.state = [k3.state EXCEPT ![c] = x]
    BY ZenonT(40), <1>8, <1>9, UnrefFields
<1> HIDE DEF kk
<1>11. Dead(kk, c) /\ \A q \in Proc : q # c => kk.state[q] = k.state[q]
    BY <1>1, <1>8, <1>10 DEF Dead
<1>12. /\ kk.parent[c] = None /\ kk.reaped[c]
       /\ \A q \in Proc : q # c => /\ kk.reaped[q] = k.reaped[q]
                                   /\ kk.parent[q] = k.parent[q] /\ kk.kin[q] = k.kin[q]
    BY <1>1, <1>8, <1>10 DEF Rest, P, N, B
<1>13. Reaps(k, kk, c)  BY Zenon, <1>8, <1>10, <1>11, <1>12 DEF Reaps
<1> QED  BY Zenon, <1>0, <1>13

\* Reaping keeps the invariant: the reaped process is dead, is not init and does
\* not run.
LEMMA ReapGood ==
    ASSUME NEW k, NEW kk, Good(k), NEW c \in Proc, Reaps(k, kk, c),
           c # InitProc, k.current # c
    PROVE  Good(kk) /\ \A q \in Proc : Shift(k, kk, q)
<1>1. \A q \in Proc : Shift(k, kk, q)
    BY Zenon DEF Reaps, Shift, Calm, Dying, Stays, Move, Parked
<1>2. \A q \in Proc : Sane(kk, q)  BY DEF Reaps, Good, Sane, Dead
<1>3. Family(kk)  BY ConstantsAssumption DEF Reaps, Good, Family, Dead
<1>4. WaitInv(kk)
    <2>1. SUFFICES ASSUME NEW p \in Proc, kk.wait_on[p] = p, NEW x \in Proc, ZombieOf(kk, x, p)
                   PROVE  FALSE
        BY Zenon DEF WaitInv
    <2>2. x # c  BY Zenon, <2>1, ConstantsAssumption DEF Reaps, ZombieOf, IsChildOf
    <2>3. ZombieOf(k, x, p)  BY Zenon, <2>1, <2>2 DEF Reaps, ZombieOf, IsChildOf
    <2> QED  BY Zenon, <2>1, <2>3 DEF Reaps, Good, WaitInv
<1> QED  BY Zenon, <1>1, <1>2, <1>3, <1>4 DEF Good

\* c is created as a child of p; a process that c's PID was the parent of in an
\* earlier life is no child of the new one.
Creates(k, kk, p, c) ==
    /\ kk.current = k.current /\ kk.wait_on = k.wait_on /\ kk.sleepers = k.sleepers
    /\ kk.state[c] = "READY" /\ kk.on_queue[c] /\ ~kk.reaped[c]
    /\ kk.parent[c] = p /\ kk.kin[c]
    /\ \A q \in Proc : q # c => /\ kk.state[q] = k.state[q] /\ kk.on_queue[q] = k.on_queue[q]
                                /\ kk.reaped[q] = k.reaped[q] /\ kk.parent[q] = k.parent[q]
                                /\ kk.kin[q] = (k.kin[q] /\ k.parent[q] # c)

\* A PCB that is not in use is held by nobody.
LEMMA FreeUnheld ==
    ASSUME NEW k, KInv(k), NEW c \in Proc, k.state[c] = "FREE"
    PROVE  k.reaped[c] /\ ~k.on_queue[c] /\ k.current # c /\ k.wait_on[c] = None
<1>1. Held(k, c) = 0  BY Zenon DEF KInv, Unheld
<1> QED  BY <1>1 DEF Held, One

\* fork() and spawn() fill a PCB that is not in use.
LEMMA CreateFields ==
    ASSUME NEW k, KInv(k), NEW p \in Proc, NEW c \in Proc, k.state[c] = "FREE"
    PROVE  Creates(k, process_create(k, p, c), p, c)
<1> DEFINE S  == [k.state EXCEPT ![c] = "READY"]
           R  == [k.ref EXCEPT ![c] = 1]
           B  == [k.reaped EXCEPT ![c] = FALSE]
           D  == [k.deadline EXCEPT ![c] = 0]
           P  == [k.parent EXCEPT ![c] = p]
           N  == [q \in Proc |-> IF q = c THEN TRUE ELSE k.kin[q] /\ k.parent[q] # c]
           k1 == [k EXCEPT !.state[c] = "READY", !.ref[c] = 1, !.reaped[c] = FALSE,
                    !.on_queue[c] = FALSE, !.wait_on[c] = None, !.deadline[c] = 0,
                    !.parent[c] = p,
                    !.kin = [q \in Proc |-> IF q = c THEN TRUE
                                            ELSE @[q] /\ k.parent[q] # c]]
           kk == scheduler_add_process(k1, c)
<1>1. /\ k \in KState /\ k.state \in [Proc -> PState] /\ k.ref \in [Proc -> Nat]
      /\ k.reaped \in [Proc -> BOOLEAN] /\ k.on_queue \in [Proc -> BOOLEAN]
      /\ k.wait_on \in [Proc -> WaitObj \cup {None}]
      /\ k.deadline \in [Proc -> Nat] /\ k.parent \in [Proc -> Proc \cup {None}]
      /\ k.kin \in [Proc -> BOOLEAN]
    BY Zenon DEF KInv, KState
<1>2. /\ S \in [Proc -> PState] /\ R \in [Proc -> Nat] /\ B \in [Proc -> BOOLEAN]
      /\ D \in [Proc -> Nat] /\ P \in [Proc -> Proc \cup {None}]
      /\ N \in [Proc -> BOOLEAN]
    BY Zenon, <1>1 DEF PState
<1>3. ~k.on_queue[c] /\ k.wait_on[c] = None  BY Zenon, FreeUnheld
<1>4. [k.on_queue EXCEPT ![c] = FALSE] = k.on_queue /\ [k.wait_on EXCEPT ![c] = None] = k.wait_on
    BY <1>1, <1>3
<1>5. k1 = [k EXCEPT !.state = S, !.ref = R, !.reaped = B, !.deadline = D,
                     !.parent = P, !.kin = N]
    <2> DEFINE O  == [k.on_queue EXCEPT ![c] = FALSE]
               A  == [k.wait_on EXCEPT ![c] = None]
    <2>1. k1 = [k EXCEPT !.state = S, !.ref = R, !.reaped = B, !.on_queue = O,
                     !.wait_on = A, !.deadline = D, !.parent = P, !.kin = N]
        BY <1>1 DEF KState
    <2>2. O = k.on_queue /\ A = k.wait_on  BY Zenon, <1>4
    <2> HIDE DEF O, A, S, R, B, D, P, N, k1
    <2> QED  BY <1>1, <2>1, <2>2 DEF KState
<1>6. process_create(k, p, c) = kk  BY Zenon DEF process_create
<1> HIDE DEF k1
<1>7. /\ k1.state = S /\ k1.reaped = B /\ k1.on_queue = k.on_queue
      /\ k1.wait_on = k.wait_on /\ k1.current = k.current /\ k1.sleepers = k.sleepers
      /\ k1.parent = P /\ k1.kin = N
    BY <1>1, <1>5 DEF KState
<1>8. k1 \in KState
    <2> HIDE DEF S, R, B, D, P, N
    <2>1. [k EXCEPT !.state = S, !.ref = R, !.reaped = B, !.deadline = D,
                    !.parent = P, !.kin = N] \in KState
        BY Zenon, <1>1, <1>2 DEF KState
    <2> QED  BY Zenon, <1>5, <2>1
<1>9. S[c] = "READY" /\ ~Dead(k1, c)  BY <1>1, <1>7 DEF Dead
<1>10. /\ Rest(k1, kk) /\ kk.current = k1.current
       /\ kk.state = [k1.state EXCEPT ![c] = "READY"]
       /\ kk.on_queue = [k1.on_queue EXCEPT ![c] = TRUE]
       /\ kk.wait_on = k1.wait_on /\ kk.sleepers = k1.sleepers
    BY Zenon, <1>3, <1>7, <1>8, <1>9, AddFields
<1> HIDE DEF kk
<1>11. /\ kk.state[c] = "READY" /\ kk.on_queue[c]
       /\ \A q \in Proc : q # c => kk.state[q] = k.state[q] /\ kk.on_queue[q] = k.on_queue[q]
    BY <1>1, <1>7, <1>10
<1>12. /\ ~kk.reaped[c] /\ kk.parent[c] = p /\ kk.kin[c]
       /\ \A q \in Proc : q # c => /\ kk.reaped[q] = k.reaped[q] /\ kk.parent[q] = k.parent[q]
                                   /\ kk.kin[q] = (k.kin[q] /\ k.parent[q] # c)
    BY <1>1, <1>7, <1>10 DEF Rest
<1>13. Creates(k, kk, p, c)  BY Zenon, <1>7, <1>10, <1>11, <1>12 DEF Creates
<1> QED  BY Zenon, <1>6, <1>13

\* Creation keeps the invariant: the caller lives, so it is not the new process,
\* and init was never reaped, so it is not either.
LEMMA CreateGood ==
    ASSUME NEW k, NEW kk, KInv(k), Good(k), NEW p \in Proc, k.current = p, NEW c \in Proc,
           k.state[c] = "FREE", Creates(k, kk, p, c)
    PROVE  /\ Good(kk) /\ Born(k, kk, c)
           /\ \A q \in Proc : q # c => Calm(k, kk, q)
<1>1. k.reaped[c] /\ ~k.on_queue[c] /\ k.current # c /\ k.wait_on[c] = None
    BY Zenon, FreeUnheld
<1>2. Born(k, kk, c)  BY Zenon DEF Creates, Born, Stays
<1>3. ASSUME NEW q \in Proc, q # c PROVE Calm(k, kk, q)
    BY Zenon, <1>3 DEF Creates, Calm, Move, Parked
<1>4. \A q \in Proc : Sane(kk, q)  BY DEF Creates, Good, Sane
<1>5. Family(kk)
    <2>1. c # InitProc /\ p # c  BY Zenon, <1>1 DEF Good, Family
    <2> QED  BY <2>1, ConstantsAssumption DEF Creates, Good, Family, Dead
<1>6. WaitInv(kk)
    <2>1. SUFFICES ASSUME NEW r \in Proc, kk.wait_on[r] = r, NEW x \in Proc, ZombieOf(kk, x, r)
                   PROVE  FALSE
        BY Zenon DEF WaitInv
    <2>2. x # c  BY <2>1 DEF Creates, ZombieOf
    <2>3. ZombieOf(k, x, r)  BY Zenon, <2>1, <2>2 DEF Creates, ZombieOf, IsChildOf
    <2> QED  BY Zenon, <2>1, <2>3 DEF Creates, Good, WaitInv
<1> QED  BY Zenon, <1>2, <1>3, <1>4, <1>5, <1>6 DEF Good

\* A signal takes a blocked target off its wait object; it wakes nobody else.
LEMMA SignalShift ==
    ASSUME NEW k, KInv(k), NEW t \in Proc, NEW kk,
           kk = process_unref(abort_if_blocked(process_ref(k, t), t), t)
    PROVE  /\ Orderly(k, kk) /\ \A q \in Proc : kk.wait_on[q] \in {k.wait_on[q], None}
           /\ \A q \in Proc : q # t => Calm(k, kk, q)
           /\ \/ Calm(k, kk, t)
              \/ k.state[t] = "BLOCKED" /\ (Unparked(k, kk, t) \/ Dying(k, kk, t))
<1> DEFINE k1 == process_ref(k, t)
           k2 == abort_if_blocked(k1, t)
<1>1. Lends(k, k1, t) /\ Moves(k, k1, None)  BY Zenon, RefLends, RefMoves
<1>2. k1.state = k.state  BY Zenon DEF process_ref, KInv, KState
<1> HIDE DEF k1
<1>3. KInv(k1)  BY Zenon, <1>1 DEF Lends
<1>4. CASE k.state[t] # "BLOCKED"
    <2>1. kk = process_unref(k1, t)  BY Zenon, <1>2, <1>4 DEF abort_if_blocked, k1
    <2>2. KInv(kk) /\ Moves(k, kk, None)
        <3>1. Keeps(k, kk)  BY Zenon, <1>1, <2>1, LoanReturned
        <3>2. Moves(k, kk, None)  BY <1>1, <2>1, LoanMoves
        <3> QED  BY Zenon, <3>1, <3>2 DEF Keeps
    <2>3. None \notin Proc  BY ConstantsAssumption
    <2>4. Orderly(k, kk) /\ \A q \in Proc : q # None => Calm(k, kk, q)
        BY <2>2, <2>3, MovesShift
    <2> QED  BY Zenon, <2>2, <2>3, <2>4 DEF Moves, Frame
<1>5. CASE k.state[t] = "BLOCKED"
    <2>1. Keeps(k1, k2) /\ Moves(k1, k2, t)
        BY Zenon, <1>3, AbortIfBlockedKeeps, AbortIfBlockedMoves
    <2> HIDE DEF k2
    <2>2. Lends(k, k2, t)  BY Zenon, <1>1, <2>1, LendsTrans
    <2>3. Moves(k, k1, t)
        <3>1. process_ref(k, t).on_queue = k.on_queue
            BY Zenon DEF process_ref, KInv, KState
        <3>2. Fall(k, k1, t)  BY Zenon, <1>2, <3>1 DEF Fall, k1
        <3> QED  BY Zenon, <1>1, <3>2, ConstantsAssumption DEF Moves
    <2>4. Moves(k, k2, t)  BY Zenon, <2>1, <2>3, MovesTrans
    <2>5. KInv(kk) /\ Moves(k, kk, t)
        BY Zenon, <2>2, <2>4, LoanReturned, LoanMoves DEF k2, k1, Keeps
    <2>6. \A q \in Proc : kk.wait_on[q] \in {k.wait_on[q], None}  BY Zenon, <2>5 DEF Moves, Frame
    <2>7. /\ Orderly(k, kk) /\ \A q \in Proc : q # t => Calm(k, kk, q)
          /\ Unparked(k, kk, t) \/ Dying(k, kk, t)
        BY <1>5, <2>5, MovesShift
    <2> QED  BY Zenon, <1>5, <2>6, <2>7
<1> QED  BY Zenon, <1>4, <1>5

\* A kill: the target ends, and every other process is left alone or woken.
LEMMA EndsShift ==
    ASSUME NEW k, NEW kk, Good(k), NEW t \in Proc, Ends(k, kk, t), WaitInv(kk)
    PROVE  Good(kk) /\ \A q \in Proc : Shift(k, kk, q)
<1>1. Good(kk)  BY Zenon, EndsGood
<1>2. \A q \in Proc : Shift(k, kk, q)
    BY Zenon DEF Ends, Shift, Calm, Dying, Stays
<1> QED  BY Zenon, <1>1, <1>2

\* scheduler_remove_process() of a process that runs, which it therefore does
\* not free.
LEMMA RemoveFields ==
    ASSUME NEW k, KInv(k), NEW p \in Proc, k.current = p
    PROVE  LET kk == scheduler_remove_process(k, p)
           IN  /\ KInv(kk) /\ Rest(k, kk) /\ kk.current = k.current /\ kk.state = k.state
               /\ kk.wait_on = k.wait_on /\ kk.sleepers = k.sleepers
               /\ ~kk.on_queue[p]
               /\ \A q \in Proc : q # p => kk.on_queue[q] = k.on_queue[q]
<1> DEFINE kk == scheduler_remove_process(k, p)
<1>1. KInv(kk)  BY Zenon, RemoveKeeps DEF Keeps
<1>2. CASE ~k.on_queue[p]  BY Zenon, <1>1, <1>2 DEF scheduler_remove_process, Rest
<1>3. CASE k.on_queue[p]
    <2> DEFINE O  == [k.on_queue EXCEPT ![p] = FALSE]
               Q  == RemoveFirst(k.rq, p)
               k1 == [k EXCEPT !.on_queue[p] = FALSE, !.rq = RemoveFirst(@, p)]
               u  == process_unref(k1, p)
    <2>1. /\ k \in KState /\ k.rq \in Seq(Proc) /\ k.on_queue \in [Proc -> BOOLEAN]
          /\ k.state \in [Proc -> PState]
        BY Zenon DEF KInv, KState
    <2>2. O \in [Proc -> BOOLEAN] /\ Q \in Seq(Proc)
        BY <2>1, RemoveFirstType
    <2>3. k1 = [k EXCEPT !.on_queue = O, !.rq = Q]  BY <2>1 DEF KState
    <2>4. kk = u  BY Zenon, <1>3 DEF scheduler_remove_process
    <2> HIDE DEF k1, Q
    <2>5. /\ Rest(k, k1) /\ k1.current = k.current /\ k1.state = k.state
          /\ k1.wait_on = k.wait_on /\ k1.sleepers = k.sleepers /\ k1.on_queue = O
        BY <2>1, <2>3 DEF KState, Rest
    <2>6. k1 \in KState
        <3>1. [k EXCEPT !.on_queue = O, !.rq = Q] \in KState  BY Zenon, <2>1, <2>2 DEF KState
        <3> QED  BY Zenon, <2>3, <3>1
    <2>7. /\ Rest(k1, u) /\ u.current = k1.current /\ u.on_queue = k1.on_queue
          /\ u.wait_on = k1.wait_on /\ u.sleepers = k1.sleepers
          /\ \E x \in {k1.state[p], "FREE"} : u.state = [k1.state EXCEPT ![p] = x]
        BY Zenon, <2>6, UnrefFields
    <2> HIDE DEF u, kk
    <2>8. kk.current = p  BY Zenon, <2>4, <2>5, <2>7
    <2>9. kk.state[p] # "FREE"  BY Zenon, <1>1, <2>8, FreeUnheld
    <2>10. kk.state = k.state  BY <2>1, <2>4, <2>5, <2>7, <2>9
    <2>11. ~kk.on_queue[p] /\ \A q \in Proc : q # p => kk.on_queue[q] = k.on_queue[q]
        BY <2>1, <2>4, <2>5, <2>7
    <2>12. Rest(k, kk)  BY Zenon, <2>4, <2>5, <2>7 DEF Rest
    <2> QED  BY Zenon, <1>1, <2>4, <2>5, <2>7, <2>10, <2>11, <2>12 DEF kk
<1> QED  BY Zenon, <1>2, <1>3

\* The default action of a stop signal, before schedule() looks at the slice.
LEMMA StopFields ==
    ASSUME NEW k, KInv(k), NEW p \in Proc, k.current = p
    PROVE  LET h == scheduler_remove_process([k EXCEPT !.state[p] = "BLOCKED"], p)
           IN  /\ KInv(h) /\ Rest(k, h) /\ h.current = k.current
               /\ h.wait_on = k.wait_on /\ h.sleepers = k.sleepers
               /\ h.state[p] = "BLOCKED" /\ ~h.on_queue[p]
               /\ \A q \in Proc : q # p => h.state[q] = k.state[q] /\ h.on_queue[q] = k.on_queue[q]
<1> DEFINE S  == [k.state EXCEPT ![p] = "BLOCKED"]
           k1 == [k EXCEPT !.state[p] = "BLOCKED"]
           h  == scheduler_remove_process(k1, p)
<1>1. k \in KState /\ k.state \in [Proc -> PState]  BY Zenon DEF KInv, KState
<1>2. KInv(k1)  BY Zenon, SetStateKeeps DEF PState, Keeps
<1>3. /\ Rest(k, k1) /\ k1.current = k.current /\ k1.on_queue = k.on_queue
      /\ k1.wait_on = k.wait_on /\ k1.sleepers = k.sleepers /\ k1.state = S
    BY <1>1 DEF KState, Rest
<1> HIDE DEF k1
<1>4. /\ KInv(h) /\ Rest(k1, h) /\ h.current = k1.current /\ h.state = k1.state
      /\ h.wait_on = k1.wait_on /\ h.sleepers = k1.sleepers
      /\ ~h.on_queue[p]
      /\ \A q \in Proc : q # p => h.on_queue[q] = k1.on_queue[q]
    BY Zenon, <1>2, <1>3, RemoveFields
<1> HIDE DEF h
<1>5. Rest(k, h)  BY Zenon, <1>3, <1>4 DEF Rest
<1>6. h.state[p] = "BLOCKED" /\ \A q \in Proc : q # p => h.state[q] = k.state[q]
    BY <1>1, <1>3, <1>4
<1> QED  BY Zenon, <1>3, <1>4, <1>5, <1>6 DEF h, k1

\* And with schedule(): the next process is run, and the stopped one requeued.
LEMMA StopShift ==
    ASSUME NEW k, KInv(k), NEW p \in Proc, k.current = p, k.wait_on[p] = None,
           k.state[p] \in {"RUNNING", "READY"}, NEW h, NEW kk, KInv(kk),
           h = scheduler_remove_process([k EXCEPT !.state[p] = "BLOCKED"], p),
           \/ kk = h
           \/ LET queued == scheduler_add_process(h, p)
                  next   == PickedNext(queued)
                  picked == scheduler_pick_next(queued)
              IN  \/ next = p /\ kk \in {process_unref(picked, p),
                        process_unref([picked EXCEPT !.state[p] = "RUNNING"], p)}
                  \/ next # p /\ kk = switch_away(picked, p, next)
    PROVE  /\ Orderly(k, kk)
           /\ \A q \in Proc : Shift(k, kk, q) \/ (q = p /\ Stops(k, kk, q))
<1>1. /\ KInv(h) /\ Rest(k, h) /\ h.current = k.current
      /\ h.wait_on = k.wait_on /\ h.sleepers = k.sleepers
      /\ h.state[p] = "BLOCKED" /\ ~h.on_queue[p]
      /\ \A q \in Proc : q # p => h.state[q] = k.state[q] /\ h.on_queue[q] = k.on_queue[q]
    BY ZenonT(40), StopFields
<1>2. Orderly(h, kk) /\ \A q \in Proc : Shift(h, kk, q)
    <2>1. CASE kk = h  BY Zenon, <2>1 DEF Orderly, Rest, Shift, Calm, Move, Parked
    <2>2. CASE kk # h
        <3>1. h.current = p /\ h.wait_on[p] = None  BY Zenon, <1>1
        <3>2. Sane(h, p)  BY SMTT(20), <1>1 DEF Sane
        <3> QED  BY <1>1, <2>2, <3>1, <3>2, RequeueShift
    <2> QED  BY Zenon, <2>1, <2>2
<1>3. ASSUME NEW q \in Proc, q # p PROVE Shift(k, kk, q)
    <2>1. Shift(h, kk, q) /\ h.state[q] = k.state[q] /\ h.on_queue[q] = k.on_queue[q]
        BY Zenon, <1>1, <1>2, <1>3
    <2> QED  BY <1>1, <2>1
        DEF Shift, Calm, Move, Parked, Dying, Stays, Picked, Requeued, Leaves, Dead
<1>4. Shift(k, kk, p) \/ Stops(k, kk, p)
    <2>1. Shift(h, kk, p)  BY Zenon, <1>2
    <2> QED  BY <1>1, <2>1
        DEF Shift, Calm, Move, Dying, Stays, Picked, Requeued, Leaves, Dead, Stops
<1>5. Orderly(k, kk)
    <2>1. Rest(k, kk)  BY Zenon, <1>1, <1>2 DEF Orderly, Rest
    <2>2. ASSUME NEW q \in Proc, kk.state[q] = "TERMINATED" PROVE k.state[q] = "TERMINATED"
        BY <1>1, <1>2, <2>2 DEF Orderly
    <2> QED  BY Zenon, <2>1, <2>2 DEF Orderly
<1> QED  BY Zenon, <1>3, <1>4, <1>5

-----------------------------------------------------------------------------
(***************************************************************************)
(* Who reaps whom.                                                         *)
(***************************************************************************)
\* c has a parent that can reap it: a live one, or init.
HasReaper(k, c) ==
    \E p \in Proc : IsChildOf(k, c, p) /\ (p = InitProc \/ ~Dead(k, p))

\* What NoOrphan says of a kernel state.
Parented(k) ==
    \A c \in Proc \ {InitProc} : k.state[c] # "FREE" /\ ~k.reaped[c] => HasReaper(k, c)

\* No process is freed that was not reaped, and nothing that is reaped lives.
LEMMA FreedWasDead ==
    ASSUME NEW k, NEW kk, KInv(k), KInv(kk), Good(k), kk.reaped = k.reaped, NEW q \in Proc
    PROVE  /\ kk.state[q] = "FREE" => Dead(k, q)
           /\ ~kk.reaped[q] => k.state[q] # "FREE"
  BY Zenon, FreeUnheld DEF Good, Family

\* Steps that terminate nobody.
LEMMA OrderlyParented ==
    ASSUME NEW k, NEW kk, KInv(k), KInv(kk), Good(k), Orderly(k, kk), Parented(k)
    PROVE  Parented(kk)
<1> SUFFICES ASSUME NEW c \in Proc \ {InitProc}, kk.state[c] # "FREE", ~kk.reaped[c]
             PROVE  HasReaper(kk, c)
    BY Zenon DEF Parented
<1>1. Rest(k, kk) /\ kk.reaped = k.reaped  BY Zenon DEF Orderly, Rest
<1>2. \A q \in Proc : /\ kk.state[q] = "FREE" => Dead(k, q)
                      /\ ~kk.reaped[q] => k.state[q] # "FREE"
    BY Zenon, <1>1, FreedWasDead
<1>3. HasReaper(k, c)  BY Zenon, <1>1, <1>2 DEF Parented
<1>4. PICK p \in Proc : IsChildOf(k, c, p) /\ (p = InitProc \/ ~Dead(k, p))
    BY Zenon, <1>3 DEF HasReaper
<1>5. IsChildOf(kk, c, p)  BY Zenon, <1>1, <1>4 DEF Rest, IsChildOf
<1>6. ~Dead(k, p) => ~Dead(kk, p)  BY <1>2 DEF Orderly, Dead
<1> QED  BY Zenon, <1>4, <1>5, <1>6 DEF HasReaper

\* A process ends: init inherits its children.
LEMMA EndsParented ==
    ASSUME NEW k, NEW kk, KInv(k), KInv(kk), Good(k), NEW t \in Proc, Ends(k, kk, t),
           Parented(k)
    PROVE  Parented(kk)
<1> SUFFICES ASSUME NEW c \in Proc \ {InitProc}, kk.state[c] # "FREE", ~kk.reaped[c]
             PROVE  HasReaper(kk, c)
    BY Zenon DEF Parented
<1>1. kk.reaped = k.reaped /\ Inherited(k, kk, t) /\ \A q \in Proc : q # t => Move(k, kk, q)
    BY Zenon DEF Ends
<1>2. \A q \in Proc : /\ kk.state[q] = "FREE" => Dead(k, q)
                      /\ ~kk.reaped[q] => k.state[q] # "FREE"
    BY Zenon, <1>1, FreedWasDead
<1>3. HasReaper(k, c)  BY Zenon, <1>1, <1>2 DEF Parented
<1>4. PICK p \in Proc : IsChildOf(k, c, p) /\ (p = InitProc \/ ~Dead(k, p))
    BY Zenon, <1>3 DEF HasReaper
<1>5. k.parent[c] # c  BY Zenon DEF Good, Family
<1>6. CASE p = t /\ t # InitProc
    <2>1. c \in Children(k, t)  BY Zenon, <1>4, <1>5, <1>6 DEF Children, IsChildOf
    <2>2. kk.parent[c] = InitProc  BY Zenon, <1>1, <1>6, <2>1 DEF Inherited
    <2> QED  BY Zenon, <2>2, ConstantsAssumption DEF HasReaper, IsChildOf
<1>7. CASE p # t \/ t = InitProc
    <2>1. t # InitProc => c \notin Children(k, t)  BY Zenon, <1>4, <1>7 DEF Children, IsChildOf
    <2>2. kk.parent[c] = k.parent[c] /\ kk.kin[c] = k.kin[c]
        BY Zenon, <1>1, <2>1 DEF Inherited
    <2>3. IsChildOf(kk, c, p)  BY Zenon, <1>4, <2>2 DEF IsChildOf
    <2>4. CASE p = InitProc  BY Zenon, <2>3, <2>4 DEF HasReaper
    <2>5. CASE p # InitProc
        <3>1. Move(k, kk, p) /\ ~Dead(k, p)  BY Zenon, <1>1, <1>4, <1>7, <2>5
        <3>2. ~Dead(kk, p)  BY <1>2, <3>1 DEF Move, Dead
        <3> QED  BY Zenon, <2>3, <3>2 DEF HasReaper
    <2> QED  BY Zenon, <2>4, <2>5
<1> QED  BY Zenon, <1>6, <1>7

\* A zombie is reaped: it was nobody's reaper.
LEMMA ReapParented ==
    ASSUME NEW k, NEW kk, NEW c \in Proc, Reaps(k, kk, c), Dead(k, c), c # InitProc,
           Parented(k)
    PROVE  Parented(kk)
<1> SUFFICES ASSUME NEW x \in Proc \ {InitProc}, kk.state[x] # "FREE", ~kk.reaped[x]
             PROVE  HasReaper(kk, x)
    BY Zenon DEF Parented
<1>1. x # c  BY Zenon DEF Reaps
<1>2. /\ kk.state[x] = k.state[x] /\ kk.reaped[x] = k.reaped[x]
      /\ kk.parent[x] = k.parent[x] /\ kk.kin[x] = k.kin[x]
    BY Zenon, <1>1 DEF Reaps
<1>3. HasReaper(k, x)  BY Zenon, <1>2 DEF Parented
<1>4. PICK p \in Proc : IsChildOf(k, x, p) /\ (p = InitProc \/ ~Dead(k, p))
    BY Zenon, <1>3 DEF HasReaper
<1>5. IsChildOf(kk, x, p)  BY Zenon, <1>2, <1>4 DEF IsChildOf
<1>6. p # InitProc => kk.state[p] = k.state[p]  BY Zenon, <1>4 DEF Reaps
<1> QED  BY Zenon, <1>4, <1>5, <1>6 DEF HasReaper, Dead

\* A live process has a child; nobody was a child of the PCB it is put into.
LEMMA CreateParented ==
    ASSUME NEW k, NEW kk, NEW p \in Proc, NEW c \in Proc, Creates(k, kk, p, c),
           ~Dead(k, p), k.state[c] = "FREE", c # InitProc, Parented(k)
    PROVE  Parented(kk)
<1> SUFFICES ASSUME NEW x \in Proc \ {InitProc}, kk.state[x] # "FREE", ~kk.reaped[x]
             PROVE  HasReaper(kk, x)
    BY Zenon DEF Parented
<1>1. CASE x = c
    <2>1. p # c  BY DEF Dead
    <2>2. IsChildOf(kk, x, p) /\ ~Dead(kk, p)
        BY <1>1, <2>1 DEF Creates, IsChildOf, Dead
    <2> QED  BY Zenon, <2>2 DEF HasReaper
<1>2. CASE x # c
    <2>1. /\ kk.state[x] = k.state[x] /\ kk.reaped[x] = k.reaped[x]
          /\ kk.parent[x] = k.parent[x] /\ kk.kin[x] = (k.kin[x] /\ k.parent[x] # c)
        BY Zenon, <1>2 DEF Creates
    <2>2. HasReaper(k, x)  BY Zenon, <2>1 DEF Parented
    <2>3. PICK r \in Proc : IsChildOf(k, x, r) /\ (r = InitProc \/ ~Dead(k, r))
        BY Zenon, <2>2 DEF HasReaper
    <2>4. r # c  BY <2>3 DEF Dead
    <2>5. IsChildOf(kk, x, r)  BY Zenon, <2>1, <2>3, <2>4 DEF IsChildOf
    <2>6. kk.state[r] = k.state[r]  BY Zenon, <2>4 DEF Creates
    <2> QED  BY Zenon, <2>3, <2>5, <2>6 DEF HasReaper, Dead
<1> QED  BY Zenon, <1>1, <1>2
=============================================================================
