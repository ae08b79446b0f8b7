----------------------------- MODULE ReadyFifo -----------------------------
(***************************************************************************)
(* What the scheduler promises tasks of equal priority: they take turns in *)
(* the order in which they became ready.                                   *)
(***************************************************************************)
EXTENDS Lists

CONSTANTS Task, Idle, First

VARIABLES fifo, current

FifoInit == fifo = << >> /\ current = First

\* A task becomes ready behind the ones that are.
Arrive(t) ==
    /\ ~Contains(fifo, t) /\ t # current
    /\ fifo' = Append(fifo, t) /\ UNCHANGED current

\* The running task goes to the end of the line; the first one runs.
Rotate ==
    /\ current # Idle
    /\ current' = Head(Append(fifo, current))
    /\ fifo' = Tail(Append(fifo, current))

\* The running task leaves; the first one runs, if there is one.
Leave ==
    /\ current # Idle
    /\ current' = IF fifo = << >> THEN Idle ELSE Head(fifo)
    /\ fifo' = IF fifo = << >> THEN << >> ELSE Tail(fifo)

\* A waiting task is killed or stopped.
Withdraw(t) ==
    /\ Contains(fifo, t)
    /\ fifo' = RemoveFirst(fifo, t) /\ UNCHANGED current

FifoNext == Rotate \/ Leave \/ \E t \in Task : Arrive(t) \/ Withdraw(t)

\* One step of the queue, or none.
FifoStep == FifoNext \/ UNCHANGED << fifo, current >>

FifoSpec == FifoInit /\ [][FifoStep]_<< fifo, current >>
=============================================================================
