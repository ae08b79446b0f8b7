----------------------------- MODULE ByteStream -----------------------------
(***************************************************************************)
(* What a channel promises of bytes: one bounded first-in first-out queue  *)
(* in each direction.  A call is seen from outside as `out`: which end      *)
(* called, the bytes it passed or received, and the result.                *)
(***************************************************************************)
EXTENDS Integers, Sequences, SequencesExt

CONSTANTS Cap, Cell, MaxIo, Ends, EFAULT

VARIABLES
    queue,          \* queue[e]: the bytes on their way to end e
    out             \* the last call

vars == << queue, out >>

Bytes == BoundedSeq(Cell, MaxIo)

Init ==
    /\ queue = [e \in Ends |-> << >>]
    /\ out = [call |-> "none"]

\* As many bytes as there is room for are accepted, from the front.
Write(from, to, d, n) ==
    /\ out' = [call |-> "write", end |-> from, data |-> d, res |-> n]
    /\ n <= Len(d) /\ Len(queue[to]) + n <= Cap
    /\ n < Len(d) => Len(queue[to]) + n = Cap
    /\ queue' = [queue EXCEPT ![to] = @ \o SubSeq(d, 1, n)]

\* As many bytes as there are, and as the caller has room for.
Read(e, max, n) ==
    /\ n <= max /\ n <= Len(queue[e])
    /\ out' = [call |-> "read", end |-> e, max |-> max, res |-> n,
               data |-> SubSeq(queue[e], 1, n)]
    /\ n < max => n = Len(queue[e])
    /\ queue' = [queue EXCEPT ![e] = SubSeq(@, n + 1, Len(@))]

\* A caller whose buffer is bad loses what it would have been given.
Lose(e, max, n) ==
    /\ out' = [call |-> "read", end |-> e, max |-> max, res |-> EFAULT, data |-> << >>]
    /\ 1 <= n /\ n <= max /\ n <= Len(queue[e])
    /\ n < max => n = Len(queue[e])
    /\ queue' = [queue EXCEPT ![e] = SubSeq(@, n + 1, Len(@))]

StreamStep ==
    \E e \in Ends :
        \/ \E to \in Ends \ {e}, d \in Bytes, n \in 0 .. MaxIo : Write(e, to, d, n)
        \/ \E max, n \in 0 .. MaxIo : Read(e, max, n) \/ Lose(e, max, n)
=============================================================================
