---------------------------- MODULE MessageQueue ----------------------------
(***************************************************************************)
(* What a CH_MSG channel promises: a queue of whole messages in each        *)
(* direction, of bounded total size.                                       *)
(***************************************************************************)
EXTENDS Integers, Sequences, SequencesExt, FiniteSetsExt

CONSTANTS Cap, Hsz, Cell, MaxIo, MaxLen, Ends, EAGAIN, EMSGSIZE, EFAULT

VARIABLES
    queue,          \* queue[e]: the messages on their way to end e
    out             \* the last call

vars == << queue, out >>

Payload == BoundedSeq(Cell, MaxLen)
Message == [tag : Cell, body : Payload]

Size(m) == Hsz + Len(m.body)

Room(e) == Cap - FoldLeft(LAMBDA n, m : n + Size(m), 0, queue[e])

Init ==
    /\ queue = [e \in Ends |-> << >>]
    /\ out = [call |-> "none"]

Send(from, to, m) ==
    LET sent(res) == out' = [call |-> "send", end |-> from, msg |-> m, res |-> res]
    IN  \/ /\ sent(EMSGSIZE) /\ UNCHANGED queue
           /\ Len(m.body) > MaxIo \/ Size(m) > Cap
        \/ /\ sent(EAGAIN) /\ UNCHANGED queue
           /\ Len(m.body) <= MaxIo /\ Size(m) <= Cap /\ Size(m) > Room(to)
        \/ /\ sent(Size(m)) /\ queue' = [queue EXCEPT ![to] = Append(@, m)]
           /\ Len(m.body) <= MaxIo /\ Size(m) <= Room(to)

\* The message is delivered whole, or stays, or goes to a bad buffer and is lost.
Recv(e, max) ==
    LET got(m, res) == out' = [call |-> "recv", end |-> e, max |-> max, msg |-> m,
                               res |-> res]
        m == Head(queue[e])
    IN  \/ /\ got(<< >>, EAGAIN) /\ UNCHANGED queue
           /\ queue[e] = << >>
        \/ /\ got(<< >>, EMSGSIZE) /\ UNCHANGED queue
           /\ queue[e] # << >> /\ Len(m.body) > max
        \/ /\ queue[e] # << >> /\ Len(m.body) <= max
           /\ got(<< m >>, Len(m.body)) \/ got(<< >>, EFAULT)
           /\ queue' = [queue EXCEPT ![e] = Tail(@)]

MessageStep ==
    \E e \in Ends :
        \/ \E to \in Ends \ {e}, m \in Message : Send(e, to, m)
        \/ \E max \in 0 .. MaxIo : Recv(e, max)
=============================================================================
