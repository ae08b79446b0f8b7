---------------------------- MODULE ChannelRing ----------------------------
(***************************************************************************)
(* The two rings of one channel object (ipc/channel.c) and the calls that  *)
(* move data through them: ch_write and ch_read, which a write to stdout    *)
(* and a read of stdin on a bound channel also come down to, and            *)
(* ch_sendmsg and ch_recvmsg.  Who may call is in Channel.                  *)
(*                                                                         *)
(* head and tail are free-running counters of a fixed width.  A cell of    *)
(* the ring is a byte; the 16-byte header of a message is two cells, its    *)
(* length field and the rest.  Any cell can be read as a length, as it can  *)
(* in the code once byte calls and message calls meet on one channel.       *)
(***************************************************************************)
EXTENDS Integers, Sequences, SequencesExt, FiniteSetsExt

CONSTANTS
    Cap,            \* capacity of a ring, a power of two
    Width,          \* 2^32: values of a counter
    Cell,           \* values of a byte
    MaxIo,          \* CH_MAX_IO
    MaxLen,         \* the longest message a caller tries to send
    Writers         \* the ends at which somebody writes

Hsz == 2
EAGAIN == -11
EFAULT == -14
EMSGSIZE == -90

\* mask = cap - 1 takes the remainder only if cap divides the counters' range.
ASSUME RingAssumption ==
    /\ Cap \in Nat \ {0} /\ Width \in Nat /\ Width > Cap /\ Width % Cap = 0
    /\ Cell \subseteq 0 .. (Width - 1) /\ 0 \in Cell

VARIABLES
    ring,           \* ring[e]: the ring that end e reads (to_master, to_slave)
    msg,            \* flags & CH_MSG
    mixed,          \* ghost: a byte call was made on a message channel
    out             \* ghost: the last call and what it returned

vars == << ring, msg, mixed, out >>

Ends == {"master", "slave"}
Other(e) == IF e = "master" THEN "slave" ELSE "master"

Counter == 0 .. (Width - 1)

Ring == [buf : [0 .. (Cap - 1) -> Cell], head : Counter, tail : Counter]

\* Unsigned subtraction.
Used(r) == (r.head - r.tail) % Width

\* Mutant: room for one more than there is.
free_plus_one(r) == (Cap - Used(r) + 1) % Width

Free(r) == (Cap - Used(r)) % Width

\* n cells from offset i past the tail.
Peek(r, i, n) == [j \in 1 .. n |-> r.buf[(r.tail + i + j - 1) % Cap]]

\* The counter moves once, after all cells are in place.
Put(r, d) ==
    [r EXCEPT !.buf = FoldLeft(LAMBDA b, i : [b EXCEPT ![(r.head + i - 1) % Cap] = d[i]],
                               @, [i \in 1 .. Len(d) |-> i]),
              !.head = (@ + Len(d)) % Width]

Take(r, n) == [r EXCEPT !.tail = (@ + n) % Width]

\* Mutant: a write that does not fit keeps its last bytes.
ring_write_last(r, d) ==
    Put(r, SubSeq(d, Len(d) - Min({Len(d), Free(r)}) + 1, Len(d)))

ring_write(r, d) == Put(r, SubSeq(d, 1, Min({Len(d), Free(r)})))

\* The number of cells that a read of len takes.
ring_read(r, len) == Min({len, Used(r)})

\* The whole frame, or nothing.
channel_write_msg(r, m) ==
    LET total == Hsz + Len(m.body)
        hard  == Len(m.body) > MaxIo \/ total > Cap
    IN  CASE hard -> [ring |-> r, res |-> EMSGSIZE]
          [] ~hard /\ total > Free(r) -> [ring |-> r, res |-> EAGAIN]
          [] OTHER -> [ring |-> Put(r, << Len(m.body), m.tag >> \o m.body), res |-> total]

\* Mutant: the header is consumed before the length is compared.
read_msg_takes_header(r, max) ==
    LET hdr   == Peek(r, 0, Hsz)
        len   == hdr[1]
        whole == Used(r) >= Hsz /\ Used(r) >= (Hsz + len) % Width
    IN  CASE ~whole -> [ring |-> r, msg |-> << >>, res |-> EAGAIN]
          [] whole /\ len > max -> [ring |-> Take(r, Hsz), msg |-> << >>, res |-> EMSGSIZE]
          [] OTHER -> [ring |-> Take(r, Hsz + len), res |-> len,
                       msg |-> << [tag |-> hdr[2], body |-> Peek(r, Hsz, len)] >>]

\* The header is looked at before anything is consumed.
channel_read_msg(r, max) ==
    LET hdr   == Peek(r, 0, Hsz)
        len   == hdr[1]
        whole == Used(r) >= Hsz /\ Used(r) >= (Hsz + len) % Width
    IN  CASE ~whole -> [ring |-> r, msg |-> << >>, res |-> EAGAIN]
          [] whole /\ len > max -> [ring |-> r, msg |-> << >>, res |-> EMSGSIZE]
          [] OTHER -> [ring |-> Take(r, Hsz + len), res |-> len,
                       msg |-> << [tag |-> hdr[2], body |-> Peek(r, Hsz, len)] >>]

\* The call, and whether it leaves a message channel to messages.
Returns(o, byteCall) ==
    /\ out' = o
    /\ mixed' = (mixed \/ (msg /\ byteCall))
    /\ UNCHANGED msg

-----------------------------------------------------------------------------

Init ==
    /\ ring = [e \in Ends |-> [buf |-> [i \in 0 .. (Cap - 1) |-> 0], head |-> 0, tail |-> 0]]
    /\ msg \in BOOLEAN
    /\ mixed = FALSE
    /\ out = [call |-> "none"]

\* sys_ch_write(), and sys_write() to a bound descriptor, at end e.
Write(e, d) ==
    LET r == ring[Other(e)]
    IN  /\ ring' = [ring EXCEPT ![Other(e)] = ring_write(r, d)]
        /\ Returns([call |-> "write", end |-> e, data |-> d,
                    res |-> Min({Len(d), Free(r)})], TRUE)

\* sys_ch_read(), and sys_read() of a bound descriptor: the bytes have left the
\* ring when they are copied to the caller, which may fail.
Read(e, len) ==
    LET n == ring_read(ring[e], len)
        o == [call |-> "read", end |-> e, max |-> len]
    IN  /\ ring' = [ring EXCEPT ![e] = Take(@, n)]
        /\ \/ Returns(o @@ [res |-> n, data |-> Peek(ring[e], 0, n)], TRUE)
           \/ n > 0 /\ Returns(o @@ [res |-> EFAULT, data |-> << >>], TRUE)

\* sys_ch_sendmsg() at end e.
Send(e, m) ==
    LET r == channel_write_msg(ring[Other(e)], m)
    IN  /\ msg
        /\ ring' = [ring EXCEPT ![Other(e)] = r.ring]
        /\ Returns([call |-> "send", end |-> e, msg |-> m, res |-> r.res], FALSE)

\* sys_ch_recvmsg() with room for max bytes: the message has left the ring when
\* header and payload are copied to the caller.
Recv(e, max) ==
    LET r == channel_read_msg(ring[e], max)
        o == [call |-> "recv", end |-> e, max |-> max]
    IN  /\ msg
        /\ ring' = [ring EXCEPT ![e] = r.ring]
        /\ \/ Returns(o @@ [msg |-> r.msg, res |-> r.res], FALSE)
           \/ r.res >= 0 /\ Returns(o @@ [msg |-> << >>, res |-> EFAULT], FALSE)

Bytes == BoundedSeq(Cell, MaxIo) \ {<< >>}
\* The length of a message that gets as far as the ring is the value of a cell.
Body == {b \in BoundedSeq(Cell, MaxLen) : Len(b) \in Cell \/ Len(b) > MaxIo
                                              \/ Hsz + Len(b) > Cap}

Next ==
    \/ \E e \in Writers : \/ \E d \in Bytes : Write(e, d)
                          \/ \E t \in Cell, b \in Body : Send(e, [tag |-> t, body |-> b])
    \/ \E e \in Ends : \/ \E len \in 1 .. MaxIo : Read(e, len)
                       \/ \E max \in 0 .. MaxIo : Recv(e, max)

Spec == Init /\ [][Next]_vars

-----------------------------------------------------------------------------
(* Properties *)

\* Every variable in its range, and no more cells in use than there are, also
\* when the counters have wrapped and when a byte is taken for a length.
RingTypeOK ==
    /\ ring \in [Ends -> Ring]
    /\ msg \in BOOLEAN /\ mixed \in BOOLEAN /\ (mixed => msg)
    /\ \A e \in Ends : Used(ring[e]) <= Cap

Contents(r) == Peek(r, 0, Used(r))

Stream == INSTANCE ByteStream WITH queue <- [e \in Ends |-> Contents(ring[e])]

\* A byte channel is a pair of bounded queues: bytes arrive at the other end, in
\* order, once and unaltered; a write takes all there is room for and says how
\* much; a read returns all there is, up to what was asked; only a read whose
\* buffer cannot be written loses anything.
ImplementsStream == Stream!Init /\ [][~msg => Stream!StreamStep]_<< ring, out >>

\* The messages of a ring that holds whole frames.
RECURSIVE Parse(_)
Parse(s) ==
    IF Len(s) < Hsz \/ Len(s) < Hsz + s[1] THEN << >>
    ELSE << [tag |-> s[2], body |-> SubSeq(s, Hsz + 1, Hsz + s[1])] >>
         \o Parse(SubSeq(s, Hsz + s[1] + 1, Len(s)))

Messages == INSTANCE MessageQueue
                WITH queue <- [e \in Ends |-> Parse(Contents(ring[e]))]

\* "Writes are message-atomic (the whole frame commits or nothing); reads return
\* exactly one whole message" (channel.h:67-68), for a message channel on which
\* nobody makes byte calls: it is a pair of queues of messages; EAGAIN and
\* EMSGSIZE leave them alone, and EAGAIN to a receiver means there is none.
ImplementsMessages ==
    Messages!Init /\ [][msg /\ ~mixed' => Messages!MessageStep]_<< ring, out >>
=============================================================================
