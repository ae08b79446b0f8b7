--------------------------- MODULE MCChannelRing ---------------------------
(***************************************************************************)
(* A ring of four cells whose counters wrap at eight; a header takes two.  *)
(* One end writes: the two rings of a channel share nothing.               *)
(***************************************************************************)
EXTENDS ChannelRing

\* What is left in the cells outside tail .. head - 1 is never read, and the
\* last call has no influence on the next.
MCView == << [e \in Ends |-> << Contents(ring[e]), ring[e].tail >>], msg, mixed >>
=============================================================================
