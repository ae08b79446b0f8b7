----------------------------- MODULE MCChannel -----------------------------
(***************************************************************************)
(* Three processes with two handles each, memory for one channel at a time,*)
(* one grant slot with a one-bit generation.                               *)
(***************************************************************************)
EXTENDS Channel

MCBindings == [Fd -> {0} \cup Handle]
=============================================================================
