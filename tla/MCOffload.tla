----------------------------- MODULE MCOffload -----------------------------
(***************************************************************************)
(* Instances of Offload: two processes, and memory for two calls at a time. *)
(***************************************************************************)
EXTENDS Offload
=============================================================================
