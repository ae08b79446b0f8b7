----------------------------- MODULE MCRunQueue -----------------------------
(***************************************************************************)
(* RunQueue with two priorities: the default, and nice -2, which has one   *)
(* bonus turn.                                                             *)
(***************************************************************************)
EXTENDS RunQueue

MCNices == {-2, 0}
=============================================================================
