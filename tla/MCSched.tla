------------------------------ MODULE MCSched ------------------------------
(***************************************************************************)
(* Instances of Sched.  Each configuration names a small set of processes  *)
(* and the calls its workload makes.  All processes but init are           *)
(* interchangeable: only the hot key singles one out, and the runs that    *)
(* use it, like those of liveness properties, do without the symmetry.     *)
(***************************************************************************)
EXTENDS Sched, TLC

MCSymmetry == Permutations(Proc \ {InitProc})
=============================================================================
