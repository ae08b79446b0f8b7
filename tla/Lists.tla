------------------------------- MODULE Lists -------------------------------
(***************************************************************************)
(* The linked lists of PCBs (a run-queue level, the timer sleep list, the  *)
(* waiters of a wait object) as sequences, head first.  The four operators *)
(* below are all the models of the scheduler need; they stand apart from   *)
(* SequencesExt because a proof carries everything its module extends.     *)
(***************************************************************************)
EXTENDS Integers, Sequences, FiniteSetsExt, Functions

\* p is linked in q.
Contains(q, p) == \E i \in 1 .. Len(q) : q[i] = p

\* q with its i-th node unlinked.
RemoveAt(q, i) == SubSeq(q, 1, i - 1) \o SubSeq(q, i + 1, Len(q))

\* The list walk that unlinks the first node holding p, if there is one.
RemoveFirst(q, p) ==
    IF Contains(q, p) THEN RemoveAt(q, Min({i \in 1 .. Len(q) : q[i] = p})) ELSE q
=============================================================================
