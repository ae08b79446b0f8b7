--------------------------- MODULE MCAddressSpace ---------------------------
(***************************************************************************)
(* Instances of AddressSpace for TLC.  Page 1 is the top of the stack,     *)
(* loaded with the image; page 2 is anonymous memory.                      *)
(***************************************************************************)
EXTENDS AddressSpace, TLC

CONSTANT MaxLost  \* how many frames may leak

\* Frames are interchangeable, and so are address spaces.
Interchangeable == Permutations(Frame) \cup Permutations(Space)

\* Nothing is claimed of what follows a stray mapping.
Bounded == Undisturbed /\ Cardinality(h.lost) <= MaxLost

\* What the future and the invariants depend on: where a live process runs and
\* what it may write to, and of an operation the fields its next steps read.
Seen ==
    <<pt, cow_table, free, active_pml4, bkl, h,
      [s \in Space |->
         IF status[s] = "live" THEN <<home[s], s \in batch, cursor[s], tlb[s]>>
                               ELSE status[s]],
      [c \in Cpu |->
         LET o == op[c] IN
         <<o.pc, IF o.pc \in {"release", "unlock"} THEN "fork" ELSE o.call,
           IF o.pc = "teardown" /\ o.call \notin Marked THEN Kernel ELSE o.s,
           IF o.pc \in {"release", "unlock"} THEN Kernel ELSE o.n,
           IF o.pc \in {"release", "unlock", "restore", "teardown"} THEN 0 ELSE o.v,
           IF o.pc \in {"forkpage", "forkfail", "stage", "teardown", "release", "unlock",
                        "restore"} THEN NoFrame ELSE o.f,
           IF o.pc = "forkmap" THEN o.e ELSE NoPte,
           IF o.pc \in {"release", "unlock", "teardown"} THEN Kernel ELSE o.saved,
           o.pc \in {"forkpage", "forkmap", "forkfail"} /\ o.changed>>]>>

=============================================================================
