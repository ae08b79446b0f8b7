----------------------------- MODULE FileStore -----------------------------
(***************************************************************************)
(* What a disk of named files promises, whatever happens to the power: a   *)
(* file disappears, appears empty, or receives all of its contents, each   *)
(* at once and without touching another file.                              *)
(***************************************************************************)
EXTENDS Sequences, FiniteSets

CONSTANT Name

VARIABLE files      \* the contents under each name: none, or one sequence

StoreInit == files = [n \in Name |-> {}]

Remove(n) == files' = [files EXCEPT ![n] = {}]

CreateEmpty(n) ==
    /\ files[n] = {}
    /\ files' = [files EXCEPT ![n] = {<< >>}]

Fill(n) ==
    /\ files[n] = {<< >>}
    /\ Cardinality(files'[n]) = 1
    /\ files' = [files EXCEPT ![n] = files'[n]]

StoreNext == \E n \in Name : Remove(n) \/ CreateEmpty(n) \/ Fill(n)

StoreSpec == StoreInit /\ [][StoreNext]_files
=============================================================================
