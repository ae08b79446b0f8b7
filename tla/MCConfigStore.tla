--------------------------- MODULE MCConfigStore ---------------------------
(***************************************************************************)
(* Instances of ConfigStore: a disk with room for a file with an indirect  *)
(* block, the boot log and one or two entries of the table.                *)
(***************************************************************************)
EXTENDS ConfigStore

MCSaves   == {<< "ide", << [w \in {0, 1} |-> 2] >> >>}
MCBootMsg == << [w \in {0, 1} |-> 1] >>
=============================================================================
