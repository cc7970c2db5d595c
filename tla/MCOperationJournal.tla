------------------------- MODULE MCOperationJournal -------------------------
(* OperationJournal for TLC: the symmetry of its model values.             *)
EXTENDS OperationJournal, TLC

\* Versions and contents are only ever compared with each other.
Symmetry == Permutations(Versions) \cup Permutations(Contents)
=============================================================================
