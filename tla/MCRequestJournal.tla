-------------------------- MODULE MCRequestJournal --------------------------
(* Small instances of RequestJournal for TLC.                              *)
EXTENDS RequestJournal, TLC

Symmetry == Permutations(Ids)
=============================================================================
