------------------------------ MODULE MCFence ------------------------------
(* Small instances of Fence for TLC.                                       *)
EXTENDS Fence, TLC

(* Process identities are interchangeable; only safety runs use this.      *)
Symmetry == Permutations(Supervisors) \cup Permutations(Workers)
=============================================================================
