----------------------------- MODULE MCSchedule -----------------------------
EXTENDS Schedule, TLC

Symmetry == Permutations(Sessions) \cup Permutations(Ids) \cup Permutations(Handlers)
=============================================================================
