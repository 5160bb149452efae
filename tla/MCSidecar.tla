----------------------------- MODULE MCSidecar -----------------------------
EXTENDS Sidecar, TLC

Symmetry == Permutations(Revivals) \cup Permutations(Procs) \cup Permutations(Ports)
=============================================================================
