SPECIFICATION Spec
CONSTANTS
  Revivals = {r1, r2}
  Creations = {n1}
  Listings = {l1}
  Procs = {p1, p2}
  Ports = {q1, q2}
  None = None
  Unread = Unread
  MaxFaults = 2
SYMMETRY Symmetry
INVARIANTS OneSidecar WorkerFoundSidecar SessionsShareOne
PROPERTIES ShutdownStopsSidecar
CHECK_DEADLOCK FALSE
