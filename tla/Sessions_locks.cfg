SPECIFICATION Spec
CONSTANTS
  Sessions = {a, b, c}
  First = a
  Tasks = {t1, t2, t3}
  Loop = loop
  Client = client
  Nobody = nobody
  Requests = {"prompt", "edit", "interrupt", "stop", "new", "fork"}
  HostCalls = {"rlm", "message", "delete", "heartbeat"}
  MaxDepth = 1
  MaxRounds = 1
  MaxRequests = 2
  MaxCrashes = 1
SYMMETRY Symmetry
INVARIANTS   FlagIsOfThisTurn OnlyCallsDeadlock
 
CHECK_DEADLOCK FALSE
