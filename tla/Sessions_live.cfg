SPECIFICATION FairSpec
CONSTANTS
  Sessions = {a, b}
  First = a
  Tasks = {t1, t2}
  Loop = loop
  Client = client
  Nobody = nobody
  Requests = {"prompt", "interrupt", "stop"}
  HostCalls = {"rlm"}
  MaxDepth = 1
  MaxRounds = 2
  MaxRequests = 2
  MaxCrashes = 1
PROPERTIES  UsageIsSettled
CHECK_DEADLOCK FALSE
