CONSTANTS
  Supervisors = {s1, s2}
  Workers = {w1, w2}
  NoWorker = NoWorker
  NoFence = NoFence
  NoToken = NoToken
  NoSupervisor = NoSupervisor
  Hazards = {"overlap", "midspawn"}
SPECIFICATION FairSpec
PROPERTY StartupCompletes
CHECK_DEADLOCK FALSE
