CONSTANTS
  Supervisors = {s1, s2}
  Workers = {w1, w2}
  NoWorker = NoWorker
  NoFence = NoFence
  NoToken = NoToken
  NoSupervisor = NoSupervisor
  Hazards = {"overlap", "misjudge", "torn", "slow", "midspawn", "revive", "force", "legacy"}
SPECIFICATION Spec
SYMMETRY Symmetry
INVARIANTS OwnerIsNewest
PROPERTIES SupersededNeverServed ImplementsSuccession
CHECK_DEADLOCK FALSE
