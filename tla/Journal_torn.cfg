CONSTANTS
  Ids = {a, b}
  NoId = NoId
  Unseen = Unseen
  Uncertain = Uncertain
  NoAnswer = NoAnswer
  CompactAfter = 3
  RetainedIds = 2
  MaxEntries = 4
  MaxLines = 8
  Hazards = {"torn"}
SPECIFICATION Spec
SYMMETRY Symmetry
INVARIANT NeverBlindlyReplayed
CHECK_DEADLOCK FALSE
