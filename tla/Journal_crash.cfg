CONSTANTS
  Ids = {a, b, c}
  NoId = NoId
  Unseen = Unseen
  Uncertain = Uncertain
  NoAnswer = NoAnswer
  CompactAfter = 3
  RetainedIds = 2
  MaxEntries = 4
  MaxLines = 6
  Hazards = {"machine"}
SPECIFICATION Spec
SYMMETRY Symmetry
INVARIANTS TypeOK NeverBlindlyReplayed JournaledBeforeDispatch AnswerIsOwn
PROPERTY AnswerIsFinal
CHECK_DEADLOCK FALSE
