SPECIFICATION FairSpec
CONSTANTS
  Askers = {1, 2, 3, 4, loop, repl, prompter}
  Lines = {1, 2, 3, 4}
  Casts = {{"viewer", "prompter", "stopper"}, {"loop"}, {"acp"}, {"repl"}}
  Attacher = attacher
  Abandoned = abandoned
  Nobody = nobody
  Loop = loop
  Main = repl
  Prompter = prompter
  Capacity = 2
  MaxPrompts = 3
  MaxFaults = 1
  MaxTurns = 2
  MaxGoals = 2
  MaxTyped = 3
INVARIANTS ViewIsExact StopsWithTheGoal TypedIsSent
PROPERTIES  LinesAreAnswered
CHECK_DEADLOCK FALSE
