CONSTANTS
  MaxRounds = 2
  MaxCalls = 2
  MaxEntries = 6
  MaxSwitches = 1
  MaxFaults = 2
  LegacyEntries = {0, 2}
SPECIFICATION Spec
INVARIANTS TreeIsWhole  CutBetweenTurns SummaryIsOfHidden ForkContinues
CHECK_DEADLOCK FALSE
