SPECIFICATION Spec
CONSTANTS
  Sessions = {a, b}
  Ids = {i1, i2}
  Handlers = {h1}
  Loop = loop
  NoId = none
  AtTimes = {1}
  Counts = {0, 1, 4}
  Units = {2}
  Top = 6
  MaxTime = 3
  MaxCrashes = 1
SYMMETRY Symmetry
INVARIANTS AckedAreKept  FiresOnTime
 
CHECK_DEADLOCK FALSE
