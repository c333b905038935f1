CONSTANTS
  p1 = p1
  p2 = p2
  d1 = d1
  d2 = d2
  Nobody = Nobody
  Script = Script
  Proc <- MCProc
  Dir <- MCDir
  Scripted <- ByHand
SPECIFICATION Spec
INVARIANTS TypeOK CompletedIsWhole LeftoverIsTold
PROPERTIES OnlyMakerWrites
CHECK_DEADLOCK FALSE
