CONSTANTS
  p1 = p1
  p2 = p2
  d1 = d1
  d2 = d2
  Nobody = Nobody
  Script = Script
  Proc <- MCProc
  Dir <- MCDir
  Scripted <- OneScript
SPECIFICATION Spec
INVARIANTS RefusedForAnotherRun
CHECK_DEADLOCK FALSE
