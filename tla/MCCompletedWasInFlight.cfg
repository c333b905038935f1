CONSTANTS
  r1 = r1
  NoProc = NoProc
  Run = r1
  SiteText = "absent"
SPECIFICATION Spec
INVARIANTS CompletedWasInFlight
CHECK_DEADLOCK FALSE
