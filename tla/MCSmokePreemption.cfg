CONSTANTS
  r1 = r1
  r2 = r2
  NoProc = NoProc
  Proc <- MCProc
  NoSudo <- MCNoSudo
  SiteText = "absent"
SYMMETRY MCSymmetry
SPECIFICATION Spec
INVARIANTS TypeOK HonestRecord OkMeansRestored
PROPERTIES SwitcherProtocol PhaseTextServed RestoredUnderLease
CHECK_DEADLOCK FALSE
