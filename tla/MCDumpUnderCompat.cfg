CONSTANTS
  r1 = r1
  r2 = r2
  NoProc = NoProc
  Proc <- MCProc
  NoSudo <- MCNoSudo
  SiteText = "site"
SPECIFICATION Spec
PROPERTIES NeverDumpUnderCompat
CHECK_DEADLOCK FALSE
