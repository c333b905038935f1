CONSTANTS
  p1 = p1
  p2 = p2
  p3 = p3
  NoProc = NoProc
  Proc <- MCProc
  NoSudo <- MCNoSudo
  SiteText = "site"
SPECIFICATION FairSpec
INVARIANTS TypeOK HonestCleanup
PROPERTIES OnlyHolderTouchesConf LeaseImplemented LockFreed
CHECK_DEADLOCK FALSE
