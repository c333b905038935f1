CONSTANTS
  r1 = r1
  NoProc = NoProc
  Run = r1
  SiteText = "absent"
SPECIFICATION FairSpec
INVARIANTS TypeOK CompletedByTheRecords SurvivorCompletes AttemptedFailureIsNamed
PROPERTIES RunIsClassified
CHECK_DEADLOCK FALSE
