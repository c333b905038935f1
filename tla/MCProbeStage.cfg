CONSTANTS
  Files <- MCFiles
  Gpus <- MCGpus
SPECIFICATION FairSpec
INVARIANTS TypeOK NoSilentLeak OkMeansRoundTrip OptionsByPath VramIsTheSum OkLeavesNothing OkEntryIsBacked
PROPERTIES EvidenceBeforeRemoval FoundDaemonSurvives StageEnds
CHECK_DEADLOCK FALSE
