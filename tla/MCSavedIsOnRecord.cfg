CONSTANTS
  Files <- MCFiles
  Gpus <- MCGpus
SPECIFICATION Spec
INVARIANTS SavedIsOnRecord
CHECK_DEADLOCK FALSE
