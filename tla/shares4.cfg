CONSTANTS
  P = 7
  N = 4
  Owner = 1
  MaxCrashes = 2
SPECIFICATION FairSpec
INVARIANTS RecoveredIsTheKey  ThresholdScheme
PROPERTIES KeyIsRecovered
CHECK_DEADLOCK FALSE
