SPECIFICATION Spec
CONSTANTS
  Configs <- MCConfigs
  MaxOffered <- MCMaxOffered
  MaxCrashes <- MCNoCrash
INVARIANT
  StopLeavesNothing
CHECK_DEADLOCK FALSE
