SPECIFICATION FairSpec
CONSTANTS
  Configs <- MCConfigs
  MaxOffered <- MCMaxOffered
  MaxCrashes <- MCMaxCrashes
INVARIANTS
  TypeOK
  FirstInFirstOut
  RowsAccountedFor
  StatsFollowRows
  StopSettlesThePast
PROPERTIES
  ImplementsLog
  AcceptedIsSettled
  StopReturns
CHECK_DEADLOCK FALSE
