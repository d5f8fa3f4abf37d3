SPECIFICATION FairSpec
CONSTANTS
  s1 = s1
  empty = empty
  token = token
  malformed = malformed
  Empty <- empty
  Malformed <- malformed
  Sensors <- MCSensors
  Files <- MCFiles
  Envs <- MCEnvs
  DefaultLimit <- MCDefaultLimit
  Windows <- MCWindows
  Initial <- MCInitial
  MaxLoads <- MCMaxLoads
  StoreCapacity <- MCStoreCapacity
  MaxReadings <- MCMaxReadings
  MaxTime <- MCMaxTime
INVARIANTS
  DashboardTypeOK
  ChartHasNoHoles
PROPERTIES
  LiveCatchesUp
