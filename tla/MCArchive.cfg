SPECIFICATION FairSpec
CONSTANTS
  s1 = s1
  Sensors <- MCSensors
  Zones <- MCUTC
  RetentionDays <- MCRetentionDays
  Limits <- MCLimits
  MaxRows <- MCMaxRows
  MaxTime <- MCMaxTime
  MaxRestarts <- MCMaxRestarts
INVARIANTS
  ArchiveTypeOK
  CountsAgree
  ScrollIsExact
PROPERTIES
  ExpiredAreErased
  StopClosesTheStore
