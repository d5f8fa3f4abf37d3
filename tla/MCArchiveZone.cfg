SPECIFICATION FairSpec
CONSTANTS
  s1 = s1
  Sensors <- MCSensors
  Zones <- MCWest
  RetentionDays <- MCRetentionDays
  Limits <- MCLimits
  MaxRows <- MCMaxRows
  MaxTime <- MCMaxTime
  MaxRestarts <- MCMaxRestarts
PROPERTY
  KeptForRetention
