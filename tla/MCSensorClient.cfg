SPECIFICATION FairSpec
CONSTANTS
  Capacity <- MCCapacity
  ReadingsSize <- MCReadingsSize
  BatchSize <- MCBatchSize
  MaxProduced <- MCMaxProduced
INVARIANTS
  ClientTypeOK
  SentInOrder
  EveryReadingAccountedFor
  GivesUpTheOldest
PROPERTIES
  ShutdownEnds
  NothingWaitsForever
CHECK_DEADLOCK FALSE
