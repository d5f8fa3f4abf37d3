SPECIFICATION FairSpec
CONSTANTS
  Capacity <- MCCapacity
  ReadingsSize <- MCReadingsSize
  BatchSize <- MCBatchSize
  MaxProduced <- MCMaxProduced
PROPERTY
  ReaderStopsToo
CHECK_DEADLOCK FALSE
