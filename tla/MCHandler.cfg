SPECIFICATION FairSpec
CONSTANTS
  s1 = s1
  a1 = a1
  a2 = a2
  noID = noID
  Sensors <- MCSensors
  Addrs <- MCAddrs
  NoID <- noID
  StoreCapacity <- MCStoreCapacity
  MaxConns <- MCMaxConns
  MaxMessages <- MCMaxMessages
INVARIANTS
  HandlerTypeOK
  StoreAndDatabaseAgree
  ReadMeansHandled
  ConnectionOrder
  ServesTheMostRecent
  ListsTheServed
PROPERTY
  EveryConnectionEnds
CHECK_DEADLOCK FALSE
