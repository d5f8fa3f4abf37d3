SPECIFICATION FairServerSpec
CONSTANTS
  MaxDials <- MCMaxDials
  BaseInterval <- MCBaseInterval
  MaxInterval <- MCMaxInterval
INVARIANTS
  ConnectionTypeOK
  OnlyUnregisteredLeak
  NothingUsableAfterRun
PROPERTIES
  LoopsKeepTheirSocket
  ImplementsLink
  RunReturns
  Reconnects
CHECK_DEADLOCK FALSE
