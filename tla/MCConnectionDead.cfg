SPECIFICATION FairSpec
CONSTANTS
  MaxDials <- MCOneDial
  BaseInterval <- MCBaseInterval
  MaxInterval <- MCMaxInterval
PROPERTY
  DeadLinkIsDropped
CHECK_DEADLOCK FALSE
