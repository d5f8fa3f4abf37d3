SPECIFICATION Spec
CONSTANTS
  id = id
  token = token
  empty = empty
  Empty <- empty
  Second <- MCSecond
  DefaultReadInterval <- MCDefaultReadInterval
  DefaultReconnectInterval <- MCDefaultReconnectInterval
  DefaultMaxReconnectInterval <- MCDefaultMaxReconnectInterval
  DefaultPingInterval <- MCDefaultPingInterval
  DefaultPongTimeout <- MCDefaultPongTimeout
  Files <- MCFiles
  Envs <- MCEnvs
  HandshakeTimeout <- MCHandshakeTimeout
  PongWait <- MCPongWait
  RoundTrip <- MCRoundTrip
  MaxInFlight <- MCMaxInFlight
  MaxCuts <- MCMaxCuts
  MaxTime <- MCMaxTime
INVARIANTS
  KeepAliveTypeOK
  SilenceIsNoticed
  NoFalseAlarm
  OutageIsShort
CHECK_DEADLOCK FALSE
