----------------------------- MODULE MCKeepAlive -----------------------------
(***************************************************************************)
(* TLC instances of KeepAlive.  The unit of time is ten seconds, so that   *)
(* the defaults are a ping every 3, 1 for the pong and 6 for the server's  *)
(* deadline.  The files leave both out, set one, or set both so that a     *)
(* ping is longer than, as long as or shorter than the pong timeout.       *)
(***************************************************************************)
EXTENDS KeepAlive

CONSTANTS id, token, empty

MCFile(ping, pong) ==
  [sensor_id |-> id, gpio_pin |-> 4, url |-> "ws", auth_token |-> empty,
   read_interval |-> 0, reconnect_interval |-> 0, max_reconnect_interval |-> 0,
   ping_interval |-> ping, pong_timeout |-> pong, buffer_size |-> 0, drop_oldest |-> FALSE]

MCFiles == {MCFile(0, 0), MCFile(2, 0), MCFile(2, 2), MCFile(0, 4)}

(* Without a token in the file or in the environment it does not start. *)
MCEnvs == {[auth_token |-> token], [auth_token |-> empty]}

MCSecond == 1
MCDefaultReadInterval == 3
MCDefaultReconnectInterval == 1
MCDefaultMaxReconnectInterval == 3
MCDefaultPingInterval == 3
MCDefaultPongTimeout == 1
MCHandshakeTimeout == 1
MCPongWait == 6
MCRoundTrip == 1
MCMaxInFlight == 2
MCMaxCuts == 2
MCMaxTime == 26

=============================================================================
