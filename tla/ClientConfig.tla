---------------------------- MODULE ClientConfig ----------------------------
(***************************************************************************)
(* internal/config/config.go: what the sensor program runs with.  A        *)
(* configuration is a record of the fields the other modules depend on;    *)
(* the logging fields decide nothing here.  A file leaves a number 0 and a *)
(* text Empty where it says nothing.  Durations are in the unit of time of *)
(* the instance, rounded up.                                               *)
(***************************************************************************)
EXTENDS Integers

CONSTANTS
  Empty,                        \* the empty text
  Second,                       \* one second
  DefaultReadInterval,          \* 30 s
  DefaultReconnectInterval,     \* 1 s
  DefaultMaxReconnectInterval,  \* 5 min
  DefaultPingInterval,          \* 30 s
  DefaultPongTimeout            \* 10 s

Durations == {"read_interval", "reconnect_interval", "max_reconnect_interval",
              "ping_interval", "pong_timeout"}

DefaultDuration ==
  [read_interval          |-> DefaultReadInterval,
   reconnect_interval     |-> DefaultReconnectInterval,
   max_reconnect_interval |-> DefaultMaxReconnectInterval,
   ping_interval          |-> DefaultPingInterval,
   pong_timeout           |-> DefaultPongTimeout]

ASSUME ClientConfigAssumption ==
  /\ Second \in Nat \ {0}
  /\ \A d \in Durations : DefaultDuration[d] \in Nat \ {0}

(* What a file and an environment can say, but for negative durations,     *)
(* which nothing rejects and which make a ticker panic.                    *)
IsFile(file) ==
  /\ DOMAIN file = Durations \cup {"sensor_id", "gpio_pin", "url", "auth_token", "buffer_size",
                                  "drop_oldest"}
  /\ \A d \in Durations : file[d] \in Nat
  /\ {file.gpio_pin, file.buffer_size} \subseteq Int
  /\ file.drop_oldest \in BOOLEAN

IsEnvironment(env) == DOMAIN env \subseteq {"sensor_id", "url", "auth_token"}

(* Mistake the code could make: the pong timeout keeps its zero. *)
BugApplyDefaults(c) ==
  [f \in DOMAIN c |->
     CASE f \in Durations \ {"pong_timeout"} /\ c[f] = 0 -> DefaultDuration[f]
       [] f = "buffer_size" /\ c[f] = 0                  -> 1000
       [] f = "drop_oldest" /\ c["buffer_size"] = 0      -> TRUE
       [] OTHER                                          -> c[f]]

(* A buffer without a size also gets drop_oldest, whatever the file says of *)
(* that; one with a size keeps what the file says, which is FALSE if it says *)
(* nothing.                                                                 *)
ApplyDefaults(c) ==
  [f \in DOMAIN c |->
     CASE f \in Durations /\ c[f] = 0               -> DefaultDuration[f]
       [] f = "buffer_size" /\ c[f] = 0             -> 1000
       [] f = "drop_oldest" /\ c["buffer_size"] = 0 -> TRUE
       [] OTHER                                     -> c[f]]

(* SENSOR_ID, SERVER_URL and SERVER_AUTH_TOKEN; a variable that is set to   *)
(* nothing counts as not set.                                               *)
OverrideFromEnv(c, env) ==
  [f \in DOMAIN c |-> IF f \in DOMAIN env /\ env[f] # Empty THEN env[f] ELSE c[f]]

Validate(c) ==
  /\ c.sensor_id # Empty
  /\ c.gpio_pin > 0
  /\ c.url # Empty
  /\ c.auth_token # Empty
  /\ c.read_interval >= Second
  /\ c.buffer_size \in 10..100000

(* LoadConfig returns a configuration, or an error that ends the program.   *)
LoadConfig(file, env) ==
  LET c == OverrideFromEnv(ApplyDefaults(file), env)
  IN  IF Validate(c) THEN {c} ELSE {}

=============================================================================
