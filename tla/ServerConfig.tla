---------------------------- MODULE ServerConfig ----------------------------
(***************************************************************************)
(* internal/config/server_config.go, and what cmd/server/main.go makes of  *)
(* it.  A configuration is a record of the fields that decide something    *)
(* here: not the host, the timeouts of HTTP, the origins and the logging.  *)
(* A file leaves a number 0 and a text Empty where it says nothing; a      *)
(* variable of the environment is Empty or left out when it is not set.    *)
(***************************************************************************)
EXTENDS Integers

CONSTANTS
  Empty,        \* the empty text
  Malformed     \* a SERVER_PORT that is no number

IsFile(file) ==
  /\ DOMAIN file = {"port", "auth_token", "buffer_size", "db_enabled", "db_retention_days",
                    "db_flush_period", "db_channel_size"}
  /\ {file.port, file.buffer_size, file.db_retention_days, file.db_flush_period,
      file.db_channel_size} \subseteq Int
  /\ file.db_enabled \in BOOLEAN

IsEnvironment(env) == DOMAIN env \subseteq {"port", "auth_token"}

(* Of Server and Storage only; storage.retention_days is given a default    *)
(* too, but nothing reads it.  What a file does not say of the Database     *)
(* stays 0.                                                                 *)
ApplyDefaults(c) ==
  [f \in DOMAIN c |->
     CASE f = "port" /\ c[f] = 0        -> 8081
       [] f = "buffer_size" /\ c[f] = 0 -> 100
       [] OTHER                         -> c[f]]

(* A malformed port ends it: the token after it is not looked at.           *)
OverrideFromEnv(c, env) ==
  LET Says(f) == f \in DOMAIN env /\ env[f] # Empty
  IN  IF Says("port") /\ env["port"] = Malformed
      THEN c
      ELSE [f \in DOMAIN c |-> IF Says(f) THEN env[f] ELSE c[f]]

Validate(c) ==
  /\ c.port \in 1..65535
  /\ c.auth_token # Empty
  /\ c.buffer_size >= 10

(* LoadAppConfig returns a configuration, or an error that ends main.       *)
LoadAppConfig(file, env) ==
  LET c == OverrideFromEnv(ApplyDefaults(file), env)
  IN  IF Validate(c) THEN {c} ELSE {}

(* NewDBWriter panics for a channel of negative size, and its goroutine for *)
(* a ticker without a period, which ends the program.                       *)
DatabaseStarts(c) ==
  c.db_enabled => c.db_flush_period > 0 /\ c.db_channel_size >= 0

=============================================================================
