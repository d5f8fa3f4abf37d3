----------------------------- MODULE MCDashboard -----------------------------
(***************************************************************************)
(* TLC instance of Dashboard: a server with and one without a database,    *)
(* one reading per answer so that a window can hold more, a clock that     *)
(* goes further than the window is long, and two loads that can overtake   *)
(* each other.  The environment gives the token, or a malformed port,      *)
(* which hides it.                                                         *)
(***************************************************************************)
EXTENDS Dashboard

CONSTANTS s1, empty, token, malformed

MCFile(enabled) ==
  [port |-> 0, auth_token |-> empty, buffer_size |-> 10, db_enabled |-> enabled,
   db_retention_days |-> 1, db_flush_period |-> 1, db_channel_size |-> 1]

MCFiles == {MCFile(TRUE), MCFile(FALSE)}
MCEnvs == {[auth_token |-> token], [auth_token |-> token, port |-> Malformed]}
MCSensors == {s1}
MCDefaultLimit == 1
MCWindows == {1}
MCInitial == 1
MCMaxLoads == 2
MCStoreCapacity == 10
MCMaxReadings == 2
MCMaxTime == 2

=============================================================================
