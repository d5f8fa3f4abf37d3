------------------------------ MODULE MCHandler ------------------------------
(***************************************************************************)
(* TLC instances of Handler.  Two connections of a sensor overlap at the   *)
(* server or follow each other on one address; fewer places in the store   *)
(* than readings.                                                          *)
(***************************************************************************)
EXTENDS Handler

CONSTANTS s1, a1, a2, noID

MCSensors == {s1}
MCAddrs == {a1, a2}
MCStoreCapacity == 2
MCMaxConns == 2
MCMaxMessages == 2

=============================================================================
