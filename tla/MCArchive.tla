------------------------------ MODULE MCArchive ------------------------------
(***************************************************************************)
(* TLC instances of Archive: pages shorter than the table and as long, two *)
(* rows in one second or in two, time for a row to expire.  In             *)
(* MCArchive.cfg the sensor's clock shows UTC; in MCArchiveZone.cfg it may *)
(* show one unit of time less.                                             *)
(***************************************************************************)
EXTENDS Archive

CONSTANT s1

MCSensors == {s1}
MCUTC == {0}
MCWest == {-1, 0}
MCRetentionDays == 1
MCLimits == {1, 2}
MCMaxRows == 2
MCMaxTime == 2
MCMaxRestarts == 1

=============================================================================
