--------------------------- MODULE MCSensorClient ---------------------------
(***************************************************************************)
(* TLC instances of SensorClient.  The buffer is larger than a batch and   *)
(* smaller than the number of readings, so that overflows, drains of more  *)
(* than one batch and partial batches all occur.                           *)
(***************************************************************************)
EXTENDS SensorClient

MCCapacity == 3
MCReadingsSize == 1
MCBatchSize == 2
MCMaxProduced == 5

=============================================================================
