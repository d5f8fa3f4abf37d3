----------------------------- MODULE MCDBWriter -----------------------------
(***************************************************************************)
(* TLC instances of DBWriter.  The channel is smaller than the number of   *)
(* Write calls and larger than a batch, so that a full channel, a full     *)
(* batch, a partial batch and a drain longer than a batch all occur; the   *)
(* other configuration is the one of a file that sets neither option.      *)
(***************************************************************************)
EXTENDS DBWriter

MCConfigs ==
  {[batchSize |-> 2, channelSize |-> 3], [batchSize |-> 0, channelSize |-> 0]}
MCMaxOffered == 5
MCMaxCrashes == 1
MCNoCrash == 0

=============================================================================
