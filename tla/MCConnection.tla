---------------------------- MODULE MCConnection ----------------------------
(***************************************************************************)
(* TLC instances of Connection: two successive sockets are enough for a    *)
(* reconnect with a goroutine still holding what it saw of the first, and  *)
(* three intervals for a doubling and for one that is capped.              *)
(***************************************************************************)
EXTENDS Connection

MCMaxDials == 2
MCOneDial == 1
MCBaseInterval == 1
MCMaxInterval == 3

=============================================================================
