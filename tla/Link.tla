-------------------------------- MODULE Link --------------------------------
(***************************************************************************)
(* What a Connection shows to the goroutine that sends readings.           *)
(*                                                                         *)
(*   down    IsConnected() is false                                        *)
(*   up      IsConnected() is true and a write may succeed                 *)
(*   broken  IsConnected() is true but every write fails, because an       *)
(*           earlier write failed or the socket is closed                  *)
(*                                                                         *)
(* A broken link does not recover: the manager has to disconnect and dial  *)
(* again, and the sender sees it down in between.  A link can come up      *)
(* broken, when a write that was waiting fails on the new socket.          *)
(***************************************************************************)
VARIABLE link

Init == link = "down"

Connected == link \in {"up", "broken"}

GoUp   == link = "down" /\ link' \in {"up", "broken"}
Break  == link = "up" /\ link' = "broken"
GoDown == Connected /\ link' = "down"

Next == GoUp \/ Break \/ GoDown

Spec == Init /\ [][Next]_link

=============================================================================
