----------------------------- MODULE ReadingLog -----------------------------
(***************************************************************************)
(* What the asynchronous database writer promises, without its goroutine,  *)
(* its channel or its batches.  Readings are numbered in the order they    *)
(* are offered.  An accepted reading waits in line; a prefix of the line   *)
(* leaves together, and either becomes the next rows of the log or is lost *)
(* as a whole; rows are never reordered, repeated or rewritten.            *)
(***************************************************************************)
EXTENDS Naturals, Sequences

VARIABLES
  offered,   \* how many readings were offered so far; the last one's number
  line,      \* accepted readings waiting, oldest first
  log        \* rows made durable, oldest first

vars == <<offered, line, log>>

Init ==
  /\ offered = 0
  /\ line = <<>>
  /\ log = <<>>

(* A reading is offered and joins the line. *)
Accept ==
  /\ offered' = offered + 1
  /\ line' = Append(line, offered')
  /\ UNCHANGED log

(* A reading is offered and refused. *)
Refuse ==
  /\ offered' = offered + 1
  /\ UNCHANGED <<line, log>>

(* The first n readings of the line become rows, together and in order. *)
Commit(n) ==
  /\ log' = log \o SubSeq(line, 1, n)
  /\ line' = SubSeq(line, n + 1, Len(line))
  /\ UNCHANGED offered

(* The first n readings of the line are lost together. *)
Lose(n) ==
  /\ line' = SubSeq(line, n + 1, Len(line))
  /\ UNCHANGED <<offered, log>>

Next ==
  \/ Accept
  \/ Refuse
  \/ \E n \in 1..Len(line) : Commit(n) \/ Lose(n)

Spec == Init /\ [][Next]_vars

=============================================================================
