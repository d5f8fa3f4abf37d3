---------------------------- MODULE ReadingBuffer ----------------------------
(***************************************************************************)
(* internal/client/buffer.go: the bounded buffer that holds readings while *)
(* the sensor is offline.  Every method is one critical section of         *)
(* rb.mutex, so every method is one action here, and only the methods that *)
(* change the buffer are actions.                                          *)
(***************************************************************************)
EXTENDS Naturals, Sequences

CONSTANT Capacity     \* config.Buffer.Size, at least 10 by Config.Validate

ASSUME ReadingBufferAssumption == Capacity \in Nat \ {0}

VARIABLES
  dropOldest,   \* what a full buffer gives up: its oldest or the new reading
  readings,     \* rb.readings, oldest first
  stats,        \* TotalPushed, TotalDropped, HighWaterMark
  overflowed    \* history: the readings a full buffer gave up

bufferVars == <<dropOldest, readings, stats, overflowed>>

Least(a, b) == IF a < b THEN a ELSE b

BufferInit ==
  /\ dropOldest \in BOOLEAN
  /\ readings = <<>>
  /\ stats = [pushed |-> 0, dropped |-> 0, highWater |-> 0]
  /\ overflowed = {}

BufferType(Reading) ==
  /\ dropOldest \in BOOLEAN
  /\ readings \in Seq(Reading)
  /\ Len(readings) <= Capacity
  /\ stats \in [pushed : Nat, dropped : Nat, highWater : 0..Capacity]
  /\ overflowed \subseteq Reading

BugFull == Len(readings) > Capacity     \* > instead of >=
Full    == Len(readings) >= Capacity

-----------------------------------------------------------------------------
(* Mistakes the code could make, for the runs that check the properties. *)

(* The reading before the newest is given up instead of the oldest. *)
BugPushOverOldest(r) ==
  /\ Full
  /\ dropOldest
  /\ readings' = Append(SubSeq(readings, 1, Len(readings) - 1), r)
  /\ stats' = [stats EXCEPT !.pushed = @ + 1, !.dropped = @ + 1]
  /\ overflowed' = overflowed \cup {readings[Len(readings)]}
  /\ UNCHANGED dropOldest

(* The mark is taken before the reading is appended. *)
BugPushKept(r) ==
  /\ ~Full
  /\ readings' = Append(readings, r)
  /\ stats' = [stats EXCEPT !.pushed = @ + 1,
                            !.highWater = IF @ < Len(readings) THEN Len(readings) ELSE @]
  /\ UNCHANGED <<dropOldest, overflowed>>

(* The push is counted before the buffer is found full. *)
BugPushRefused(r) ==
  /\ Full
  /\ ~dropOldest
  /\ stats' = [stats EXCEPT !.pushed = @ + 1, !.dropped = @ + 1]
  /\ overflowed' = overflowed \cup {r}
  /\ UNCHANGED <<dropOldest, readings>>

-----------------------------------------------------------------------------
(* Push *)

PushKept(r) ==
  /\ ~Full
  /\ readings' = Append(readings, r)
  /\ stats' = [stats EXCEPT !.pushed = @ + 1,
                            !.highWater = IF @ < Len(readings') THEN Len(readings') ELSE @]
  /\ UNCHANGED <<dropOldest, overflowed>>

(* The size is the same after the swap, so the high-water mark is too. *)
PushOverOldest(r) ==
  /\ Full
  /\ dropOldest
  /\ readings' = Append(Tail(readings), r)
  /\ stats' = [stats EXCEPT !.pushed = @ + 1, !.dropped = @ + 1]
  /\ overflowed' = overflowed \cup {Head(readings)}
  /\ UNCHANGED dropOldest

PushRefused(r) ==
  /\ Full
  /\ ~dropOldest
  /\ stats' = [stats EXCEPT !.dropped = @ + 1]
  /\ overflowed' = overflowed \cup {r}
  /\ UNCHANGED <<dropOldest, readings>>

Push(r) == PushKept(r) \/ PushOverOldest(r) \/ PushRefused(r)

(* PopBatch(n) returns Batch(n) and removes it from the front.             *)
Batch(n) == SubSeq(readings, 1, Least(n, Len(readings)))

PopBatch(n) ==
  /\ readings' = SubSeq(readings, Least(n, Len(readings)) + 1, Len(readings))
  /\ UNCHANGED <<dropOldest, stats, overflowed>>

(* Clear resets the counters but leaves HighWaterMark as it was.           *)
Clear ==
  /\ readings' = <<>>
  /\ stats' = [stats EXCEPT !.pushed = 0, !.dropped = 0]
  /\ overflowed' = {}
  /\ UNCHANGED dropOldest

=============================================================================
