----------------------------- MODULE BufferUsers -----------------------------
(***************************************************************************)
(* A ReadingBuffer shared by goroutines that push, pop and clear it in any *)
(* order, as buffer_test.go does and as its mutex promises to support.     *)
(* Readings are numbered in the order their Push calls get the mutex.      *)
(* Nothing is bounded: the module is for the theorems of SensorClientProofs.     *)
(***************************************************************************)
EXTENDS ReadingBuffer, SequencesExt, Histories

VARIABLES
  offered,       \* history: number of Push calls
  popped,        \* history: readings returned by PopBatch, in order
  fresh          \* history: how many of them since the last Clear

usersVars == <<bufferVars, offered, popped, fresh>>

UsersInit ==
  /\ BufferInit
  /\ offered = 0
  /\ popped = <<>>
  /\ fresh = 0

PushNext ==
  /\ offered' = offered + 1
  /\ Push(offered + 1)
  /\ UNCHANGED <<popped, fresh>>

PopNext(n) ==
  /\ readings # <<>>
  /\ popped' = popped \o Batch(n)
  /\ fresh' = fresh + Len(Batch(n))
  /\ PopBatch(n)
  /\ UNCHANGED offered

ClearAll ==
  /\ Clear
  /\ fresh' = 0
  /\ UNCHANGED <<offered, popped>>

UsersNext == PushNext \/ ClearAll \/ \E n \in Nat \ {0} : PopNext(n)

UsersSpec == UsersInit /\ [][UsersNext]_usersVars

-----------------------------------------------------------------------------
(* The buffer holds at most Capacity readings that were offered.             *)
BufferTypeOK ==
  /\ BufferType(1..offered)
  /\ offered \in Nat
  /\ popped \in Seq(1..offered)
  /\ fresh \in Nat

(* PopBatch returns the oldest readings first, each once, whatever overflows *)
(* and whatever is cleared between two calls.                                *)
OldestFirst == Increasing(popped \o readings)

(* The counters account for every Push since the last Clear: what was pushed *)
(* is buffered, popped or (with drop_oldest) dropped, and what was dropped   *)
(* is what overflowed; a buffer that overflowed reports a full high-water    *)
(* mark, since the last Clear or before.                                     *)
StatsAddUp ==
  /\ stats.dropped = Cardinality(overflowed)
  /\ stats.pushed = Len(readings) + fresh + (IF dropOldest THEN stats.dropped ELSE 0)
  /\ overflowed # {} => stats.highWater = Capacity

(* A buffer that drops its oldest readings always holds the newest ones,     *)
(* without a gap.                                                            *)
KeepsTheNewest ==
  dropOldest =>
    \A i \in DOMAIN readings : readings[i] = offered - Len(readings) + i

=============================================================================
