----------------------------- MODULE MemoryStore -----------------------------
(***************************************************************************)
(* internal/server/store.go: the most recent readings of every sensor, in  *)
(* memory.  Every method is one critical section of ms.mutex.              *)
(***************************************************************************)
EXTENDS Naturals, Sequences

CONSTANT StoreCapacity     \* Storage.BufferSize, at least 10 by Validate

ASSUME MemoryStoreAssumption == StoreCapacity \in Nat \ {0}

VARIABLES
  data,            \* readings of each sensor that has any, oldest first
  totalReadings    \* ms.totalReadings

storeVars == <<data, totalReadings>>

StoreInit ==
  /\ data = <<>>
  /\ totalReadings = 0

(* A sensor without an entry reads as a nil slice. *)
ReadingsOf(sensor) == IF sensor \in DOMAIN data THEN data[sensor] ELSE <<>>

(* Mistakes the code could make: > instead of >=, and giving up the newest. *)
BugRoom(seq)       == IF Len(seq) > StoreCapacity THEN Tail(seq) ELSE seq
BugRoomNewest(seq) == IF Len(seq) >= StoreCapacity THEN SubSeq(seq, 1, Len(seq) - 1) ELSE seq

Room(seq) == IF Len(seq) >= StoreCapacity THEN Tail(seq) ELSE seq

Add(sensor, reading) ==
  /\ data' = [s \in DOMAIN data \cup {sensor} |->
                IF s = sensor THEN Append(Room(ReadingsOf(s)), reading) ELSE data[s]]
  /\ totalReadings' = totalReadings + 1

(* The n most recent readings, newest first; and the most recent, if any. *)
GetLatest(sensor, n) ==
  LET all  == ReadingsOf(sensor)
      size == IF n < Len(all) THEN n ELSE Len(all)
  IN  [i \in 1..size |-> all[Len(all) - i + 1]]

HasReading(sensor) == ReadingsOf(sensor) # <<>>
GetCurrentReading(sensor) == ReadingsOf(sensor)[Len(ReadingsOf(sensor))]

=============================================================================
