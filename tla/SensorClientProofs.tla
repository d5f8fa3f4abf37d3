------------------------- MODULE SensorClientProofs -------------------------
(***************************************************************************)
(* Theorems about the client's buffer and about SensorClient: first what   *)
(* Push and PopBatch of ReadingBuffer do to a buffer whose readings are in *)
(* order, then BufferUsers, then the whole client.                         *)
(***************************************************************************)
EXTENDS SensorClient, BufferUsers, HistoryLemmas, FiniteSetTheorems

-----------------------------------------------------------------------------
(* The buffer: Push and PopBatch, for every capacity and in both modes.    *)

(* A newer reading joins the buffer, takes the place of the oldest one, or  *)
(* is refused; the order stays.                                             *)
LEMMA PushSets ==
  ASSUME readings \in Seq(Nat), Increasing(readings),
         NEW r \in Nat, \A x \in ToSet(readings) : x < r, Push(r)
  PROVE  /\ readings' \in Seq(Nat)
         /\ Increasing(readings')
         /\ dropOldest' = dropOldest
         /\ \/ /\ ToSet(readings') = ToSet(readings) \cup {r}
               /\ overflowed' = overflowed
            \/ /\ dropOldest
               /\ \E o \in ToSet(readings) :
                    /\ overflowed' = overflowed \cup {o}
                    /\ ToSet(readings') = (ToSet(readings) \ {o}) \cup {r}
                    /\ \A x \in ToSet(readings') : o < x
            \/ /\ ~dropOldest
               /\ readings' = readings
               /\ overflowed' = overflowed \cup {r}
<1>1. CASE PushKept(r)
  <2>1. readings' = Append(readings, r) /\ overflowed' = overflowed /\ dropOldest' = dropOldest
    BY <1>1 DEF PushKept
  <2>2. /\ Append(readings, r) \in Seq(Nat)
        /\ Increasing(Append(readings, r))
        /\ ToSet(Append(readings, r)) = ToSet(readings) \cup {r}
    BY AppendNewest
  <2> QED
    BY <2>1, <2>2
<1>2. CASE PushOverOldest(r)
  <2> DEFINE o == Head(readings)
             t == Tail(readings)
  <2>1. /\ readings' = Append(t, r) /\ dropOldest
        /\ overflowed' = overflowed \cup {o}
        /\ dropOldest' = dropOldest
    BY <1>2 DEF PushOverOldest
  <2>2. readings # <<>>
    <3>1. Len(readings) > 0
      BY <1>2, ReadingBufferAssumption DEF PushOverOldest, Full, ReadingBufferAssumption
    <3> QED
      BY <3>1
  <2>3. /\ o \in Nat /\ t \in Seq(Nat)
        /\ Increasing(t)
        /\ ToSet(readings) = {o} \cup ToSet(t)
        /\ \A x \in ToSet(t) : o < x
    BY <2>2, TakeOldest
  <2>4. \A x \in ToSet(t) : x < r
    BY <2>3
  <2> HIDE DEF o, t
  <2>5. /\ Append(t, r) \in Seq(Nat)
        /\ Increasing(Append(t, r))
        /\ ToSet(Append(t, r)) = ToSet(t) \cup {r}
    BY <2>3, <2>4, AppendNewest
  <2>6. o \in ToSet(readings) /\ o < r /\ o \notin ToSet(t)
    BY <2>3
  <2>7. \A x \in ToSet(readings') : o < x
    BY <2>1, <2>3, <2>5, <2>6
  <2>8. ToSet(readings') = (ToSet(readings) \ {o}) \cup {r}
    BY <2>1, <2>3, <2>5, <2>6
  <2> QED
    BY <2>1, <2>5, <2>6, <2>7, <2>8
<1>3. CASE PushRefused(r)
  BY <1>3 DEF PushRefused
<1> QED
  BY <1>1, <1>2, <1>3 DEF Push

(* Two counters change at a time.                                           *)
LEMMA CountersType ==
  ASSUME NEW High,
         NEW c \in [pushed : Nat, dropped : Nat, highWater : High], NEW m \in Nat, NEW k \in Nat,
         NEW h \in High
  PROVE  /\ [c EXCEPT !.pushed = m, !.highWater = h]
              \in [pushed : Nat, dropped : Nat, highWater : High]
         /\ [c EXCEPT !.pushed = m, !.dropped = k]
              \in [pushed : Nat, dropped : Nat, highWater : High]
OBVIOUS

(* The capacity holds, and so does its bound on the high-water mark.        *)
LEMMA PushType ==
  ASSUME NEW S, NEW T, S \subseteq T, BufferType(S), NEW r \in T, Push(r)
  PROVE  BufferType(T)'
<1> Capacity \in Nat \ {0}
  BY ReadingBufferAssumption DEF ReadingBufferAssumption
<1>1. readings \in Seq(T) /\ Len(readings) \in Nat /\ overflowed \subseteq T
  BY SeqMonotonic DEF BufferType
<1>2. CASE PushKept(r)
  <2>1. readings' \in Seq(T) /\ Len(readings') = Len(readings) + 1
    BY <1>1, <1>2 DEF PushKept
  <2>2. stats' \in [pushed : Nat, dropped : Nat, highWater : 0..Capacity]
    <3> DEFINE high == IF stats.highWater < Len(readings') THEN Len(readings') ELSE stats.highWater
    <3>1. stats \in [pushed : Nat, dropped : Nat, highWater : 0..Capacity]
      BY DEF BufferType
    <3>2. Len(readings) < Capacity
      BY <1>1, <1>2 DEF PushKept, Full
    <3>3. high \in 0..Capacity
      BY <1>1, <2>1, <3>1, <3>2
    <3>4. stats' = [stats EXCEPT !.pushed = stats.pushed + 1, !.highWater = high]
      BY <1>2 DEF PushKept
    <3>5. stats.pushed + 1 \in Nat
      BY <3>1
    <3> HIDE DEF high
    <3>6. [stats EXCEPT !.pushed = stats.pushed + 1, !.highWater = high]
            \in [pushed : Nat, dropped : Nat, highWater : 0..Capacity]
      BY <3>1, <3>3, <3>5, CountersType, Zenon
    <3> QED
      BY <3>4, <3>6
  <2> QED
    BY <1>1, <1>2, <2>1, <2>2 DEF PushKept, BufferType, Full
<1>3. CASE PushOverOldest(r)
  <2>1. readings # <<>>
    BY <1>1, <1>3 DEF PushOverOldest, Full
  <2>2. Tail(readings) \in Seq(T) /\ Len(Tail(readings)) = Len(readings) - 1 /\ Head(readings) \in T
    BY <1>1, <2>1
  <2>3. readings' \in Seq(T) /\ Len(readings') = Len(readings)
    BY <1>1, <1>3, <2>2 DEF PushOverOldest
  <2>4. stats' \in [pushed : Nat, dropped : Nat, highWater : 0..Capacity]
    <3>1. stats \in [pushed : Nat, dropped : Nat, highWater : 0..Capacity]
      BY DEF BufferType
    <3>2. stats.pushed + 1 \in Nat /\ stats.dropped + 1 \in Nat /\ 0 \in 0..Capacity
      BY <3>1
    <3>3. [stats EXCEPT !.pushed = stats.pushed + 1, !.dropped = stats.dropped + 1]
            \in [pushed : Nat, dropped : Nat, highWater : 0..Capacity]
      BY <3>1, <3>2, CountersType, Zenon
    <3>4. stats' = [stats EXCEPT !.pushed = stats.pushed + 1, !.dropped = stats.dropped + 1]
      BY <1>3 DEF PushOverOldest
    <3> QED
      BY <3>3, <3>4
  <2> QED
    BY <1>1, <1>3, <2>2, <2>3, <2>4 DEF PushOverOldest, BufferType
<1>4. CASE PushRefused(r)
  <2>1. stats' \in [pushed : Nat, dropped : Nat, highWater : 0..Capacity]
    BY <1>4 DEF PushRefused, BufferType
  <2> QED
    BY <1>1, <1>4, <2>1 DEF PushRefused, BufferType
<1> QED
  BY <1>2, <1>3, <1>4 DEF Push

(* A batch and what stays behind it are the buffer.                         *)
LEMMA PopSplits ==
  ASSUME NEW S, readings \in Seq(S), NEW n \in Nat \ {0}, PopBatch(n)
  PROVE  /\ Batch(n) \in Seq(S)
         /\ readings' \in Seq(S)
         /\ readings = Batch(n) \o readings'
         /\ Len(readings) = Len(Batch(n)) + Len(readings')
         /\ readings # <<>> => Batch(n) # <<>>
<1> DEFINE k == Least(n, Len(readings))
<1>1. Len(readings) \in Nat /\ k \in 0..Len(readings) /\ (readings # <<>> => k > 0)
  BY DEF Least
<1>2. Batch(n) = SubSeq(readings, 1, k) /\ readings' = SubSeq(readings, k + 1, Len(readings))
  BY DEF Batch, PopBatch
<1>3. /\ Batch(n) \in Seq(S) /\ Len(Batch(n)) = k
      /\ \A i \in 1..k : Batch(n)[i] = readings[i]
  BY <1>1, <1>2
<1>4. /\ readings' \in Seq(S) /\ Len(readings') = Len(readings) - k
      /\ \A i \in 1..(Len(readings) - k) : readings'[i] = readings[k + i]
  BY <1>1, <1>2
<1> HIDE DEF k
<1>5. readings = Batch(n) \o readings'
  <2>1. /\ Batch(n) \o readings' \in Seq(S)
        /\ Len(Batch(n) \o readings') = Len(Batch(n)) + Len(readings')
        /\ \A i \in 1..(Len(Batch(n)) + Len(readings')) : (Batch(n) \o readings')[i] =
               IF i <= Len(Batch(n)) THEN Batch(n)[i] ELSE readings'[i - Len(Batch(n))]
    BY <1>3, <1>4, ConcatProperties
  <2>2. ASSUME NEW i \in 1..Len(readings) PROVE readings[i] = (Batch(n) \o readings')[i]
    <3>0. /\ Len(Batch(n)) = k /\ Len(Batch(n)) + Len(readings') = Len(readings)
      BY <1>1, <1>3, <1>4
    <3>1. CASE i <= k
      BY <2>1, <3>0, <3>1, <1>1, <1>3
    <3>2. CASE ~(i <= k)
      <4>1. i - k \in 1..(Len(readings) - k) /\ k + (i - k) = i
        BY <1>1, <3>2
      <4> QED
        BY <2>1, <3>0, <3>2, <4>1, <1>1, <1>4
    <3> QED
      BY <3>1, <3>2
  <2>3. Len(Batch(n) \o readings') = Len(readings)
    BY <1>1, <1>3, <1>4, <2>1
  <2> QED
    BY <2>1, <2>2, <2>3, SeqEqual
<1> QED
  BY <1>1, <1>3, <1>4, <1>5

-----------------------------------------------------------------------------
(* BufferUsers: any number of calls, in any order.                         *)

(* What overflowed is older than what is buffered, so no reading overflows  *)
(* twice; a full buffer has reached its high-water mark.                    *)
Overflow ==
  /\ IsFiniteSet(overflowed)
  /\ dropOldest => \A o \in overflowed : o <= offered - Len(readings)
  /\ Len(readings) <= stats.highWater

UsersIInv ==
  /\ BufferTypeOK
  /\ OldestFirst
  /\ StatsAddUp
  /\ KeepsTheNewest
  /\ Overflow

LEMMA UsersInitInductive == UsersInit => UsersIInv
<1> SUFFICES ASSUME UsersInit PROVE UsersIInv
  OBVIOUS
<1> Capacity \in Nat \ {0}
  BY ReadingBufferAssumption DEF ReadingBufferAssumption
<1> USE DEF UsersInit, BufferInit
<1>1. BufferTypeOK
  BY DEF BufferTypeOK, BufferType
<1>2. OldestFirst
  BY DEF OldestFirst, Increasing
<1>3. StatsAddUp /\ KeepsTheNewest /\ Overflow
  BY FS_EmptySet DEF StatsAddUp, KeepsTheNewest, Overflow
<1> QED
  BY <1>1, <1>2, <1>3 DEF UsersIInv

LEMMA PushInductive ==
  ASSUME UsersIInv, PushNext
  PROVE  UsersIInv'
<1>0. offered \in Nat
  BY DEF UsersIInv, BufferTypeOK
<1> PICK n \in Nat : n = offered
  BY <1>0
<1> PICK r \in Nat : r = offered + 1
  BY <1>0
<1>1. /\ offered \in Nat /\ offered' = r /\ Push(r) /\ popped' = popped /\ fresh' = fresh
      /\ fresh \in Nat /\ popped \in Seq(1..offered) /\ BufferType(1..offered)
  BY DEF UsersIInv, BufferTypeOK, PushNext
<1>2. /\ r \in Nat /\ r \in 1..r /\ 1..offered \subseteq 1..r
      /\ popped \in Seq(1..r) /\ popped \in Seq(Nat)
      /\ readings \in Seq(1..offered) /\ readings \in Seq(Nat)
      /\ stats \in [pushed : Nat, dropped : Nat, highWater : 0..Capacity]
      /\ overflowed \subseteq 1..offered
  <2>1. /\ r \in Nat /\ r \in 1..r /\ 1..offered \subseteq 1..r /\ 1..offered \subseteq Nat
    BY <1>1
  <2>2. readings \in Seq(1..offered) /\ overflowed \subseteq 1..offered
        /\ stats \in [pushed : Nat, dropped : Nat, highWater : 0..Capacity]
    BY <1>1 DEF BufferType
  <2> QED
    BY <1>1, <2>1, <2>2, SeqMonotonic
<1>3. BufferTypeOK'
  <2>1. BufferType(1..n) /\ 1..n \subseteq 1..r /\ r \in 1..r /\ Push(r)
    BY <1>1, <1>2
  <2>2. BufferType(1..r)'
    BY <2>1, PushType, Zenon
  <2>3. BufferType(1..offered)'
    BY <1>1, <2>2 DEF BufferType
  <2> QED
    BY <1>1, <1>2, <2>3 DEF BufferTypeOK
<1>4. /\ Increasing(popped) /\ Increasing(readings)
      /\ \A x \in ToSet(popped), y \in ToSet(readings) : x < y
  BY <1>2, IncreasingSplit DEF UsersIInv, OldestFirst
<1>5. /\ \A x \in ToSet(readings) : x \in Nat /\ x < r
      /\ \A x \in ToSet(popped) : x \in Nat /\ x < r
  BY <1>1, <1>2 DEF ToSet
<1>6. OldestFirst'
  <2>1. /\ readings' \in Seq(Nat) /\ Increasing(readings')
        /\ ToSet(readings') \subseteq ToSet(readings) \cup {r}
    BY <1>1, <1>2, <1>4, <1>5, PushSets
  <2>2. \A x \in ToSet(popped), y \in ToSet(readings') : x < y
    BY <1>4, <1>5, <2>1
  <2>3. Increasing(popped \o readings')
    BY <1>2, <1>4, <2>1, <2>2, IncreasingJoin
  <2> QED
    BY <1>1, <2>3 DEF OldestFirst
<1>7. /\ Capacity \in Nat \ {0}
      /\ Len(readings) \in Nat /\ Len(readings) <= Capacity
      /\ DOMAIN readings = 1..Len(readings)
      /\ stats.dropped = Cardinality(overflowed)
      /\ stats.pushed = Len(readings) + fresh + (IF dropOldest THEN stats.dropped ELSE 0)
      /\ overflowed # {} => stats.highWater = Capacity
      /\ stats.pushed \in Nat /\ stats.dropped \in Nat /\ stats.highWater \in 0..Capacity
      /\ IsFiniteSet(overflowed)
      /\ dropOldest => \A o \in overflowed : o <= offered - Len(readings)
      /\ Len(readings) <= stats.highWater
      /\ dropOldest => \A i \in DOMAIN readings : readings[i] = offered - Len(readings) + i
  BY <1>1, <1>2, ReadingBufferAssumption DEF UsersIInv, StatsAddUp, Overflow, KeepsTheNewest, BufferType,
     ReadingBufferAssumption
<1>8. (StatsAddUp /\ KeepsTheNewest /\ Overflow)'
  <2>1. CASE PushKept(r)
    <3>1. /\ readings' = Append(readings, r) /\ dropOldest' = dropOldest /\ overflowed' = overflowed
          /\ Len(readings) < Capacity
      BY <1>7, <2>1 DEF PushKept, Full
    <3>2. /\ Len(readings') = Len(readings) + 1 /\ DOMAIN readings' = 1..(Len(readings) + 1)
          /\ \A i \in 1..Len(readings) : readings'[i] = readings[i]
          /\ readings'[Len(readings) + 1] = r
      BY <1>2, <3>1
    <3>3. /\ stats'.pushed = stats.pushed + 1 /\ stats'.dropped = stats.dropped
          /\ stats'.highWater = IF stats.highWater < Len(readings') THEN Len(readings')
                                                                   ELSE stats.highWater
      BY <1>2, <2>1, Zenon DEF PushKept
    <3>4. StatsAddUp'
      BY <1>1, <1>7, <3>1, <3>2, <3>3 DEF StatsAddUp
    <3>5. KeepsTheNewest'
      BY <1>1, <1>7, <3>1, <3>2 DEF KeepsTheNewest
    <3>6. Overflow'
      BY <1>1, <1>2, <1>7, <3>1, <3>2, <3>3 DEF Overflow
    <3> QED
      BY <3>4, <3>5, <3>6
  <2>2. CASE PushOverOldest(r)
    <3>1. /\ readings' = Append(Tail(readings), r) /\ dropOldest /\ dropOldest' = dropOldest
          /\ overflowed' = overflowed \cup {Head(readings)}
          /\ Len(readings) = Capacity
      BY <1>7, <2>2 DEF PushOverOldest, Full
    <3>2. /\ Tail(readings) \in Seq(Nat) /\ Len(Tail(readings)) = Len(readings) - 1
          /\ \A i \in 1..(Len(readings) - 1) : Tail(readings)[i] = readings[i + 1]
          /\ Head(readings) = readings[1]
      BY <1>2, <1>7, <3>1
    <3>3. /\ Len(readings') = Len(readings) /\ DOMAIN readings' = 1..Len(readings)
          /\ \A i \in 1..(Len(readings) - 1) : readings'[i] = readings[i + 1]
          /\ readings'[Len(readings)] = r
      BY <1>2, <1>7, <3>1, <3>2
    <3>4. /\ stats'.pushed = stats.pushed + 1 /\ stats'.dropped = stats.dropped + 1
          /\ stats'.highWater = stats.highWater
      BY <1>2, <2>2, Zenon DEF PushOverOldest
    <3>5. Head(readings) = offered - Len(readings) + 1
      BY <1>7, <3>1, <3>2
    <3>6. Head(readings) \notin overflowed
      BY <1>1, <1>2, <1>7, <3>1, <3>5
    <3>7. IsFiniteSet(overflowed') /\ Cardinality(overflowed') = Cardinality(overflowed) + 1
      BY <1>7, <3>1, <3>6, FS_AddElement
    <3>8. StatsAddUp'
      <4>1. stats'.dropped = Cardinality(overflowed')
        BY <1>7, <3>4, <3>7
      <4>2. stats'.pushed = Len(readings') + fresh' + stats'.dropped
        BY <1>1, <1>7, <3>1, <3>3, <3>4
      <4>3. stats'.highWater = Capacity
        BY <1>7, <3>1, <3>4
      <4> QED
        BY <3>1, <4>1, <4>2, <4>3 DEF StatsAddUp
    <3>9. KeepsTheNewest'
      <4>1. ASSUME NEW i \in 1..Len(readings)
            PROVE  readings'[i] = r - Len(readings) + i
        <5>1. CASE i = Len(readings)
          BY <1>1, <1>7, <3>3, <5>1
        <5>2. CASE i # Len(readings)
          <6>1. Len(readings) \in Nat /\ DOMAIN readings = 1..Len(readings)
            BY <1>7
          <6> DEFINE size == Len(readings)
          <6> HIDE DEF size
          <6>2. size \in Nat /\ i \in 1..size /\ i # size
            BY <5>2, <6>1, <4>1 DEF size
          <6>3. i \in 1..(size - 1) /\ i + 1 \in 1..size
            BY <6>2
          <6>4. i \in 1..(Len(readings) - 1) /\ i + 1 \in DOMAIN readings
            BY <6>1, <6>3 DEF size
          <6>5. readings'[i] = readings[i + 1] /\ readings[i + 1] = offered - Len(readings) + (i + 1)
            BY <1>7, <3>1, <3>3, <6>4
          <6>6. r = offered + 1 /\ offered \in Nat /\ i \in Nat
            BY <1>1, <6>2
          <6>7. offered - Len(readings) + (i + 1) = r - Len(readings) + i
            BY <6>1, <6>6
          <6> QED
            BY <6>5, <6>7, Zenon
        <5> QED
          BY <5>1, <5>2
      <4> QED
        BY <1>1, <3>3, <4>1 DEF KeepsTheNewest
    <3>10. Overflow'
      <4> DEFINE size == Len(readings)
      <4>0. size \in Nat /\ Len(readings') = size /\ offered' = offered + 1 /\ offered \in Nat
        BY <1>1, <1>7, <3>3
      <4>1. \A o \in overflowed : o <= offered - size
        BY <1>7, <3>1
      <4>2. overflowed' = overflowed \cup {offered - size + 1}
        BY <3>1, <3>5
      <4>3. overflowed \subseteq Int
        BY <1>1, <1>2
      <4>4. size <= stats'.highWater
        BY <1>7, <3>4
      <4> HIDE DEF size
      <4>5. \A o \in overflowed' : o <= (offered + 1) - size
        BY <4>0, <4>1, <4>2, <4>3
      <4> QED
        BY <3>7, <4>0, <4>4, <4>5 DEF Overflow
    <3> QED
      BY <3>8, <3>9, <3>10
  <2>3. CASE PushRefused(r)
    <3>1. /\ readings' = readings /\ ~dropOldest /\ dropOldest' = dropOldest
          /\ overflowed' = overflowed \cup {r}
          /\ Len(readings) = Capacity
      BY <1>7, <2>3 DEF PushRefused, Full
    <3>2. /\ stats'.pushed = stats.pushed /\ stats'.dropped = stats.dropped + 1
          /\ stats'.highWater = stats.highWater
      BY <1>2, <2>3, Zenon DEF PushRefused
    <3>3. r \notin overflowed
      BY <1>1, <1>2
    <3>4. IsFiniteSet(overflowed') /\ Cardinality(overflowed') = Cardinality(overflowed) + 1
      BY <1>7, <3>1, <3>3, FS_AddElement
    <3>5. StatsAddUp'
      <4>1. stats'.dropped = Cardinality(overflowed')
        BY <1>7, <3>2, <3>4
      <4>2. stats'.pushed = Len(readings') + fresh' + 0
        BY <1>1, <1>7, <3>1, <3>2
      <4>3. stats'.highWater = Capacity
        BY <1>7, <3>1, <3>2
      <4> QED
        BY <3>1, <4>1, <4>2, <4>3 DEF StatsAddUp
    <3> QED
      BY <1>7, <3>1, <3>2, <3>4, <3>5 DEF KeepsTheNewest, Overflow
  <2> QED
    BY <1>1, <2>1, <2>2, <2>3 DEF Push
<1> QED
  BY <1>3, <1>6, <1>8 DEF UsersIInv

LEMMA PopInductive ==
  ASSUME UsersIInv, NEW n \in Nat \ {0}, PopNext(n)
  PROVE  UsersIInv'
<1>1. /\ offered' = offered /\ PopBatch(n)
      /\ popped' = popped \o Batch(n) /\ fresh' = fresh + Len(Batch(n))
      /\ dropOldest' = dropOldest /\ stats' = stats /\ overflowed' = overflowed
  BY DEF PopNext, PopBatch
<1>2. /\ offered \in Nat /\ fresh \in Nat /\ popped \in Seq(1..offered)
      /\ readings \in Seq(1..offered) /\ Len(readings) <= Capacity /\ Len(readings) \in Nat
      /\ dropOldest \in BOOLEAN
      /\ stats \in [pushed : Nat, dropped : Nat, highWater : 0..Capacity]
      /\ overflowed \subseteq 1..offered
  BY DEF UsersIInv, BufferTypeOK, BufferType
<1>3. /\ Batch(n) \in Seq(1..offered) /\ readings' \in Seq(1..offered)
      /\ readings = Batch(n) \o readings'
      /\ Len(readings) = Len(Batch(n)) + Len(readings')
  BY <1>1, <1>2, PopSplits
<1>4. /\ Len(Batch(n)) \in Nat /\ Len(readings') \in Nat
      /\ popped \o Batch(n) \in Seq(1..offered)
  BY <1>2, <1>3
<1>5. BufferTypeOK'
  <2>1. popped' \in Seq(1..offered) /\ fresh' \in Nat
    BY <1>1, <1>2, <1>4
  <2>2. Len(readings') <= Capacity
    BY <1>2, <1>3, <1>4, ReadingBufferAssumption DEF ReadingBufferAssumption
  <2> QED
    BY <1>1, <1>2, <1>3, <2>1, <2>2 DEF BufferTypeOK, BufferType
<1>6. OldestFirst'
  <2>1. 1..offered \subseteq Nat
    BY <1>2
  <2>2. popped \in Seq(Nat) /\ Batch(n) \in Seq(Nat) /\ readings' \in Seq(Nat)
    BY <1>2, <1>3, <2>1, SeqMonotonic
  <2>3. (popped \o Batch(n)) \o readings' = popped \o readings
    BY <1>3, <2>2, ConcatAssociative
  <2> QED
    BY <1>1, <2>3 DEF UsersIInv, OldestFirst
<1>7. StatsAddUp'
  <2>1. StatsAddUp
    BY DEF UsersIInv
  <2> QED
    BY <1>1, <1>2, <1>3, <1>4, <2>1 DEF StatsAddUp
<1>8. KeepsTheNewest'
  <2>1. /\ DOMAIN readings' = 1..Len(readings') /\ DOMAIN readings = 1..Len(readings)
        /\ \A i \in 1..Len(readings') : readings'[i] = readings[Len(Batch(n)) + i]
    <3>1. \A i \in 1..(Len(Batch(n)) + Len(readings')) : (Batch(n) \o readings')[i] =
             IF i <= Len(Batch(n)) THEN Batch(n)[i] ELSE readings'[i - Len(Batch(n))]
      BY <1>3, ConcatProperties
    <3>2. ASSUME NEW i \in 1..Len(readings') PROVE readings'[i] = readings[Len(Batch(n)) + i]
      <4>1. /\ Len(Batch(n)) + i \in 1..(Len(Batch(n)) + Len(readings'))
            /\ ~(Len(Batch(n)) + i <= Len(Batch(n))) /\ (Len(Batch(n)) + i) - Len(Batch(n)) = i
        BY <1>4
      <4> QED
        BY <1>3, <3>1, <4>1
    <3> QED
      BY <1>2, <1>3, <3>2, LenProperties
  <2>2. KeepsTheNewest
    BY DEF UsersIInv
  <2>3. ASSUME dropOldest, NEW i \in 1..Len(readings')
        PROVE  readings'[i] = offered - Len(readings') + i
    <3>1. Len(Batch(n)) + i \in DOMAIN readings
      BY <1>3, <1>4, <2>1
    <3>2. readings[Len(Batch(n)) + i] = offered - Len(readings) + (Len(Batch(n)) + i)
      BY <2>2, <2>3, <3>1 DEF KeepsTheNewest
    <3> QED
      BY <1>2, <1>3, <1>4, <2>1, <3>2
  <2> QED
    BY <1>1, <2>1, <2>3 DEF KeepsTheNewest
<1>9. Overflow'
  <2>1. Overflow
    BY DEF UsersIInv
  <2> QED
    BY <1>1, <1>2, <1>3, <1>4, <2>1 DEF Overflow
<1> QED
  BY <1>5, <1>6, <1>7, <1>8, <1>9 DEF UsersIInv

LEMMA ClearInductive ==
  ASSUME UsersIInv, ClearAll
  PROVE  UsersIInv'
<1>1. /\ readings' = <<>> /\ overflowed' = {} /\ dropOldest' = dropOldest
      /\ fresh' = 0 /\ offered' = offered /\ popped' = popped
      /\ stats' = [stats EXCEPT !.pushed = 0, !.dropped = 0]
  BY DEF ClearAll, Clear
<1>2. /\ offered \in Nat /\ popped \in Seq(1..offered) /\ dropOldest \in BOOLEAN
      /\ stats \in [pushed : Nat, dropped : Nat, highWater : 0..Capacity]
      /\ readings \in Seq(1..offered)
      /\ Capacity \in Nat \ {0}
  BY ReadingBufferAssumption DEF UsersIInv, BufferTypeOK, BufferType, ReadingBufferAssumption
<1>3. BufferTypeOK'
  <2>1. 0 \in Nat /\ 0 \in 0..Capacity
    BY <1>2
  <2>2. stats' \in [pushed : Nat, dropped : Nat, highWater : 0..Capacity]
    BY <1>1, <1>2, <2>1, CountersType, Zenon
  <2> QED
    BY <1>1, <1>2, <2>2 DEF BufferTypeOK, BufferType
<1>4. OldestFirst'
  <2>1. popped \in Seq(Nat) /\ readings \in Seq(Nat)
    <3>1. 1..offered \subseteq Nat
      BY <1>2
    <3> QED
      BY <1>2, <3>1, SeqMonotonic
  <2>2. Increasing(popped)
    BY <2>1, IncreasingSplit DEF UsersIInv, OldestFirst
  <2>3. popped \o <<>> = popped
    BY <2>1
  <2> QED
    BY <1>1, <2>2, <2>3 DEF OldestFirst
<1>5. stats'.pushed = 0 /\ stats'.dropped = 0 /\ stats'.highWater = stats.highWater
  BY <1>1, <1>2, Zenon
<1>6. (StatsAddUp /\ KeepsTheNewest /\ Overflow)'
  BY <1>1, <1>2, <1>5, FS_EmptySet DEF StatsAddUp, KeepsTheNewest, Overflow
<1> QED
  BY <1>3, <1>4, <1>6 DEF UsersIInv

LEMMA UsersNextInductive == UsersIInv /\ [UsersNext]_usersVars => UsersIInv'
<1> SUFFICES ASSUME UsersIInv, [UsersNext]_usersVars PROVE UsersIInv'
  OBVIOUS
<1>1. CASE UNCHANGED usersVars
  BY <1>1 DEF usersVars, bufferVars, UsersIInv, BufferTypeOK, BufferType, OldestFirst, StatsAddUp,
     KeepsTheNewest, Overflow
<1> QED
  BY <1>1, PushInductive, PopInductive, ClearInductive DEF UsersNext

-----------------------------------------------------------------------------
(* The theorems.                                                           *)

LEMMA UsersInductive == UsersSpec => []UsersIInv
BY UsersInitInductive, UsersNextInductive, PTL DEF UsersSpec

(* The buffer stays within its capacity.                                   *)
THEOREM CapacityHolds == UsersSpec => []BufferTypeOK
BY UsersInductive, PTL DEF UsersIInv

(* Readings come out in the order they went in, each once.                 *)
THEOREM InOrder == UsersSpec => []OldestFirst
BY UsersInductive, PTL DEF UsersIInv

(* The counters that the status line logs are right after any sequence of  *)
(* calls.                                                                  *)
THEOREM CountersRight == UsersSpec => []StatsAddUp
BY UsersInductive, PTL DEF UsersIInv

(* With drop_oldest the buffer holds the newest readings without a gap.    *)
THEOREM NewestKept == UsersSpec => []KeepsTheNewest
BY UsersInductive, PTL DEF UsersIInv

-----------------------------------------------------------------------------
(* SensorClient: the stations a reading passes, as sets.                   *)

Below(A, B) == \A x \in A, y \in B : x < y

(* Sent, in flight, buffered, in hand, published and held readings are one  *)
(* line; the lost ones L and the overflown ones O are outside of it, and    *)
(* behind everything that waits, but for those a buffer refused.            *)
Books(S, I, R, H, P, G, L, O, keepsNewest, n) ==
  /\ Below(S, I \cup R \cup H \cup P \cup G)
  /\ Below(I, R \cup H \cup P \cup G)
  /\ Below(R, H \cup P \cup G)
  /\ Below(H, P \cup G)
  /\ Below(P, G)
  /\ S \cup I \cup R \cup H \cup P \cup G \cup L \cup O = 1..n
  /\ (S \cup I \cup R \cup H \cup P \cup G) \cap (L \cup O) = {}
  /\ L \cap O = {}
  /\ Below(L, I \cup R \cup H \cup P \cup G)
  /\ keepsNewest => Below(O, I \cup R \cup H \cup P \cup G)

(* A reading is made.                                                       *)
LEMMA Make ==
  ASSUME NEW S, NEW I, NEW R, NEW H, NEW P, NEW L, NEW O, NEW k, NEW n \in Nat,
         Books(S, I, R, H, P, {}, L, O, k, n)
  PROVE  Books(S, I, R, H, P, {n + 1}, L, O, k, n + 1)
<1>1. 1..(n + 1) = (1..n) \cup {n + 1} /\ n + 1 \notin 1..n /\ \A x \in 1..n : x < n + 1
  OBVIOUS
<1>2. \A x \in S \cup I \cup R \cup H \cup P \cup L \cup O : x < n + 1 /\ x # n + 1
  BY <1>1 DEF Books
<1>3. Below(S, I \cup R \cup H \cup P \cup {n + 1})
  BY <1>2 DEF Books, Below
<1>4. Below(I, R \cup H \cup P \cup {n + 1}) /\ Below(R, H \cup P \cup {n + 1})
  BY <1>2 DEF Books, Below
<1>5. Below(H, P \cup {n + 1}) /\ Below(P, {n + 1})
  BY <1>2 DEF Books, Below
<1>6. Below(L, I \cup R \cup H \cup P \cup {n + 1})
  BY <1>2 DEF Books, Below
<1>7. k => Below(O, I \cup R \cup H \cup P \cup {n + 1})
  BY <1>2 DEF Books, Below
<1>8. /\ S \cup I \cup R \cup H \cup P \cup {n + 1} \cup L \cup O = 1..(n + 1)
      /\ (S \cup I \cup R \cup H \cup P \cup {n + 1}) \cap (L \cup O) = {}
      /\ L \cap O = {}
  BY <1>1, <1>2 DEF Books
<1> QED
  BY <1>3, <1>4, <1>5, <1>6, <1>7, <1>8 DEF Books

(* It is published ...                                                      *)
LEMMA PutIntoChannel ==
  ASSUME NEW S, NEW I, NEW R, NEW H, NEW P, NEW G, NEW L, NEW O, NEW k, NEW n \in Nat,
         Books(S, I, R, H, P, G, L, O, k, n)
  PROVE  Books(S, I, R, H, P \cup G, {}, L, O, k, n)
BY DEF Books, Below

(* ... and received.                                                        *)
LEMMA TakeFromChannel ==
  ASSUME NEW S, NEW I, NEW R, NEW h, NEW T, NEW P, NEW G, NEW L, NEW O, NEW k, NEW n \in Nat,
         P = {h} \cup T, Below({h}, T),
         Books(S, I, R, {}, P, G, L, O, k, n)
  PROVE  Books(S, I, R, {h}, T, G, L, O, k, n)
BY DEF Books, Below

(* It joins the buffer, takes the place of the oldest there, or is refused. *)
LEMMA Join ==
  ASSUME NEW S, NEW R, NEW H, NEW P, NEW G, NEW L, NEW O, NEW k, NEW n \in Nat,
         Books(S, {}, R, H, P, G, L, O, k, n)
  PROVE  Books(S, {}, R \cup H, {}, P, G, L, O, k, n)
BY DEF Books, Below

LEMMA Displace ==
  ASSUME NEW S, NEW R, NEW o \in R, NEW Q, NEW H, NEW P, NEW G, NEW L, NEW O, NEW k, NEW n \in Nat,
         Q = (R \ {o}) \cup H, Below({o}, Q),
         Books(S, {}, R, H, P, G, L, O, k, n)
  PROVE  Books(S, {}, Q, {}, P, G, L, O \cup {o}, k, n)
<1>1. Q \cup {o} = R \cup H /\ Q \subseteq R \cup H
  BY DEF Books, Below
<1>2. /\ Below(S, Q \cup P \cup G) /\ Below(Q, P \cup G) /\ Below(P, G)
      /\ Below(L, Q \cup P \cup G)
  BY <1>1 DEF Books, Below
<1>3. Below({o}, Q \cup P \cup G)
  BY DEF Books, Below
<1>4. k => Below(O \cup {o}, Q \cup P \cup G)
  BY <1>1, <1>3 DEF Books, Below
<1>5. o \in 1..n /\ o \notin S \cup P \cup G \cup L \cup O
  <2>1. o \in 1..n /\ o \notin L \cup O
    BY DEF Books
  <2>2. ~(o < o)
    BY <2>1
  <2>3. o \notin S /\ o \notin P \cup G
    BY <2>2 DEF Books, Below
  <2> QED
    BY <2>1, <2>3
<1>6. o \notin Q
  <2>1. ~(o < o)
    BY <1>5
  <2> QED
    BY <2>1 DEF Below
<1>7. /\ S \cup Q \cup P \cup G \cup L \cup (O \cup {o}) = 1..n
      /\ (S \cup Q \cup P \cup G) \cap (L \cup (O \cup {o})) = {}
      /\ L \cap (O \cup {o}) = {}
  BY <1>1, <1>5, <1>6 DEF Books
<1> QED
  BY <1>2, <1>4, <1>7 DEF Books, Below

LEMMA Refuse ==
  ASSUME NEW S, NEW R, NEW h, NEW P, NEW G, NEW L, NEW O, NEW k, NEW n \in Nat,
         ~k, Books(S, {}, R, {h}, P, G, L, O, k, n)
  PROVE  Books(S, {}, R, {}, P, G, L, O \cup {h}, k, n)
<1>1. h \in 1..n /\ ~(h < h)
  BY DEF Books
<1>2. h \notin S \cup R \cup P \cup G \cup L \cup O
  BY <1>1 DEF Books, Below
<1> QED
  BY <1>2 DEF Books, Below

(* With an empty buffer it is sent at once.                                 *)
LEMMA SendOne ==
  ASSUME NEW S, NEW H, NEW P, NEW G, NEW L, NEW O, NEW k, NEW n \in Nat,
         Books(S, {}, {}, H, P, G, L, O, k, n)
  PROVE  Books(S \cup H, {}, {}, {}, P, G, L, O, k, n)
BY DEF Books, Below

(* The first of the buffer become a batch, which is sent ...                *)
LEMMA TakeBatch ==
  ASSUME NEW S, NEW B, NEW Q, NEW R, NEW H, NEW P, NEW G, NEW L, NEW O, NEW k, NEW n \in Nat,
         R = B \cup Q, Below(B, Q),
         Books(S, {}, R, H, P, G, L, O, k, n)
  PROVE  Books(S, B, Q, H, P, G, L, O, k, n)
BY DEF Books, Below

LEMMA SendBatch ==
  ASSUME NEW S, NEW I, NEW R, NEW H, NEW P, NEW G, NEW L, NEW O, NEW k, NEW n \in Nat,
         Books(S, I, R, H, P, G, L, O, k, n)
  PROVE  Books(S \cup I, {}, R, H, P, G, L, O, k, n)
BY DEF Books, Below

(* ... or lost.                                                             *)
LEMMA LoseBatch ==
  ASSUME NEW S, NEW I, NEW R, NEW H, NEW P, NEW G, NEW L, NEW O, NEW k, NEW n \in Nat,
         Books(S, I, R, H, P, G, L, O, k, n)
  PROVE  Books(S, {}, R, H, P, G, L \cup I, O, k, n)
<1>1. \A x \in I : ~(x < x)
  BY DEF Books
<1>2. I \cap (S \cup R \cup H \cup P \cup G \cup L \cup O) = {}
  BY <1>1 DEF Books, Below
<1> QED
  BY <1>2 DEF Books, Below

-----------------------------------------------------------------------------
(* The inductive invariant.                                                *)

(* Where the goroutines are says what they have in their hands.             *)
Shape ==
  /\ IF coord \in {"received", "send", "write"} THEN hand = <<hand[1]>> ELSE hand = <<>>
  /\ coord \notin {"sendBatch", "writeBatch"} => inflight = <<>>
  /\ coord \in {"send", "write"} => readings = <<>>
  /\ IF reader = "publish" THEN holding = <<holding[1]>> ELSE holding = <<>>

Sorted ==
  /\ Increasing(sent) /\ Increasing(inflight) /\ Increasing(readings)
  /\ Increasing(hand) /\ Increasing(published) /\ Increasing(holding)

Accounts ==
  Books(ToSet(sent), ToSet(inflight), ToSet(readings), ToSet(hand), ToSet(published),
        ToSet(holding), lost, overflowed, dropOldest, produced)

IInv == ClientTypeOK /\ Shape /\ Sorted /\ Accounts /\ StatisticsAgree

lines == <<sent, inflight, readings, hand, published, holding, lost, overflowed, dropOldest,
           produced>>

(* The queues as sequences of numbers.                                      *)
LEMMA Queues ==
  ASSUME ClientTypeOK
  PROVE  /\ produced \in Nat
         /\ sent \in Seq(Nat) /\ inflight \in Seq(Nat) /\ readings \in Seq(Nat)
         /\ hand \in Seq(Nat) /\ published \in Seq(Nat) /\ holding \in Seq(Nat)
<1>1. 1..produced \subseteq Nat
  BY DEF ClientTypeOK
<1> QED
  BY <1>1, SeqMonotonic DEF ClientTypeOK, BufferType

LEMMA EmptyQueue == ToSet(<<>>) = {} /\ Increasing(<<>>)
BY DEF ToSet, Increasing

LEMMA InitInductive == Init => IInv
<1> SUFFICES ASSUME Init PROVE IInv
  OBVIOUS
<1> Capacity \in Nat \ {0}
  BY ReadingBufferAssumption DEF ReadingBufferAssumption
<1> USE DEF Init, BufferInit, Net!Init
<1>1. ClientTypeOK
  <2>1. 1..produced = {} /\ produced \in Nat /\ lost \subseteq 1..produced
    OBVIOUS
  <2>2. BufferType(1..produced)
    <3>1. stats \in [pushed : Nat, dropped : Nat, highWater : 0..Capacity]
      OBVIOUS
    <3>2. readings \in Seq(1..produced) /\ Len(readings) <= Capacity
      OBVIOUS
    <3>3. dropOldest \in BOOLEAN /\ overflowed \subseteq 1..produced
      OBVIOUS
    <3> QED
      BY <3>1, <3>2, <3>3 DEF BufferType
  <2>3. /\ holding \in Seq(1..produced) /\ published \in Seq(1..produced)
        /\ hand \in Seq(1..produced) /\ inflight \in Seq(1..produced)
        /\ sent \in Seq(1..produced)
    OBVIOUS
  <2>4. /\ cancelled \in BOOLEAN
        /\ reader \in {"select", "publish", "done"}
        /\ coord \in {"select", "received", "send", "write", "drain", "pop", "sendBatch",
                     "writeBatch", "done"}
        /\ link \in {"down", "up", "broken"}
    OBVIOUS
  <2> HIDE DEF Init, BufferInit
  <2> QED
    BY <2>1, <2>2, <2>3, <2>4 DEF ClientTypeOK
<1>2. Shape
  BY DEF Shape
<1>3. Sorted
  BY EmptyQueue DEF Sorted
<1>4. Accounts
  <2>1. 1..0 = {}
    OBVIOUS
  <2> QED
    BY <2>1, EmptyQueue DEF Accounts, Books, Below
<1>5. StatisticsAgree
  BY FS_EmptySet DEF StatisticsAgree
<1> QED
  BY <1>1, <1>2, <1>3, <1>4, <1>5 DEF IInv

(* Push is called with the reading in hand, and by nobody else.             *)
Pushes == BufferOffline \/ BufferBehindOthers \/ SendFailsAndBuffers

LEMMA PushesMean ==
  ASSUME Shape, Pushes
  PROVE  /\ Push(hand[1]) /\ hand = <<hand[1]>> /\ hand' = <<>> /\ inflight = <<>>
         /\ sent' = sent /\ inflight' = inflight /\ published' = published
         /\ holding' = holding /\ lost' = lost /\ produced' = produced
         /\ coord' \in {"select", "drain"} /\ reader' = reader /\ cancelled' = cancelled
BY DEF Pushes, BufferOffline, BufferBehindOthers, SendFailsAndBuffers, SendFails, Shape, readerVars,
   coordVars, outVars

Idle ==
  \/ ReaderStops \/ CoordStops \/ StatusTick \/ SendAtOnce \/ DrainBegins \/ DrainEnds \/ Cancel
  \/ LinkChanges \/ CheckBefore("send", "write") \/ CheckBefore("sendBatch", "writeBatch")

LEMMA IdleMeans ==
  ASSUME Idle \/ UNCHANGED vars
  PROVE  UNCHANGED lines /\ stats' = stats
BY Zenon DEF Idle, ReaderStops, CoordStops, StatusTick, SendAtOnce, DrainBegins, DrainEnds, Cancel, LinkChanges,
   CheckBefore, lines, vars, bufferVars, readerVars, coordVars, outVars

Moves ==
  \/ ReadSensor \/ Publish \/ Receive \/ SendReturns \/ DrainPops \/ BatchSent \/ BatchFails

LEMMA NextMeans == Next => Idle \/ Pushes \/ Moves
BY DEF Next, Reader, Coordinator, Sender, Idle, Pushes, Moves

-----------------------------------------------------------------------------
LEMMA NextShape ==
  ASSUME Shape, [Next]_vars
  PROVE  Shape'
<1>1. CASE Pushes
  BY <1>1, PushesMean DEF Shape
<1>2. CASE Moves
  <2>1. CASE ReadSensor
    BY <2>1 DEF ReadSensor, Shape, bufferVars, coordVars
  <2>2. CASE Publish
    BY <2>2 DEF Publish, Shape, bufferVars, coordVars
  <2>3. CASE Receive
    BY <2>3 DEF Receive, Shape, bufferVars, readerVars
  <2>4. CASE SendReturns
    BY <2>4 DEF SendReturns, WriteOK, Shape, bufferVars, readerVars
  <2>5. CASE DrainPops
    BY <2>5 DEF DrainPops, Shape, readerVars
  <2>6. CASE BatchSent
    BY <2>6 DEF BatchSent, WriteOK, Shape, bufferVars, readerVars
  <2>7. CASE BatchFails
    BY <2>7 DEF BatchFails, SendFails, Shape, bufferVars, readerVars
  <2> QED
    BY <1>2, <2>1, <2>2, <2>3, <2>4, <2>5, <2>6, <2>7 DEF Moves
<1>3. CASE Idle
  <2>1. CASE ReaderStops
    BY <2>1 DEF ReaderStops, Shape, bufferVars, coordVars
  <2>2. CASE CoordStops \/ StatusTick \/ DrainBegins \/ DrainEnds
    BY <2>2 DEF CoordStops, StatusTick, DrainBegins, DrainEnds, Shape, bufferVars, readerVars
  <2>3. CASE SendAtOnce
    BY <2>3 DEF SendAtOnce, Shape, bufferVars, readerVars
  <2>4. CASE CheckBefore("send", "write") \/ CheckBefore("sendBatch", "writeBatch")
    BY <2>4 DEF CheckBefore, Shape, bufferVars, readerVars
  <2>5. CASE Cancel \/ LinkChanges
    BY <2>5 DEF Cancel, LinkChanges, Shape, bufferVars, readerVars, coordVars
  <2> QED
    BY <1>3, <2>1, <2>2, <2>3, <2>4, <2>5 DEF Idle
<1>4. CASE UNCHANGED vars
  BY <1>4 DEF vars, Shape, bufferVars, readerVars, coordVars
<1> QED
  BY <1>1, <1>2, <1>3, <1>4, NextMeans

-----------------------------------------------------------------------------
(* Types.                                                                  *)

Controls ==
  /\ cancelled \in BOOLEAN
  /\ reader \in {"select", "publish", "done"}
  /\ coord \in {"select", "received", "send", "write", "drain", "pop", "sendBatch",
               "writeBatch", "done"}
  /\ link \in {"down", "up", "broken"}

Stations(S) ==
  /\ holding \in Seq(S) /\ published \in Seq(S) /\ hand \in Seq(S) /\ inflight \in Seq(S)
  /\ sent \in Seq(S) /\ lost \subseteq S

LEMMA TypeParts ==
  ClientTypeOK <=> BufferType(1..produced) /\ Controls /\ produced \in Nat /\ Stations(1..produced)
BY DEF ClientTypeOK, Controls, Stations

LEMMA NextControls ==
  ASSUME Controls, [Next]_vars
  PROVE  Controls'
<1> USE DEF Controls
<1>1. CASE Reader
  BY <1>1 DEF Reader, ReadSensor, Publish, ReaderStops, bufferVars, coordVars, outVars
<1>2. CASE CoordStops \/ Receive \/ StatusTick \/ SendAtOnce
  BY <1>2 DEF CoordStops, Receive, StatusTick, SendAtOnce, readerVars
<1>3. CASE BufferOffline \/ BufferBehindOthers
  BY <1>3 DEF BufferOffline, BufferBehindOthers, readerVars
<1>4. CASE DrainBegins \/ DrainPops \/ DrainEnds
  BY <1>4 DEF DrainBegins, DrainPops, DrainEnds, readerVars
<1>5. CASE CheckBefore("send", "write") \/ CheckBefore("sendBatch", "writeBatch")
  BY <1>5 DEF CheckBefore, readerVars
<1>6. CASE SendReturns \/ BatchSent
  BY <1>6 DEF SendReturns, BatchSent, WriteOK, readerVars
<1>7. CASE SendFailsAndBuffers \/ BatchFails
  BY <1>7 DEF SendFailsAndBuffers, BatchFails, SendFails, readerVars
<1>8. CASE Cancel
  BY <1>8 DEF Cancel, readerVars, coordVars
<1>9. CASE LinkChanges
  BY <1>9 DEF LinkChanges, Net!Next, Net!GoUp, Net!Break, Net!GoDown, readerVars, coordVars
<1>10. CASE UNCHANGED vars
  BY <1>10 DEF vars, readerVars, coordVars
<1> QED
  BY <1>1, <1>2, <1>3, <1>4, <1>5, <1>6, <1>7, <1>8, <1>9, <1>10 DEF Next, Coordinator, Sender

LEMMA MoreProduced ==
  ASSUME NEW S, NEW T, S \subseteq T, BufferType(S), Stations(S)
  PROVE  BufferType(T) /\ Stations(T)
BY SeqMonotonic DEF BufferType, Stations

LEMMA NextTypes ==
  ASSUME ClientTypeOK, Shape, [Next]_vars
  PROVE  ClientTypeOK'
<1>0. /\ BufferType(1..produced) /\ Controls /\ produced \in Nat /\ Stations(1..produced)
      /\ Controls'
  BY TypeParts, NextControls
<1> PICK n \in Nat : n = produced
  BY <1>0
<1> PICK N : N = 1..n
  OBVIOUS
<1>1. BufferType(N) /\ Stations(N)
  BY <1>0
<1> SUFFICES BufferType(1..produced)' /\ produced' \in Nat /\ Stations(1..produced)'
  BY <1>0 DEF ClientTypeOK, Controls, Stations
<1> SUFFICES ASSUME ~ReadSensor
             PROVE  BufferType(N)' /\ produced' = produced /\ Stations(N)'
  <2>1. CASE ReadSensor
    <3>1. /\ produced' = n + 1 /\ holding' = <<n + 1>>
          /\ readings' = readings /\ stats' = stats /\ overflowed' = overflowed
          /\ dropOldest' = dropOldest /\ published' = published /\ hand' = hand
          /\ inflight' = inflight /\ sent' = sent /\ lost' = lost
      BY <2>1 DEF ReadSensor, bufferVars, coordVars, outVars
    <3> PICK M : M = 1..(n + 1)
      OBVIOUS
    <3>2. N \subseteq M /\ n + 1 \in M
      OBVIOUS
    <3>3. BufferType(M) /\ Stations(M)
      BY <1>1, <3>2, MoreProduced, Zenon
    <3>4. BufferType(M)'
      BY <3>1, <3>3 DEF BufferType
    <3>5. <<n + 1>> \in Seq(M)
      BY <3>2
    <3>6. Stations(M)'
      BY <3>1, <3>3, <3>5 DEF Stations
    <3> QED
      BY <3>1, <3>4, <3>6 DEF BufferType, Stations
  <2>2. CASE ~ReadSensor
    <3>1. BufferType(N)' /\ produced' = produced /\ Stations(N)'
      BY <2>2
    <3> QED
      BY <1>0, <3>1 DEF BufferType, Stations
  <2> QED
    BY <2>1, <2>2
<1> HIDE DEF vars
<1>2. /\ readings \in Seq(N) /\ holding \in Seq(N) /\ published \in Seq(N) /\ hand \in Seq(N)
      /\ inflight \in Seq(N) /\ sent \in Seq(N) /\ lost \subseteq N
  BY <1>1 DEF BufferType, Stations
<1>3. CASE Idle \/ UNCHANGED vars
  <2>1. UNCHANGED lines /\ stats' = stats
    BY <1>3, IdleMeans
  <2> QED
    BY <1>1, <2>1 DEF lines, BufferType, Stations
<1>4. CASE Pushes
  <2>1. /\ Push(hand[1]) /\ hand = <<hand[1]>> /\ hand' = <<>>
        /\ sent' = sent /\ inflight' = inflight /\ published' = published
        /\ holding' = holding /\ lost' = lost /\ produced' = produced
    BY <1>4, PushesMean
  <2>2. hand[1] \in N
    <3>1. Len(hand) = 1
      BY <2>1
    <3>2. 1 \in 1..Len(hand)
      BY <3>1
    <3> QED
      BY <1>2, <3>2, ElementOfSeq
  <2> PICK r \in N : r = hand[1]
    BY <2>2
  <2>3. Push(r)
    BY <2>1
  <2>4. BufferType(N)'
    BY <1>1, <2>3, PushType, Zenon
  <2> QED
    BY <1>1, <2>1, <2>4 DEF Stations
<1>5. CASE Publish
  BY <1>1, <1>2, <1>5, ConcatProperties DEF Publish, bufferVars, coordVars, outVars, BufferType, Stations
<1>6. CASE Receive
  <2>1. /\ published # <<>> /\ hand' = <<Head(published)>> /\ published' = Tail(published)
        /\ UNCHANGED <<bufferVars, readerVars, inflight, outVars>>
    BY <1>6 DEF Receive
  <2>2. Head(published) \in N /\ Tail(published) \in Seq(N)
    BY <1>2, <2>1, HeadTailProperties
  <2>3. hand' \in Seq(N) /\ published' \in Seq(N)
    BY <2>1, <2>2
  <2>4. BufferType(N)' /\ produced' = produced
    BY <1>1, <2>1 DEF bufferVars, readerVars, BufferType
  <2> QED
    BY <1>1, <2>1, <2>3, <2>4 DEF readerVars, outVars, Stations
<1>7. CASE SendReturns
  BY <1>1, <1>2, <1>7, ConcatProperties DEF SendReturns, bufferVars, readerVars, BufferType, Stations
<1>8. CASE BatchSent
  BY <1>1, <1>2, <1>8, ConcatProperties DEF BatchSent, bufferVars, readerVars, BufferType, Stations
<1>9. CASE BatchFails
  <2>1. ToSet(inflight) \subseteq N
    BY <1>2 DEF ToSet
  <2>2. /\ inflight' = <<>> /\ lost' = lost \cup ToSet(inflight)
        /\ UNCHANGED <<bufferVars, readerVars, published, hand, sent>>
    BY <1>9 DEF BatchFails
  <2>3. lost' \subseteq N
    BY <1>2, <2>1, <2>2
  <2>4. BufferType(N)' /\ produced' = produced
    BY <1>1, <2>2 DEF bufferVars, readerVars, BufferType
  <2> QED
    BY <1>1, <2>2, <2>3, <2>4 DEF readerVars, Stations
<1>10. CASE DrainPops
  <2>1. /\ Batch(BatchSize) \in Seq(N) /\ readings' \in Seq(N)
        /\ Len(readings) = Len(Batch(BatchSize)) + Len(readings')
    BY <1>2, <1>10, PopSplits, SensorClientAssumption DEF DrainPops, SensorClientAssumption
  <2>2. /\ inflight' = Batch(BatchSize) /\ holding' = holding /\ published' = published
        /\ hand' = hand /\ sent' = sent /\ lost' = lost /\ produced' = produced
        /\ dropOldest' = dropOldest /\ stats' = stats /\ overflowed' = overflowed
    BY <1>10 DEF DrainPops, PopBatch, readerVars, outVars
  <2>3. Len(readings') <= Capacity
    <3>1. Len(readings) <= Capacity /\ Capacity \in Nat
      BY <1>1, ReadingBufferAssumption DEF BufferType, ReadingBufferAssumption
    <3>2. Len(readings') \in Nat /\ Len(Batch(BatchSize)) \in Nat
      BY <2>1, LenProperties
    <3> QED
      BY <2>1, <3>1, <3>2
  <2> QED
    BY <1>1, <2>1, <2>2, <2>3 DEF BufferType, Stations
<1> QED
  BY <1>3, <1>4, <1>5, <1>6, <1>7, <1>8, <1>9, <1>10, NextMeans DEF Moves

-----------------------------------------------------------------------------
(* Order and accounts.                                                     *)

LEMMA InHand ==
  ASSUME ClientTypeOK, hand = <<hand[1]>>
  PROVE  hand[1] \in Nat /\ ToSet(hand) = {hand[1]}
<1>1. hand \in Seq(Nat) /\ Len(hand) = 1
  BY Queues
<1>2. 1 \in 1..Len(hand)
  BY <1>1
<1>3. hand[1] \in Nat
  BY <1>1, <1>2, ElementOfSeq
<1>4. ToSet(<<hand[1]>>) = {hand[1]}
  BY <1>3, Singleton
<1> QED
  BY <1>3, <1>4

(* A reading comes to the buffer with nothing in flight: it is newer than    *)
(* everything there.                                                         *)
LEMMA PushKeeps ==
  ASSUME IInv, Pushes
  PROVE  Sorted' /\ Accounts'
<1>1. /\ Push(hand[1]) /\ hand = <<hand[1]>> /\ hand' = <<>> /\ inflight = <<>>
      /\ sent' = sent /\ inflight' = inflight /\ published' = published
      /\ holding' = holding /\ lost' = lost /\ produced' = produced
  BY PushesMean DEF IInv
<1>2. /\ readings \in Seq(Nat) /\ Increasing(readings) /\ produced \in Nat
  BY Queues DEF IInv, Sorted
<1>3. hand[1] \in Nat /\ ToSet(hand) = {hand[1]}
  BY <1>1, InHand DEF IInv
<1> PICK r \in Nat : r = hand[1]
  BY <1>3
<1> DEFINE S == ToSet(sent)
           R == ToSet(readings)
           P == ToSet(published)
           G == ToSet(holding)
<1>4. Books(S, {}, R, {r}, P, G, lost, overflowed, dropOldest, produced)
  BY <1>1, <1>3, EmptyQueue DEF IInv, Accounts
<1>5. \A x \in R : x < r
  BY <1>4 DEF Books, Below
<1>6. /\ readings' \in Seq(Nat)
      /\ Increasing(readings')
      /\ dropOldest' = dropOldest
      /\ \/ /\ ToSet(readings') = R \cup {r}
            /\ overflowed' = overflowed
         \/ /\ dropOldest
            /\ \E o \in R :
                 /\ overflowed' = overflowed \cup {o}
                 /\ ToSet(readings') = (R \ {o}) \cup {r}
                 /\ \A x \in ToSet(readings') : o < x
         \/ /\ ~dropOldest
            /\ readings' = readings
            /\ overflowed' = overflowed \cup {r}
  BY <1>1, <1>2, <1>5, PushSets
<1>7. Sorted'
  BY <1>1, <1>6, EmptyQueue DEF IInv, Sorted
<1> DEFINE Q == ToSet(readings')
<1>8. \/ Q = R \cup {r} /\ overflowed' = overflowed
      \/ dropOldest /\ \E o \in R : /\ overflowed' = overflowed \cup {o}
                                    /\ Q = (R \ {o}) \cup {r}
                                    /\ \A x \in Q : o < x
      \/ ~dropOldest /\ Q = R /\ overflowed' = overflowed \cup {r}
  BY <1>6
<1> HIDE DEF S, R, P, G, Q
<1>9. Books(S, {}, Q, {}, P, G, lost, overflowed', dropOldest, produced)
  <2>1. CASE Q = R \cup {r} /\ overflowed' = overflowed
    <3>1. Books(S, {}, R \cup {r}, {}, P, G, lost, overflowed, dropOldest, produced)
      BY <1>2, <1>4, Join, Zenon
    <3> QED
      BY <2>1, <3>1
  <2>2. CASE \E o \in R : /\ overflowed' = overflowed \cup {o}
                          /\ Q = (R \ {o}) \cup {r}
                          /\ \A x \in Q : o < x
    <3> PICK o \in R : /\ overflowed' = overflowed \cup {o}
                       /\ Q = (R \ {o}) \cup {r}
                       /\ \A x \in Q : o < x
      BY <2>2
    <3>1. Below({o}, Q)
      BY DEF Below
    <3>2. Books(S, {}, Q, {}, P, G, lost, overflowed \cup {o}, dropOldest, produced)
      BY <1>2, <1>4, <3>1, Displace, Zenon
    <3> QED
      BY <3>2
  <2>3. CASE ~dropOldest /\ Q = R /\ overflowed' = overflowed \cup {r}
    <3>1. Books(S, {}, R, {}, P, G, lost, overflowed \cup {r}, dropOldest, produced)
      BY <1>2, <1>4, <2>3, Refuse, Zenon
    <3> QED
      BY <2>3, <3>1
  <2> QED
    BY <1>8, <2>1, <2>2, <2>3
<1> QED
  BY <1>1, <1>6, <1>7, <1>9, EmptyQueue DEF Accounts, S, R, P, G, Q

LEMMA MoveKeeps ==
  ASSUME IInv, Moves
  PROVE  Sorted' /\ Accounts'
<1>1. /\ produced \in Nat
      /\ sent \in Seq(Nat) /\ inflight \in Seq(Nat) /\ readings \in Seq(Nat)
      /\ hand \in Seq(Nat) /\ published \in Seq(Nat) /\ holding \in Seq(Nat)
      /\ Sorted /\ Shape /\ ClientTypeOK
  BY Queues DEF IInv
<1>2. Books(ToSet(sent), ToSet(inflight), ToSet(readings), ToSet(hand), ToSet(published),
            ToSet(holding), lost, overflowed, dropOldest, produced)
  BY DEF IInv, Accounts
<1>3. ToSet(<<>>) = {} /\ Increasing(<<>>)
  BY EmptyQueue
<1> DEFINE S == ToSet(sent)
           I == ToSet(inflight)
           R == ToSet(readings)
           H == ToSet(hand)
           P == ToSet(published)
           G == ToSet(holding)
<1>4. CASE ReadSensor
  <2>1. /\ holding = <<>> /\ produced' = produced + 1 /\ holding' = <<produced + 1>>
        /\ UNCHANGED <<sent, inflight, readings, hand, published, lost, overflowed, dropOldest>>
    BY <1>1, <1>4 DEF ReadSensor, Shape, bufferVars, coordVars, outVars
  <2>2. ToSet(<<produced + 1>>) = {produced + 1} /\ Increasing(<<produced + 1>>)
    BY <1>1, Singleton
  <2>3. Books(S, I, R, H, P, {}, lost, overflowed, dropOldest, produced)
    BY <1>2, <1>3, <2>1
  <2>4. Books(S, I, R, H, P, {produced + 1}, lost, overflowed, dropOldest, produced + 1)
    BY <1>1, <2>3, Make, Zenon
  <2> QED
    BY <1>1, <2>1, <2>2, <2>4 DEF Sorted, Accounts
<1>5. CASE Publish
  <2>1. /\ published' = published \o holding /\ holding' = <<>>
        /\ UNCHANGED <<sent, inflight, readings, hand, lost, overflowed, dropOldest, produced>>
    BY <1>5 DEF Publish, bufferVars, coordVars, outVars
  <2>2. ToSet(published \o holding) = P \cup G
    BY <1>1, ToSetConcat
  <2>3. Increasing(published \o holding)
    BY <1>1, <1>2, IncreasingJoin DEF Sorted, Books, Below
  <2>4. Books(S, I, R, H, P \cup G, {}, lost, overflowed, dropOldest, produced)
    BY <1>1, <1>2, PutIntoChannel, Zenon
  <2> QED
    BY <1>1, <1>3, <2>1, <2>2, <2>3, <2>4 DEF Sorted, Accounts
<1>6. CASE Receive
  <2>1. /\ published # <<>> /\ hand = <<>>
        /\ hand' = <<Head(published)>> /\ published' = Tail(published)
        /\ UNCHANGED <<sent, inflight, readings, holding, lost, overflowed, dropOldest, produced>>
    BY <1>1, <1>6 DEF Receive, Shape, bufferVars, readerVars, outVars
  <2> DEFINE h == Head(published)
             T == ToSet(Tail(published))
  <2>2. /\ h \in Nat /\ Increasing(Tail(published))
        /\ P = {h} \cup T /\ \A x \in T : h < x
    BY <1>1, <2>1, TakeOldest DEF Sorted
  <2>3. ToSet(<<h>>) = {h} /\ Increasing(<<h>>)
    BY <2>2, Singleton
  <2>4. Books(S, I, R, {}, P, G, lost, overflowed, dropOldest, produced)
    BY <1>2, <1>3, <2>1
  <2>5. Below({h}, T)
    BY <2>2 DEF Below
  <2> HIDE DEF h, T
  <2>6. Books(S, I, R, {h}, T, G, lost, overflowed, dropOldest, produced)
    BY <1>1, <2>2, <2>4, <2>5, TakeFromChannel, Zenon
  <2> QED
    BY <1>1, <2>1, <2>2, <2>3, <2>6 DEF Sorted, Accounts, h, T
<1>7. CASE SendReturns
  <2>1. /\ inflight = <<>> /\ readings = <<>>
        /\ sent' = sent \o hand /\ hand' = <<>>
        /\ UNCHANGED <<inflight, readings, published, holding, lost, overflowed, dropOldest, produced>>
    BY <1>1, <1>7 DEF SendReturns, WriteOK, Shape, bufferVars, readerVars
  <2>2. ToSet(sent \o hand) = S \cup H
    BY <1>1, ToSetConcat
  <2>3. Increasing(sent \o hand)
    BY <1>1, <1>2, IncreasingJoin DEF Sorted, Books, Below
  <2>4. Books(S, {}, {}, H, P, G, lost, overflowed, dropOldest, produced)
    BY <1>2, <1>3, <2>1
  <2>5. Books(S \cup H, {}, {}, {}, P, G, lost, overflowed, dropOldest, produced)
    BY <1>1, <2>4, SendOne, Zenon
  <2> QED
    BY <1>1, <1>3, <2>1, <2>2, <2>3, <2>5 DEF Sorted, Accounts
<1>8. CASE DrainPops
  <2>1. /\ inflight = <<>> /\ inflight' = Batch(BatchSize) /\ PopBatch(BatchSize)
        /\ UNCHANGED <<sent, hand, published, holding, lost, overflowed, dropOldest, produced>>
    BY <1>1, <1>8 DEF DrainPops, PopBatch, Shape, readerVars, outVars
  <2>2. /\ Batch(BatchSize) \in Seq(Nat) /\ readings' \in Seq(Nat)
        /\ readings = Batch(BatchSize) \o readings'
    BY <1>1, <2>1, PopSplits, SensorClientAssumption DEF SensorClientAssumption
  <2> DEFINE B == ToSet(Batch(BatchSize))
             Q == ToSet(readings')
  <2>3. /\ Increasing(Batch(BatchSize)) /\ Increasing(readings')
        /\ \A x \in B, y \in Q : x < y
    BY <1>1, <2>2, IncreasingSplit DEF Sorted
  <2>4. R = B \cup Q
    BY <2>2, ToSetConcat
  <2>5. Below(B, Q)
    BY <2>3 DEF Below
  <2>6. Books(S, {}, R, H, P, G, lost, overflowed, dropOldest, produced)
    BY <1>2, <1>3, <2>1
  <2> HIDE DEF B, Q
  <2>7. Books(S, B, Q, H, P, G, lost, overflowed, dropOldest, produced)
    BY <1>1, <2>4, <2>5, <2>6, TakeBatch, Zenon
  <2> QED
    BY <1>1, <2>1, <2>3, <2>7 DEF Sorted, Accounts, B, Q
<1>9. CASE BatchSent
  <2>1. /\ sent' = sent \o inflight /\ inflight' = <<>>
        /\ UNCHANGED <<readings, hand, published, holding, lost, overflowed, dropOldest, produced>>
    BY <1>9 DEF BatchSent, bufferVars, readerVars
  <2>2. ToSet(sent \o inflight) = S \cup I
    BY <1>1, ToSetConcat
  <2>3. Increasing(sent \o inflight)
    BY <1>1, <1>2, IncreasingJoin DEF Sorted, Books, Below
  <2>4. Books(S \cup I, {}, R, H, P, G, lost, overflowed, dropOldest, produced)
    BY <1>1, <1>2, SendBatch, Zenon
  <2> QED
    BY <1>1, <1>3, <2>1, <2>2, <2>3, <2>4 DEF Sorted, Accounts
<1>10. CASE BatchFails
  <2>1. /\ lost' = lost \cup I /\ inflight' = <<>>
        /\ UNCHANGED <<sent, readings, hand, published, holding, overflowed, dropOldest, produced>>
    BY <1>10 DEF BatchFails, bufferVars, readerVars
  <2>2. Books(S, {}, R, H, P, G, lost \cup I, overflowed, dropOldest, produced)
    BY <1>1, <1>2, LoseBatch, Zenon
  <2> QED
    BY <1>1, <1>3, <2>1, <2>2 DEF Sorted, Accounts
<1> QED
  BY <1>4, <1>5, <1>6, <1>7, <1>8, <1>9, <1>10 DEF Moves

-----------------------------------------------------------------------------
(* The buffer's statistics.                                                *)

(* A batch has as many readings as its set.                                 *)
LEMMA BatchCounts ==
  ASSUME NEW s \in Seq(Nat), Increasing(s)
  PROVE  IsFiniteSet(ToSet(s)) /\ Cardinality(ToSet(s)) = Len(s)
<1> PICK n \in Nat : n = Len(s)
  OBVIOUS
<1>1. DOMAIN s = 1..n /\ s \in [1..n -> Nat]
  OBVIOUS
<1>2. IsFiniteSet(1..n) /\ Cardinality(1..n) = n
  <2>1. /\ IsFiniteSet(1..n)
        /\ Cardinality(1..n) = IF 1 > n THEN 0 ELSE n - 1 + 1
    <3>1. 1 \in Int /\ n \in Int
      OBVIOUS
    <3> QED
      BY <3>1, FS_Interval, Zenon
  <2> QED
    BY <2>1
<1>3. ToSet(s) = {s[i] : i \in 1..n}
  BY <1>1 DEF ToSet
<1> DEFINE T == ToSet(s)
<1>4. s \in Bijection(1..n, T)
  <2>1. s \in [1..n -> T] /\ \A x \in T : \E i \in 1..n : s[i] = x
    BY <1>1, <1>3
  <2>2. \A i, j \in 1..n : s[i] = s[j] => i = j
    <3>1. ASSUME NEW i \in 1..n, NEW j \in 1..n, s[i] = s[j]
          PROVE  i = j
      <4>1. s[i] \in Nat /\ ~(s[i] < s[i])
        BY <1>1
      <4>2. ~(i < j) /\ ~(j < i)
        BY <1>1, <3>1, <4>1 DEF Increasing
      <4> QED
        BY <4>2
    <3> QED
      BY <3>1
  <2> QED
    BY <2>1, <2>2 DEF Bijection, Injection, Surjection, IsInjective
<1> HIDE DEF T
<1>5. ExistsBijection(1..n, T)
  BY <1>4 DEF ExistsBijection
<1> QED
  BY <1>2, <1>5, FS_Bijection DEF T

(* What is counted is finite.                                               *)
LEMMA Counted ==
  ASSUME IInv
  PROVE  /\ Capacity \in Nat \ {0} /\ dropOldest \in BOOLEAN
         /\ stats \in [pushed : Nat, dropped : Nat, highWater : 0..Capacity]
         /\ stats.pushed \in Nat /\ stats.dropped \in Nat /\ stats.highWater \in 0..Capacity
         /\ Len(readings) \in Nat /\ Len(readings) <= Capacity
         /\ Len(inflight) \in Nat /\ Len(sent) \in Nat
         /\ IsFiniteSet(lost) /\ Cardinality(lost) \in Nat
         /\ IsFiniteSet(overflowed) /\ Cardinality(overflowed) \in Nat
<1>1. /\ BufferType(1..produced) /\ produced \in Nat /\ lost \subseteq 1..produced
      /\ overflowed \subseteq 1..produced
  BY DEF IInv, ClientTypeOK, BufferType
<1>2. IsFiniteSet(lost) /\ IsFiniteSet(overflowed)
  <2> PICK n \in Nat : n = produced
    BY <1>1
  <2>1. IsFiniteSet(1..n)
    BY FS_Interval
  <2> QED
    BY <1>1, <2>1, FS_Subset
<1>3. Cardinality(lost) \in Nat /\ Cardinality(overflowed) \in Nat
  BY <1>2, FS_CardinalityType
<1>4. /\ Capacity \in Nat \ {0} /\ dropOldest \in BOOLEAN
      /\ stats \in [pushed : Nat, dropped : Nat, highWater : 0..Capacity]
      /\ Len(readings) <= Capacity
  BY <1>1, ReadingBufferAssumption DEF BufferType, ReadingBufferAssumption
<1>5. stats.pushed \in Nat /\ stats.dropped \in Nat /\ stats.highWater \in 0..Capacity
  BY <1>4
<1>6. Len(readings) \in Nat /\ Len(inflight) \in Nat /\ Len(sent) \in Nat
  BY Queues DEF IInv
<1> QED
  BY <1>2, <1>3, <1>4, <1>5, <1>6

(* p readings were pushed, d dropped after that, and size are buffered; the  *)
(* others are in a batch, among the l lost or among the s sent.              *)
Tally(p, d, size, batch, l, s) ==
  /\ batch + l <= p - d - size
  /\ p - d - size <= batch + l + s

DroppedLater == IF dropOldest THEN stats.dropped ELSE 0

High ==
  /\ stats.dropped = Cardinality(overflowed)
  /\ overflowed # {} => stats.highWater = Capacity
  /\ Len(readings) <= stats.highWater

LEMMA StatisticsParts ==
  StatisticsAgree <=>
    High /\ Tally(stats.pushed, DroppedLater, Len(readings), Len(inflight), Cardinality(lost),
                  Len(sent))
BY Zenon DEF StatisticsAgree, High, Tally, DroppedLater

(* A reading is pushed, pushed over the oldest, k are sent at once, batched  *)
(* from the buffer; a batch is sent or lost.                                 *)
LEMMA Tallies ==
  ASSUME NEW p \in Nat, NEW d \in Nat, NEW size \in Nat, NEW batch \in Nat, NEW l \in Nat,
         NEW s \in Nat, Tally(p, d, size, batch, l, s)
  PROVE  /\ Tally(p + 1, d, size + 1, batch, l, s)
         /\ Tally(p + 1, d + 1, size, batch, l, s)
         /\ \A k \in Nat : Tally(p, d, size, batch, l, s + k)
         /\ \A k, rest \in Nat : batch = 0 /\ size = k + rest => Tally(p, d, rest, k, l, s)
         /\ Tally(p, d, size, 0, l, s + batch)
         /\ Tally(p, d, size, 0, l + batch, s)
BY DEF Tally

LEMMA StatisticsKept ==
  ASSUME IInv, [Next]_vars
  PROVE  StatisticsAgree'
<1> DEFINE p == stats.pushed
           d == DroppedLater
           size == Len(readings)
           batch == Len(inflight)
           l == Cardinality(lost)
           s == Len(sent)
<1>1. /\ Capacity \in Nat \ {0} /\ dropOldest \in BOOLEAN
      /\ stats \in [pushed : Nat, dropped : Nat, highWater : 0..Capacity]
      /\ p \in Nat /\ stats.dropped \in Nat /\ stats.highWater \in 0..Capacity
      /\ size \in Nat /\ size <= Capacity
      /\ batch \in Nat /\ s \in Nat
      /\ IsFiniteSet(lost) /\ l \in Nat
      /\ IsFiniteSet(overflowed) /\ Cardinality(overflowed) \in Nat
  BY Counted
<1>2. /\ sent \in Seq(Nat) /\ inflight \in Seq(Nat) /\ readings \in Seq(Nat) /\ hand \in Seq(Nat)
      /\ Sorted /\ Shape /\ StatisticsAgree
  BY Queues DEF IInv
<1>3. Books(ToSet(sent), ToSet(inflight), ToSet(readings), ToSet(hand), ToSet(published),
            ToSet(holding), lost, overflowed, dropOldest, produced)
  BY DEF IInv, Accounts
<1>4. /\ stats.dropped = Cardinality(overflowed)
      /\ overflowed # {} => stats.highWater = Capacity
      /\ size <= stats.highWater
      /\ Tally(p, d, size, batch, l, s)
  BY <1>2, StatisticsParts, Zenon DEF High
<1>5. d \in Nat
  BY <1>1 DEF DroppedLater
<1> HIDE DEF d
<1>6. /\ Tally(p + 1, d, size + 1, batch, l, s)
      /\ Tally(p + 1, d + 1, size, batch, l, s)
      /\ \A k \in Nat : Tally(p, d, size, batch, l, s + k)
      /\ \A k, rest \in Nat : batch = 0 /\ size = k + rest => Tally(p, d, rest, k, l, s)
      /\ Tally(p, d, size, 0, l, s + batch)
      /\ Tally(p, d, size, 0, l + batch, s)
  <2> HIDE DEF p, size, batch, l, s
  <2> QED
    BY <1>1, <1>4, <1>5, Tallies, Zenon
<1>7. SUFFICES High' /\ Tally(p', d', size', batch', l', s')
  BY Zenon DEF StatisticsAgree, High, Tally, DroppedLater, d
<1>8. CASE UNCHANGED <<sent, inflight, readings, lost, overflowed, dropOldest, stats>>
  BY <1>2, <1>8, StatisticsParts DEF High, Tally, DroppedLater, d
<1>9. CASE Idle \/ UNCHANGED vars
  BY <1>8, <1>9, IdleMeans DEF lines
<1>10. CASE Pushes
  <2>1. /\ Push(hand[1]) /\ s' = s /\ batch' = batch /\ l' = l
        /\ hand = <<hand[1]>>
    BY <1>2, <1>10, PushesMean
  <2>2. ToSet(hand) = {hand[1]}
    BY <2>1, InHand DEF IInv
  <2> PICK r : r = hand[1]
    OBVIOUS
  <2>3. r \notin overflowed /\ \A x \in ToSet(readings) : x \notin overflowed
    BY <1>3, <2>2 DEF Books
  <2>4. CASE PushKept(r)
    <3>1. /\ readings' = Append(readings, r) /\ dropOldest' = dropOldest
          /\ overflowed' = overflowed /\ size < Capacity
      BY <1>1, <2>4 DEF PushKept, Full
    <3>2. size' = size + 1
      BY <1>2, <3>1
    <3>3. /\ p' = p + 1 /\ stats'.dropped = stats.dropped
          /\ stats'.highWater = IF stats.highWater < size' THEN size' ELSE stats.highWater
      BY <1>1, <2>4, Zenon DEF PushKept
    <3>4. (overflowed' # {} => stats'.highWater = Capacity) /\ size' <= stats'.highWater
      BY <1>1, <1>4, <3>1, <3>2, <3>3
    <3>5. d' = d
      BY <3>1, <3>3 DEF d, DroppedLater
    <3> QED
      BY <1>4, <1>6, <2>1, <3>1, <3>2, <3>3, <3>4, <3>5, Zenon DEF High
  <2>5. CASE PushOverOldest(r)
    <3>1. /\ readings' = Append(Tail(readings), r) /\ dropOldest /\ dropOldest' = dropOldest
          /\ overflowed' = overflowed \cup {Head(readings)}
          /\ size = Capacity
      BY <1>1, <2>5 DEF PushOverOldest, Full
    <3>2. size' = size /\ Head(readings) \in ToSet(readings)
      <4>1. readings # <<>>
        BY <1>1, <3>1
      <4>2. Head(readings) = readings[1] /\ 1 \in DOMAIN readings
        BY <1>2, <4>1
      <4>3. Len(Tail(readings)) = Len(readings) - 1 /\ Tail(readings) \in Seq(Nat)
        BY <1>2, <4>1
      <4>4. Len(readings') = Len(Tail(readings)) + 1
        BY <3>1, <4>3
      <4> QED
        BY <1>1, <4>2, <4>3, <4>4 DEF ToSet
    <3>3. /\ p' = p + 1 /\ stats'.dropped = stats.dropped + 1
          /\ stats'.highWater = stats.highWater
      BY <1>1, <2>5, Zenon DEF PushOverOldest
    <3>4. Cardinality(overflowed') = Cardinality(overflowed) + 1
      BY <1>1, <2>3, <3>1, <3>2, FS_AddElement
    <3>5. d' = d + 1
      BY <3>1, <3>3 DEF d, DroppedLater
    <3>6. stats'.highWater = Capacity /\ size' <= stats'.highWater
      BY <1>1, <1>4, <3>1, <3>2, <3>3
    <3>7. stats'.dropped = Cardinality(overflowed')
      BY <1>4, <3>3, <3>4
    <3> QED
      BY <1>6, <2>1, <3>2, <3>3, <3>5, <3>6, <3>7, Zenon DEF High
  <2>6. CASE PushRefused(r)
    <3>1. /\ readings' = readings /\ ~dropOldest /\ dropOldest' = dropOldest
          /\ overflowed' = overflowed \cup {r}
          /\ size = Capacity
      BY <1>1, <2>6 DEF PushRefused, Full
    <3>2. /\ p' = p /\ stats'.dropped = stats.dropped + 1
          /\ stats'.highWater = stats.highWater
      BY <1>1, <2>6, Zenon DEF PushRefused
    <3>3. Cardinality(overflowed') = Cardinality(overflowed) + 1
      BY <1>1, <2>3, <3>1, FS_AddElement
    <3>4. d' = d /\ size' = size
      BY <3>1 DEF d, DroppedLater
    <3>5. stats'.highWater = Capacity /\ size' <= stats'.highWater
      BY <1>1, <1>4, <3>1, <3>2
    <3>6. stats'.dropped = Cardinality(overflowed')
      BY <1>4, <3>2, <3>3
    <3> QED
      BY <1>4, <2>1, <3>2, <3>4, <3>5, <3>6, Zenon DEF High
  <2> QED
    BY <2>1, <2>4, <2>5, <2>6 DEF Push
<1>11. CASE ReadSensor \/ Publish \/ Receive
  BY <1>8, <1>11 DEF ReadSensor, Publish, Receive, bufferVars, coordVars, outVars
<1>12. CASE SendReturns
  <2>1. /\ sent' = sent \o hand
        /\ UNCHANGED <<inflight, readings, lost, overflowed, dropOldest, stats>>
    BY <1>12 DEF SendReturns, bufferVars
  <2>2. s' = s + Len(hand) /\ Len(hand) \in Nat
    BY <1>2, <2>1, ConcatProperties
  <2>3. High' /\ p' = p /\ d' = d /\ size' = size /\ batch' = batch /\ l' = l
    BY <1>4, <2>1 DEF High, d, DroppedLater
  <2> QED
    BY <1>6, <2>2, <2>3, Zenon
<1>13. CASE DrainPops
  <2>1. /\ inflight = <<>> /\ inflight' = Batch(BatchSize) /\ PopBatch(BatchSize)
        /\ UNCHANGED <<sent, lost, overflowed, dropOldest, stats>>
    BY <1>2, <1>13 DEF DrainPops, PopBatch, Shape, outVars
  <2>2. /\ Batch(BatchSize) \in Seq(Nat) /\ readings' \in Seq(Nat)
        /\ size = Len(Batch(BatchSize)) + Len(readings')
    BY <1>2, <2>1, PopSplits, SensorClientAssumption DEF SensorClientAssumption
  <2>3. batch = 0 /\ batch' \in Nat /\ size' \in Nat /\ size = batch' + size'
    BY <2>1, <2>2
  <2>4. p' = p /\ d' = d /\ l' = l /\ s' = s
    BY <2>1 DEF d, DroppedLater
  <2>5. High'
    <3>1. size' <= stats'.highWater
      BY <1>1, <1>4, <2>1, <2>3
    <3> QED
      BY <1>4, <2>1, <3>1 DEF High
  <2> QED
    BY <1>6, <2>3, <2>4, <2>5, Zenon
<1>14. CASE BatchSent
  <2>1. /\ sent' = sent \o inflight /\ inflight' = <<>>
        /\ UNCHANGED <<readings, lost, overflowed, dropOldest, stats>>
    BY <1>14 DEF BatchSent, bufferVars
  <2>2. s' = s + batch /\ batch' = 0
    BY <1>2, <2>1, ConcatProperties
  <2>3. High' /\ p' = p /\ d' = d /\ size' = size /\ l' = l
    BY <1>4, <2>1 DEF High, d, DroppedLater
  <2> QED
    BY <1>6, <2>2, <2>3, Zenon
<1>15. CASE BatchFails
  <2>1. /\ lost' = lost \cup ToSet(inflight) /\ inflight' = <<>>
        /\ UNCHANGED <<sent, readings, overflowed, dropOldest, stats>>
    BY <1>15 DEF BatchFails, bufferVars
  <2>2. IsFiniteSet(ToSet(inflight)) /\ Cardinality(ToSet(inflight)) = batch
    BY <1>2, BatchCounts DEF Sorted
  <2>3. lost \cap ToSet(inflight) = {}
    BY <1>3 DEF Books
  <2>4. l' = l + batch
    <3>1. Cardinality(lost \cup ToSet(inflight))
            = Cardinality(lost) + Cardinality(ToSet(inflight)) - Cardinality({})
      BY <1>1, <2>2, <2>3, FS_Union
    <3>2. Cardinality({}) = 0
      BY FS_EmptySet
    <3> QED
      BY <1>1, <2>1, <2>2, <3>1, <3>2
  <2>5. batch' = 0
    BY <2>1
  <2>6. High' /\ p' = p /\ d' = d /\ size' = size /\ s' = s
    BY <1>4, <2>1 DEF High, d, DroppedLater
  <2> QED
    BY <1>6, <2>4, <2>5, <2>6, Zenon
<1> QED
  BY <1>9, <1>10, <1>11, <1>12, <1>13, <1>14, <1>15, NextMeans DEF Moves

LEMMA NextInductive ==
  ASSUME IInv, [Next]_vars
  PROVE  IInv'
<1>1. ClientTypeOK' /\ Shape'
  BY NextTypes, NextShape DEF IInv
<1>2. Sorted' /\ Accounts'
  <2>1. CASE Idle \/ UNCHANGED vars
    BY <2>1, IdleMeans DEF IInv, lines, Sorted, Accounts
  <2>2. CASE Pushes
    BY <2>2, PushKeeps
  <2>3. CASE Moves
    BY <2>3, MoveKeeps
  <2> QED
    BY <2>1, <2>2, <2>3, NextMeans
<1>3. StatisticsAgree'
  BY StatisticsKept
<1> QED
  BY <1>1, <1>2, <1>3 DEF IInv

THEOREM Inductive == Spec => []IInv
<1>1. Init => IInv
  BY InitInductive
<1>2. IInv /\ [Next]_vars => IInv'
  BY NextInductive
<1> QED
  BY <1>1, <1>2, PTL DEF Spec

-----------------------------------------------------------------------------
(* The promises.                                                           *)

(* The readings of the pipeline, and of what waits.                         *)
LEMMA PipelineSets ==
  ASSUME ClientTypeOK
  PROVE  /\ ToSet(Pipeline) = ToSet(sent) \cup ToSet(inflight) \cup ToSet(readings) \cup ToSet(hand)
                                 \cup ToSet(published) \cup ToSet(holding)
         /\ ToSet(inflight \o readings \o hand \o published \o holding)
              = ToSet(inflight) \cup ToSet(readings) \cup ToSet(hand) \cup ToSet(published)
                  \cup ToSet(holding)
<1>0. /\ sent \in Seq(Nat) /\ inflight \in Seq(Nat) /\ readings \in Seq(Nat)
      /\ hand \in Seq(Nat) /\ published \in Seq(Nat) /\ holding \in Seq(Nat)
  BY Queues
<1>1. \A s, t \in Seq(Nat) : s \o t \in Seq(Nat) /\ ToSet(s \o t) = ToSet(s) \cup ToSet(t)
  BY ToSetConcat, ConcatProperties
<1>2. /\ sent \o inflight \in Seq(Nat) /\ sent \o inflight \o readings \in Seq(Nat)
      /\ sent \o inflight \o readings \o hand \in Seq(Nat)
      /\ sent \o inflight \o readings \o hand \o published \in Seq(Nat)
      /\ inflight \o readings \in Seq(Nat) /\ inflight \o readings \o hand \in Seq(Nat)
      /\ inflight \o readings \o hand \o published \in Seq(Nat)
  BY <1>0, <1>1, Zenon
<1>3. /\ ToSet(sent \o inflight) = ToSet(sent) \cup ToSet(inflight)
      /\ ToSet(sent \o inflight \o readings) = ToSet(sent \o inflight) \cup ToSet(readings)
      /\ ToSet(sent \o inflight \o readings \o hand)
           = ToSet(sent \o inflight \o readings) \cup ToSet(hand)
      /\ ToSet(sent \o inflight \o readings \o hand \o published)
           = ToSet(sent \o inflight \o readings \o hand) \cup ToSet(published)
      /\ ToSet(sent \o inflight \o readings \o hand \o published \o holding)
           = ToSet(sent \o inflight \o readings \o hand \o published) \cup ToSet(holding)
  BY <1>0, <1>1, <1>2, Zenon
<1>4. /\ ToSet(inflight \o readings) = ToSet(inflight) \cup ToSet(readings)
      /\ ToSet(inflight \o readings \o hand) = ToSet(inflight \o readings) \cup ToSet(hand)
      /\ ToSet(inflight \o readings \o hand \o published)
           = ToSet(inflight \o readings \o hand) \cup ToSet(published)
      /\ ToSet(inflight \o readings \o hand \o published \o holding)
           = ToSet(inflight \o readings \o hand \o published) \cup ToSet(holding)
  BY <1>0, <1>1, <1>2, Zenon
<1> QED
  BY <1>3, <1>4, Zenon DEF Pipeline

(* One more queue behind others.                                            *)
LEMMA OneMore ==
  ASSUME NEW s \in Seq(Nat), NEW t \in Seq(Nat), NEW A,
         Increasing(s), ToSet(s) = A, Increasing(t), Below(A, ToSet(t))
  PROVE  s \o t \in Seq(Nat) /\ Increasing(s \o t) /\ ToSet(s \o t) = A \cup ToSet(t)
BY IncreasingJoin, ToSetConcat, ConcatProperties DEF Below

LEMMA LineIsIncreasing ==
  ASSUME NEW a \in Seq(Nat), NEW b \in Seq(Nat), NEW c \in Seq(Nat), NEW d \in Seq(Nat),
         NEW e \in Seq(Nat), NEW f \in Seq(Nat), NEW L, NEW O, NEW k, NEW n,
         Increasing(a), Increasing(b), Increasing(c), Increasing(d), Increasing(e), Increasing(f),
         Books(ToSet(a), ToSet(b), ToSet(c), ToSet(d), ToSet(e), ToSet(f), L, O, k, n)
  PROVE  Increasing(a \o b \o c \o d \o e \o f)
<1> DEFINE A == ToSet(a)
           B == A \cup ToSet(b)
           C == B \cup ToSet(c)
           D == C \cup ToSet(d)
           E == D \cup ToSet(e)
<1>1. /\ Below(A, ToSet(b)) /\ Below(B, ToSet(c)) /\ Below(C, ToSet(d))
      /\ Below(D, ToSet(e)) /\ Below(E, ToSet(f))
  BY DEF Books, Below
<1>0. B = A \cup ToSet(b) /\ C = B \cup ToSet(c) /\ D = C \cup ToSet(d) /\ E = D \cup ToSet(e)
      /\ ToSet(a) = A
  OBVIOUS
<1> HIDE DEF A, B, C, D, E
<1>2. a \o b \in Seq(Nat) /\ Increasing(a \o b) /\ ToSet(a \o b) = B
  BY <1>0, <1>1, OneMore, Zenon
<1> PICK p \in Seq(Nat) : p = a \o b
  BY <1>2
<1>3. p \o c \in Seq(Nat) /\ Increasing(p \o c) /\ ToSet(p \o c) = C
  <2>1. Increasing(p) /\ ToSet(p) = B
    BY <1>2
  <2> QED
    BY <1>0, <1>1, <2>1, OneMore, Zenon
<1> PICK q \in Seq(Nat) : q = p \o c
  BY <1>3
<1>4. q \o d \in Seq(Nat) /\ Increasing(q \o d) /\ ToSet(q \o d) = D
  <2>1. Increasing(q) /\ ToSet(q) = C
    BY <1>3
  <2> QED
    BY <1>0, <1>1, <2>1, OneMore, Zenon
<1> PICK r \in Seq(Nat) : r = q \o d
  BY <1>4
<1>5. r \o e \in Seq(Nat) /\ Increasing(r \o e) /\ ToSet(r \o e) = E
  <2>1. Increasing(r) /\ ToSet(r) = D
    BY <1>4
  <2> QED
    BY <1>0, <1>1, <2>1, OneMore, Zenon
<1> PICK s \in Seq(Nat) : s = r \o e
  BY <1>5
<1>6. Increasing(s \o f)
  <2>1. Increasing(s) /\ ToSet(s) = E
    BY <1>5
  <2> QED
    BY <1>1, <2>1, OneMore, Zenon
<1> QED
  BY <1>6

LEMMA Promises ==
  IInv => SentInOrder /\ EveryReadingAccountedFor /\ GivesUpTheOldest
<1> SUFFICES ASSUME IInv
             PROVE  SentInOrder /\ EveryReadingAccountedFor /\ GivesUpTheOldest
  OBVIOUS
<1>1. /\ sent \in Seq(Nat) /\ inflight \in Seq(Nat) /\ readings \in Seq(Nat)
      /\ hand \in Seq(Nat) /\ published \in Seq(Nat) /\ holding \in Seq(Nat)
      /\ Sorted
  BY Queues DEF IInv
<1>2. Books(ToSet(sent), ToSet(inflight), ToSet(readings), ToSet(hand), ToSet(published),
            ToSet(holding), lost, overflowed, dropOldest, produced)
  BY DEF IInv, Accounts
<1>3. SentInOrder
  BY <1>1, <1>2, LineIsIncreasing, Zenon DEF SentInOrder, Pipeline, Sorted
<1>4. /\ ToSet(Pipeline) = ToSet(sent) \cup ToSet(inflight) \cup ToSet(readings) \cup ToSet(hand)
                              \cup ToSet(published) \cup ToSet(holding)
      /\ ToSet(inflight \o readings \o hand \o published \o holding)
           = ToSet(inflight) \cup ToSet(readings) \cup ToSet(hand) \cup ToSet(published)
               \cup ToSet(holding)
  BY PipelineSets DEF IInv
<1>5. EveryReadingAccountedFor
  <2>1. StatisticsAgree
    BY DEF IInv
  <2> QED
    BY <1>2, <1>4, <2>1 DEF EveryReadingAccountedFor, Books
<1>6. GivesUpTheOldest
  BY <1>2, <1>4 DEF GivesUpTheOldest, Books, Below
<1> QED
  BY <1>3, <1>5, <1>6

(* Types, for readings without bound.                                       *)
THEOREM TypeCorrect == Spec => []ClientTypeOK
<1>1. IInv => ClientTypeOK
  BY DEF IInv
<1> QED
  BY <1>1, Inductive, PTL

(* Whatever the link, the failed writes and the overflows, readings leave    *)
(* in the order they were measured, none twice.                             *)
THEOREM Order == Spec => []SentInOrder
<1>1. IInv => SentInOrder
  BY Promises
<1> QED
  BY <1>1, Inductive, PTL

(* What is nowhere in the pipeline overflowed or was in a failed batch.      *)
THEOREM Accounting == Spec => []EveryReadingAccountedFor
<1>1. IInv => EveryReadingAccountedFor
  BY Promises
<1> QED
  BY <1>1, Inductive, PTL

(* What is given up is older than everything that still waits.               *)
THEOREM Oldest == Spec => []GivesUpTheOldest
<1>1. IInv => GivesUpTheOldest
  BY Promises
<1> QED
  BY <1>1, Inductive, PTL

=============================================================================
