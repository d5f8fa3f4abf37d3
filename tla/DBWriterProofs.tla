--------------------------- MODULE DBWriterProofs ---------------------------
(***************************************************************************)
(* Theorems about DBWriter for every set of configurations, number of      *)
(* Write calls and number of crashes.                                      *)
(***************************************************************************)
EXTENDS DBWriter, HistoryLemmas

-----------------------------------------------------------------------------
(* The inductive invariant.  The properties of DBWriter are not inductive by *)
(* themselves: that rows stay increasing and disjoint from what is forgotten *)
(* needs the order of all accepted readings, that StatsFollowRows holds      *)
(* needs to know that an outcome is pending only between the transaction and *)
(* its record, and what Stop promises needs the drain's progress.            *)

LoopShape ==
  /\ pc # "record" => insert = NoInsert
  /\ pc = "insert" => batch # <<>>
  /\ pc \in {"record", "done"} => batch = <<>>
  /\ pc \in {"drain", "done"} => draining
  /\ draining => Stopped

StopProgress ==
  /\ Stopped => promised <= Len(accepted)
  /\ draining /\ pc # "drain" => Len(settled) + Len(batch) >= promised
  /\ stopper = "returned" => pc = "done"

ChannelFits == Len(writeChan) <= ChannelSize

IInv ==
  /\ TypeOK
  /\ ChannelFits
  /\ FirstInFirstOut
  /\ Increasing(accepted)
  /\ RowsAccountedFor
  /\ StatsFollowRows
  /\ BatchIsBounded
  /\ LoopShape
  /\ StopProgress

-----------------------------------------------------------------------------
(* The queues and histories hold numbers of readings. *)
LEMMA QueuesOfNumbers ==
  ASSUME TypeOK
  PROVE  /\ offered \in Nat /\ promised \in Nat /\ crashes \in Nat
         /\ BatchSize \in Nat /\ ChannelSize \in Nat
         /\ batch \in Seq(Nat) /\ writeChan \in Seq(Nat) /\ settled \in Seq(Nat)
         /\ accepted \in Seq(Nat) /\ rows \in Seq(Nat)
         /\ Len(batch) \in Nat /\ Len(writeChan) \in Nat /\ Len(settled) \in Nat
         /\ Len(accepted) \in Nat /\ Len(rows) \in Nat
<1>1. /\ offered \in Nat /\ promised \in Nat /\ crashes \in Nat /\ config \in Configs
      /\ batch \in Seq(1..offered) /\ writeChan \in Seq(1..offered)
      /\ settled \in Seq(1..offered) /\ accepted \in Seq(1..offered)
      /\ rows \in Seq(1..offered)
  BY Zenon DEF TypeOK
<1>2. 1..offered \subseteq Nat
  OBVIOUS
<1>3. \A t \in Seq(1..offered) : t \in Seq(Nat)
  BY <1>2, SeqMonotonic, Zenon
<1>4. /\ batch \in Seq(Nat) /\ writeChan \in Seq(Nat) /\ settled \in Seq(Nat)
      /\ accepted \in Seq(Nat) /\ rows \in Seq(Nat)
  BY <1>1, <1>3, Zenon
<1>5. \A t \in Seq(Nat) : Len(t) \in Nat
  BY LenProperties
<1>6. BatchSize \in Nat /\ ChannelSize \in Nat
  BY <1>1, DBWriterAssumption DEF DBWriterAssumption, BatchSize, ChannelSize
<1> QED
  BY <1>1, <1>4, <1>5, <1>6, Zenon

(* Every queue, history and counter keeps its type: no reading is ever in    *)
(* the writer before the Write call that offers it.                          *)

LEMMA InitType == Init => TypeOK
<1> SUFFICES ASSUME Init PROVE TypeOK
  OBVIOUS
<1>1. \A S : <<>> \in Seq(S)
  BY EmptySeq
<1> QED
  BY <1>1 DEF Init, TypeOK, NoInsert, NoStats

LEMMA NextType == TypeOK /\ [Next]_vars => TypeOK'
<1> SUFFICES ASSUME TypeOK, [Next]_vars PROVE TypeOK'
  OBVIOUS
<1> USE DEF TypeOK
<1>1. \A s \in Seq(1..offered) : s \in Seq(1..(offered + 1))
  BY SeqMonotonic
<1>2. CASE Write
  <2>1. /\ offered' = offered + 1 /\ offered' \in Nat
        /\ 1..offered \subseteq 1..offered' /\ offered' \in 1..offered'
    <3>1. offered' = offered + 1
      BY <1>2, Zenon DEF Write, WriteQueued, WriteHandedOver, WriteDropped, Offer
    <3>2. offered \in Nat
      OBVIOUS
    <3> HIDE DEF TypeOK
    <3> QED
      BY <3>1, <3>2
  <2>2. /\ accepted \in Seq(1..offered') /\ writeChan \in Seq(1..offered')
        /\ batch \in Seq(1..offered') /\ rows \in Seq(1..offered')
        /\ settled \in Seq(1..offered') /\ forgotten \subseteq 1..offered'
    BY <2>1, <1>1
  <2>3. /\ Append(accepted, offered') \in Seq(1..offered')
        /\ Append(writeChan, offered') \in Seq(1..offered')
        /\ Append(batch, offered') \in Seq(1..offered')
    BY <2>1, <2>2, AppendProperties
  <2>4. CASE WriteQueued
    BY <2>1, <2>2, <2>3, <2>4 DEF WriteQueued, Offer, loopVars, dbVars
  <2>5. CASE WriteHandedOver
    BY <2>1, <2>2, <2>3, <2>5
       DEF WriteHandedOver, Offer, TakeIntoBatch, loopVars, dbVars
  <2>6. CASE WriteDropped
    BY <2>1, <2>2, <2>6 DEF WriteDropped, Offer, loopVars, dbVars
  <2> QED
    BY <1>2, <2>4, <2>5, <2>6 DEF Write
<1>3. ASSUME writeChan # <<>>
      PROVE  /\ Append(batch, Head(writeChan)) \in Seq(1..offered)
             /\ Tail(writeChan) \in Seq(1..offered)
  BY <1>3, HeadTailProperties, AppendProperties
<1>4. CASE Receive
  BY <1>3, <1>4 DEF Receive, TakeIntoBatch, dbVars
<1>5. CASE FlushTick
  BY <1>5 DEF FlushTick, dbVars
<1>6. CASE SeeStop
  BY <1>6 DEF SeeStop, dbVars
<1>7. CASE DrainOne
  BY <1>3, <1>7 DEF DrainOne, dbVars
<1>8. CASE DrainEnd
  BY <1>8 DEF DrainEnd, dbVars
<1>9. \A S : /\ <<>> \in Seq(S)
             /\ \A s, t \in Seq(S) : s \o t \in Seq(S)
             /\ \A s \in Seq(S) : Len(s) \in Nat
  BY EmptySeq, ConcatProperties, LenProperties
<1>10. /\ ToSet(batch) \subseteq 1..offered
       /\ ToSet(writeChan) \subseteq 1..offered
  BY LenProperties, ElementOfSeq DEF ToSet
<1>11. ASSUME NEW ok \in BOOLEAN, InsertBatch(ok) PROVE TypeOK'
  BY <1>9, <1>10, <1>11 DEF InsertBatch
<1>12. CASE RecordFlush
  <2>1. stats' \in [written : Nat, batches : Nat, errors : Nat]
    <3>1. /\ stats \in [written : Nat, batches : Nat, errors : Nat]
          /\ stats.written + insert.count \in Nat
          /\ stats.batches + 1 \in Nat
          /\ stats.errors + 1 \in Nat
      OBVIOUS
    <3>2. \/ stats' = [stats EXCEPT !.written = @ + insert.count, !.batches = @ + 1]
          \/ stats' = [stats EXCEPT !.errors = @ + 1]
      BY <1>12, Zenon DEF RecordFlush
    <3> HIDE DEF TypeOK
    <3> QED
      BY <3>1, <3>2, Zenon
  <2>2. insert' \in [count : Nat, ok : BOOLEAN]
    BY <1>12 DEF RecordFlush, NoInsert
  <2>3. pc' \in {"select", "insert", "record", "drain", "done"}
    BY <1>12 DEF RecordFlush
  <2> QED
    BY <1>12, <2>1, <2>2, <2>3 DEF RecordFlush, dbVars
<1>13. CASE Stop
  BY <1>9, <1>13 DEF Stop, loopVars, dbVars
<1>14. CASE StopReturn
  BY <1>14 DEF StopReturn, loopVars, dbVars
<1>15. CASE Crash
  <2>1. /\ stats' \in [written : Nat, batches : Nat, errors : Nat]
        /\ insert' \in [count : Nat, ok : BOOLEAN]
    BY <1>15 DEF Crash, NoInsert, NoStats
  <2>2. /\ settled' \in Seq(1..offered)
        /\ forgotten' \subseteq 1..offered
        /\ writeChan' \in Seq(1..offered) /\ batch' \in Seq(1..offered)
    BY <1>9, <1>10, <1>15 DEF Crash
  <2>3. /\ config' \in Configs /\ crashes' \in Nat /\ promised' \in Nat /\ UNCHANGED <<rows, offered, accepted>>
        /\ pc' = "select" /\ draining' = FALSE /\ stopper' = "idle"
    BY <1>15 DEF Crash
  <2> QED
    BY <2>1, <2>2, <2>3
<1>16. CASE UNCHANGED vars
  BY <1>16 DEF vars, loopVars, dbVars
<1> QED
  BY <1>2, <1>4, <1>5, <1>6, <1>7, <1>8, <1>11, <1>12, <1>13, <1>14, <1>15, <1>16
     DEF Next, WriterLoop

(* The type invariant holds in every state.                                  *)
THEOREM TypeCorrect == Spec => []TypeOK
BY InitType, NextType, PTL DEF Spec

-----------------------------------------------------------------------------
(* How the queues move.  A Write adds to the end of the accepted readings, a *)
(* flush or a crash moves readings from the writer to the settled ones, and  *)
(* every other step leaves the whole and the history alone.                  *)

Accepts == accepted' = Append(accepted, offered') /\ offered' = offered + 1

LEMMA QueueMoves ==
  ASSUME TypeOK, FirstInFirstOut, ChannelFits, [Next]_vars
  PROVE  /\ FirstInFirstOut'
         /\ ChannelFits'
         /\ accepted' = accepted \/ Accepts
<1> USE DEF FirstInFirstOut, ChannelFits
<1>1. /\ batch \in Seq(Nat) /\ writeChan \in Seq(Nat) /\ settled \in Seq(Nat)
      /\ offered \in Nat
      /\ Len(writeChan) \in Nat
      /\ ChannelSize \in Nat
  BY QueuesOfNumbers, Zenon
<1> DEFINE SameConfig == ChannelSize' = ChannelSize
<1>2. CASE WriteQueued
  <2>1. /\ accepted' = Append(accepted, offered') /\ writeChan' = Append(writeChan, offered')
        /\ offered' = offered + 1 /\ settled' = settled /\ batch' = batch
        /\ Len(writeChan) < ChannelSize /\ SameConfig
    BY <1>2 DEF WriteQueued, Offer, loopVars, dbVars, ChannelSize
  <2>2. offered' \in Nat
    BY <1>1, <2>1
  <2>3. Len(writeChan') = Len(writeChan) + 1
    BY <1>1, <2>1, <2>2, AppendProperties
  <2>4. Len(writeChan') <= ChannelSize'
    BY <1>1, <2>1, <2>3
  <2>5. (settled \o batch) \o Append(writeChan, offered')
          = Append(settled \o batch \o writeChan, offered')
    BY <1>1, ThreeQueues, <2>2, Zenon
  <2> QED
    BY <2>1, <2>4, <2>5, Zenon DEF Accepts
<1>3. CASE WriteHandedOver
  <2>1. /\ accepted' = Append(accepted, offered') /\ batch' = Append(batch, offered')
        /\ offered' = offered + 1 /\ settled' = settled /\ writeChan' = writeChan
        /\ ChannelSize = 0 /\ SameConfig
    BY <1>3 DEF WriteHandedOver, TakeIntoBatch, Offer, loopVars, dbVars, ChannelSize
  <2>2. offered' \in Nat
    BY <1>1, <2>1
  <2>3. writeChan = <<>>
    BY <1>1, <2>1, EmptySeq
  <2>4. settled \o Append(batch, offered') \o <<>> = Append(settled \o batch \o <<>>, offered')
    BY <1>1, ThreeQueues, <2>2, EmptySeq, Zenon
  <2> QED
    BY <2>1, <2>3, <2>4, Zenon DEF Accepts
<1>4. ASSUME batch' = Append(batch, Head(writeChan)), writeChan' = Tail(writeChan),
             writeChan # <<>>, UNCHANGED <<accepted, settled>>, SameConfig
      PROVE  FirstInFirstOut' /\ ChannelFits' /\ accepted' = accepted
  <2>1. Len(writeChan') <= ChannelSize'
    BY <1>1, <1>4, HeadTailProperties
  <2>2. settled \o Append(batch, Head(writeChan)) \o Tail(writeChan)
          = settled \o batch \o writeChan
    BY <1>1, ThreeQueues, <1>4, Zenon
  <2> QED
    BY <1>4, <2>1, <2>2, Zenon
<1>5. CASE Receive
  BY <1>4, <1>5 DEF Receive, TakeIntoBatch, dbVars, ChannelSize
<1>6. CASE DrainOne
  BY <1>4, <1>6 DEF DrainOne, dbVars, ChannelSize
<1>7. ASSUME UNCHANGED <<writeChan, batch, settled, accepted>>, SameConfig
      PROVE  FirstInFirstOut' /\ ChannelFits' /\ accepted' = accepted
  BY <1>7, Zenon
<1>8. CASE WriteDropped \/ FlushTick \/ SeeStop \/ DrainEnd \/ RecordFlush
           \/ Stop \/ StopReturn \/ UNCHANGED vars
  BY <1>7, <1>8, Zenon DEF WriteDropped, FlushTick, SeeStop, DrainEnd, RecordFlush, Stop,
                    StopReturn, vars, loopVars, dbVars, ChannelSize
<1>9. ASSUME NEW ok \in BOOLEAN, InsertBatch(ok)
       PROVE  FirstInFirstOut' /\ ChannelFits' /\ accepted' = accepted
  <2>1. /\ settled' = settled \o batch /\ batch' = <<>>
        /\ UNCHANGED <<writeChan, accepted>> /\ SameConfig
    BY <1>9 DEF InsertBatch, ChannelSize
  <2>2. (settled \o batch) \o <<>> \o writeChan = settled \o batch \o writeChan
    BY <1>1, ThreeQueues, Zenon
  <2> QED
    BY <2>1, <2>2, Zenon
<1>10. CASE Crash
  <2>1. /\ settled' = settled \o batch \o writeChan /\ batch' = <<>> /\ writeChan' = <<>>
        /\ accepted' = accepted /\ config' \in Configs
    BY <1>10 DEF Crash
  <2>2. (settled \o batch \o writeChan) \o <<>> \o <<>> = settled \o batch \o writeChan
    BY <1>1, ThreeQueues, Zenon
  <2>3. Len(writeChan') <= ChannelSize'
    BY <2>1, EmptySeq, DBWriterAssumption DEF DBWriterAssumption, ChannelSize
  <2> QED
    BY <2>1, <2>2, <2>3, Zenon
<1> QED
  BY <1>2, <1>3, <1>5, <1>6, <1>8, <1>9, <1>10 DEF Next, Write, WriterLoop

-----------------------------------------------------------------------------
(* The accepted readings stay in the order of their Write calls.             *)
LEMMA AcceptedStaysIncreasing ==
  ASSUME TypeOK, Increasing(accepted), accepted' = accepted \/ Accepts
  PROVE  Increasing(accepted)'
<1>1. CASE accepted' = accepted
  BY <1>1 DEF Increasing
<1>2. CASE Accepts
  <2>1. Increasing(Append(accepted, offered + 1))
    BY IncreasingAppend DEF TypeOK
  <2>2. accepted' = Append(accepted, offered + 1)
    BY <1>2 DEF Accepts
  <2> QED
    BY <2>1, <2>2 DEF Increasing
<1> QED
  BY <1>1, <1>2

(* Readings that are settled, in the batch and in the channel are different  *)
(* readings, because accepted is increasing.                                 *)
LEMMA PlacesAreDisjoint ==
  ASSUME TypeOK, FirstInFirstOut, Increasing(accepted)
  PROVE  /\ Increasing(batch)
         /\ \A x \in ToSet(settled), y \in ToSet(batch) : x < y
         /\ \A x \in ToSet(settled), y \in ToSet(writeChan) : x < y
         /\ ToSet(settled) \subseteq Nat
         /\ ToSet(settled \o batch) = ToSet(settled) \cup ToSet(batch)
         /\ ToSet(settled \o batch \o writeChan)
              = ToSet(settled) \cup ToSet(batch) \cup ToSet(writeChan)
<1>1. batch \in Seq(Nat) /\ writeChan \in Seq(Nat) /\ settled \in Seq(Nat)
  BY QueuesOfNumbers, Zenon
<1>2. settled \o batch \in Seq(Nat)
  BY <1>1, ConcatProperties
<1>3. /\ Increasing(settled \o batch)
      /\ \A x \in ToSet(settled \o batch), y \in ToSet(writeChan) : x < y
  <2>1. Increasing((settled \o batch) \o writeChan)
    BY DEF FirstInFirstOut
  <2> QED
    BY <1>1, <1>2, <2>1, IncreasingSplit
<1>4. /\ Increasing(batch)
      /\ \A x \in ToSet(settled), y \in ToSet(batch) : x < y
  BY <1>1, <1>3, IncreasingSplit
<1>5. ToSet(settled \o batch) = ToSet(settled) \cup ToSet(batch)
  BY <1>1, ToSetConcat
<1>6. ToSet(settled \o batch \o writeChan) = ToSet(settled \o batch) \cup ToSet(writeChan)
  <2>1. ASSUME NEW a \in Seq(Nat), NEW b \in Seq(Nat)
        PROVE  ToSet(a \o b) = ToSet(a) \cup ToSet(b)
    BY ToSetConcat, Zenon
  <2> QED
    BY <1>1, <1>2, <2>1, Zenon
<1>7. ToSet(settled) \subseteq Nat
  BY <1>1, LenProperties, ElementOfSeq DEF ToSet
<1> QED
  BY <1>3, <1>4, <1>5, <1>6, <1>7

(* Only a flush and a crash touch the table and the settled readings.        *)
DBUnchanged == UNCHANGED <<rows, settled, forgotten>>

LEMMA StepsOnTheTable ==
  ASSUME [Next]_vars
  PROVE  DBUnchanged \/ (\E ok \in BOOLEAN : InsertBatch(ok)) \/ Crash
BY Zenon DEF DBUnchanged, Next, Write, WriterLoop, WriteQueued, WriteHandedOver, WriteDropped,
       Receive, FlushTick, SeeStop, DrainOne, DrainEnd, RecordFlush, Stop, StopReturn,
       vars, dbVars

LEMMA RowsStayAccountedFor ==
  ASSUME TypeOK, FirstInFirstOut, Increasing(accepted), RowsAccountedFor, [Next]_vars
  PROVE  RowsAccountedFor'
<1> USE DEF RowsAccountedFor
<1>1. /\ Increasing(batch)
      /\ \A x \in ToSet(settled), y \in ToSet(batch) : x < y
      /\ \A x \in ToSet(settled), y \in ToSet(writeChan) : x < y
      /\ ToSet(settled) \subseteq Nat
      /\ ToSet(settled \o batch) = ToSet(settled) \cup ToSet(batch)
      /\ ToSet(settled \o batch \o writeChan)
           = ToSet(settled) \cup ToSet(batch) \cup ToSet(writeChan)
  BY PlacesAreDisjoint
<1>2. rows \in Seq(Nat) /\ batch \in Seq(Nat)
  BY QueuesOfNumbers, Zenon
<1>3. /\ ToSet(rows) \subseteq ToSet(settled)
      /\ forgotten \subseteq ToSet(settled)
  OBVIOUS
<1>4. ToSet(settled) \cap ToSet(batch) = {} /\ ToSet(settled) \cap ToSet(writeChan) = {}
  BY <1>1
<1>5. CASE DBUnchanged
  BY <1>5 DEF DBUnchanged, Increasing, ToSet
<1>6. ASSUME InsertBatch(TRUE) PROVE RowsAccountedFor'
  <2>1. rows' = rows \o batch /\ settled' = settled \o batch /\ forgotten' = forgotten
    BY <1>6 DEF InsertBatch
  <2>2. Increasing(rows \o batch)
    BY <1>1, <1>2, <1>3, IncreasingJoin
  <2>3. ToSet(rows \o batch) = ToSet(rows) \cup ToSet(batch)
    BY <1>2, ToSetConcat
  <2>4. Increasing(rows')
    BY <2>1, <2>2
  <2>5. ToSet(rows') \cup forgotten' = ToSet(settled') /\ ToSet(rows') \cap forgotten' = {}
    BY <1>1, <1>3, <1>4, <2>1, <2>3
  <2> QED
    BY <2>4, <2>5
<1>7. ASSUME InsertBatch(FALSE) PROVE RowsAccountedFor'
  <2>1. rows' = rows /\ settled' = settled \o batch /\ forgotten' = forgotten \cup ToSet(batch)
    BY <1>7 DEF InsertBatch
  <2>2. Increasing(rows')
    BY <2>1
  <2>3. ToSet(rows') \cup forgotten' = ToSet(settled') /\ ToSet(rows') \cap forgotten' = {}
    BY <1>1, <1>3, <1>4, <2>1
  <2> QED
    BY <2>2, <2>3
<1>8. CASE Crash
  <2>1. /\ rows' = rows /\ settled' = settled \o batch \o writeChan
        /\ forgotten' = forgotten \cup ToSet(batch) \cup ToSet(writeChan)
    BY <1>8 DEF Crash
  <2>2. Increasing(rows')
    BY <2>1
  <2>3. ToSet(rows') \cup forgotten' = ToSet(settled') /\ ToSet(rows') \cap forgotten' = {}
    BY <1>1, <1>3, <1>4, <2>1
  <2> QED
    BY <2>2, <2>3
<1> QED
  BY <1>5, <1>6, <1>7, <1>8, StepsOnTheTable

(* The counters follow the table: a transaction leaves its outcome pending,  *)
(* and only RecordFlush moves a pending outcome into the counters.           *)
LEMMA StatsKeepFollowing ==
  ASSUME TypeOK, LoopShape, StatsFollowRows, [Next]_vars
  PROVE  StatsFollowRows'
<1>1. /\ rows \in Seq(Nat) /\ batch \in Seq(Nat) /\ crashes \in Nat
      /\ Len(rows) \in Nat /\ Len(batch) \in Nat
      /\ stats \in [written : Nat, batches : Nat, errors : Nat]
      /\ insert.count \in Nat /\ insert.ok \in BOOLEAN
  <2>1. /\ stats \in [written : Nat, batches : Nat, errors : Nat]
        /\ insert \in [count : Nat, ok : BOOLEAN]
    BY Zenon DEF TypeOK
  <2> QED
    BY <2>1, QueuesOfNumbers
<1>2. CASE UNCHANGED <<rows, stats, insert, crashes>>
  BY <1>2 DEF StatsFollowRows
<1>3. ASSUME NEW ok \in BOOLEAN, InsertBatch(ok) PROVE StatsFollowRows'
  <2>1. /\ insert = NoInsert /\ insert' = [count |-> Len(batch), ok |-> ok]
        /\ rows' = IF ok THEN rows \o batch ELSE rows
        /\ UNCHANGED <<stats, crashes>>
    BY <1>3 DEF InsertBatch, LoopShape
  <2>2. Len(rows \o batch) = Len(rows) + Len(batch)
    BY <1>1, ConcatProperties
  <2>3. crashes = 0 => Len(rows) = stats.written
    BY <1>1, <2>1 DEF StatsFollowRows, NoInsert
  <2>4. insert'.count = Len(batch) /\ insert'.ok = ok
    BY <2>1
  <2>5. Len(rows') = Len(rows) + (IF ok THEN Len(batch) ELSE 0)
    BY <1>1, <2>1, <2>2
  <2> QED
    BY <1>1, <2>1, <2>3, <2>4, <2>5 DEF StatsFollowRows
<1>4. CASE RecordFlush
  <2>1. UNCHANGED <<rows, crashes>> /\ insert' = NoInsert
    BY <1>4 DEF RecordFlush, dbVars
  <2>2. stats'.written = stats.written + (IF insert.ok THEN insert.count ELSE 0)
    <3>1. CASE insert.ok
      <4>1. stats' = [stats EXCEPT !.written = @ + insert.count, !.batches = @ + 1]
        BY <1>4, <3>1 DEF RecordFlush
      <4>2. stats'.written = stats.written + insert.count
        BY <1>1, <4>1, Zenon
      <4> QED
        BY <3>1, <4>2
    <3>2. CASE ~insert.ok
      <4>1. stats' = [stats EXCEPT !.errors = @ + 1]
        BY <1>4, <3>2 DEF RecordFlush
      <4>2. stats'.written = stats.written
        BY <1>1, <4>1, Zenon
      <4> QED
        BY <1>1, <3>2, <4>2
    <3> QED
      BY <3>1, <3>2
  <2>3. stats'.written + (IF insert'.ok THEN insert'.count ELSE 0) = stats'.written
    BY <1>1, <2>1, <2>2 DEF NoInsert
  <2> QED
    BY <2>1, <2>2, <2>3 DEF StatsFollowRows
<1>5. CASE Crash
  BY <1>1, <1>5 DEF Crash, StatsFollowRows
<1>6. \/ UNCHANGED <<rows, stats, insert, crashes>>
      \/ \E ok \in BOOLEAN : InsertBatch(ok)
      \/ RecordFlush
      \/ Crash
  BY Zenon DEF Next, Write, WriterLoop, WriteQueued, WriteHandedOver, WriteDropped, Receive,
       TakeIntoBatch, FlushTick, SeeStop, DrainOne, DrainEnd, Stop, StopReturn,
       vars, loopVars, dbVars
<1> QED
  BY <1>2, <1>3, <1>4, <1>5, <1>6

(* Where writerLoop is decides what its slice and its pending outcome are.   *)
LEMMA LoopKeepsShape ==
  ASSUME TypeOK, LoopShape, [Next]_vars
  PROVE  LoopShape'
<1> USE DEF LoopShape, Stopped
<1>1. ASSUME NEW r PROVE Append(batch, r) # <<>>
  <2>1. batch \in Seq((1..offered) \cup {r})
    <3>1. batch \in Seq(1..offered)
      BY DEF TypeOK
    <3> QED
      BY <3>1, SeqMonotonic
  <2> QED
    BY <2>1, AppendProperties
<1>2. CASE Write
  BY <1>2, <1>1 DEF Write, WriteQueued, WriteHandedOver, WriteDropped, TakeIntoBatch, loopVars
<1>3. CASE Receive
  BY <1>3, <1>1 DEF Receive, TakeIntoBatch
<1>4. CASE FlushTick
  BY <1>4 DEF FlushTick
<1>5. CASE SeeStop
  BY <1>5 DEF SeeStop
<1>6. CASE DrainOne
  BY <1>6 DEF DrainOne
<1>7. CASE DrainEnd
  BY <1>7 DEF DrainEnd
<1>8. ASSUME NEW ok \in BOOLEAN, InsertBatch(ok) PROVE LoopShape'
  BY <1>8 DEF InsertBatch
<1>9. CASE RecordFlush
  BY <1>9 DEF RecordFlush
<1>10. CASE Stop
  BY <1>10 DEF Stop, loopVars
<1>11. CASE StopReturn
  BY <1>11 DEF StopReturn, loopVars
<1>12. CASE Crash
  BY <1>12 DEF Crash
<1>13. CASE UNCHANGED vars
  BY <1>13 DEF vars, loopVars
<1> QED
  BY <1>2, <1>3, <1>4, <1>5, <1>6, <1>7, <1>8, <1>9, <1>10, <1>11, <1>12, <1>13
     DEF Next, WriterLoop

(* The loop comes back to its select with a batch that is below the limit,   *)
(* because whoever fills the batch goes to the flush.                        *)
LEMMA BatchStaysBounded ==
  ASSUME TypeOK, LoopShape, BatchIsBounded, [Next]_vars
  PROVE  BatchIsBounded'
<1> USE DEF BatchIsBounded, BatchSize
<1>1. Len(<<>>) = 0
  OBVIOUS
<1>2. ASSUME UNCHANGED <<batch, config>>, pc' = pc \/ pc' # "select" PROVE BatchIsBounded'
  BY <1>2
<1>3. ASSUME NEW r, TakeIntoBatch(r), config' = config PROVE BatchIsBounded'
  <2>1. /\ Len(batch') \in Nat
        /\ BatchSize \in Nat
        /\ pc' = IF Len(batch') >= BatchSize THEN "insert" ELSE "select"
    <3>1. batch \in Seq((1..offered) \cup {r})
      <4>1. batch \in Seq(1..offered)
        BY DEF TypeOK
      <4> QED
        BY <4>1, SeqMonotonic
    <3>2. Len(Append(batch, r)) \in Nat
      BY <3>1, AppendProperties, LenProperties
    <3>3. config.batchSize \in Nat
      BY DBWriterAssumption DEF TypeOK, DBWriterAssumption
    <3> QED
      BY <1>3, <3>2, <3>3 DEF TakeIntoBatch
  <2> QED
    BY <1>3, <2>1
<1>4. CASE Write
  BY <1>2, <1>3, <1>4 DEF Write, WriteQueued, WriteHandedOver, WriteDropped, loopVars
<1>5. CASE Receive
  BY <1>3, <1>5 DEF Receive
<1>6. CASE FlushTick \/ SeeStop \/ DrainEnd \/ Stop \/ StopReturn \/ UNCHANGED vars
  BY <1>2, <1>6 DEF FlushTick, SeeStop, DrainEnd, Stop, StopReturn, vars, loopVars
<1>7. CASE DrainOne
  BY <1>7 DEF DrainOne
<1>8. ASSUME NEW ok \in BOOLEAN, InsertBatch(ok) PROVE BatchIsBounded'
  BY <1>8 DEF InsertBatch
<1>9. CASE RecordFlush
  <2>1. batch' = <<>>
    BY <1>9 DEF RecordFlush, LoopShape
  <2> QED
    BY <1>1, <2>1
<1>10. CASE Crash
  <2>1. batch' = <<>>
    BY <1>10 DEF Crash
  <2> QED
    BY <1>1, <2>1
<1> QED
  BY <1>4, <1>5, <1>6, <1>7, <1>8, <1>9, <1>10 DEF Next, WriterLoop

(* Once the drain has found the channel empty, everything accepted before    *)
(* Stop is in the batch or settled, and stays so.                            *)
LEMMA StopKeepsItsPromise ==
  ASSUME TypeOK, FirstInFirstOut, LoopShape, StopProgress, [Next]_vars,
         accepted' = accepted \/ Accepts
  PROVE  StopProgress'
<1> USE DEF StopProgress, Stopped
<1>1. /\ batch \in Seq(Nat) /\ writeChan \in Seq(Nat) /\ settled \in Seq(Nat)
      /\ accepted \in Seq(Nat) /\ offered \in Nat /\ promised \in Nat
      /\ Len(batch) \in Nat /\ Len(settled) \in Nat /\ Len(accepted) \in Nat
      /\ Len(writeChan) \in Nat
  BY QueuesOfNumbers, Zenon
<1>2. Len(accepted') \in Nat /\ Len(accepted') >= Len(accepted)
  BY <1>1, AppendProperties DEF Accepts
<1>3. ASSUME UNCHANGED <<batch, settled, stopper, promised, draining>>,
             pc' = pc \/ (~draining /\ pc' # "done" /\ pc # "done")
                     \/ (pc # "drain" /\ pc # "done")
      PROVE  StopProgress'
  BY <1>1, <1>2, <1>3
<1>4. ASSUME NEW r \in Nat, pc # "done" PROVE Len(Append(batch, r)) = Len(batch) + 1
  BY <1>1, AppendProperties
<1>5. CASE WriteQueued
  BY <1>3, <1>5 DEF WriteQueued, loopVars, dbVars
<1>6. CASE WriteHandedOver
  <2>1. /\ UNCHANGED <<settled, stopper, promised, draining>> /\ ~draining
        /\ pc' # "done" /\ pc # "done"
    BY <1>6 DEF WriteHandedOver, TakeIntoBatch, loopVars, dbVars, LoopShape
  <2> QED
    BY <1>1, <1>2, <2>1
<1>7. CASE WriteDropped
  BY <1>3, <1>7 DEF WriteDropped, loopVars, dbVars
<1>8. CASE Receive
  <2>1. /\ batch' = Append(batch, Head(writeChan)) /\ writeChan # <<>> /\ pc = "select"
        /\ UNCHANGED <<settled, stopper, promised, draining>>
    BY <1>8 DEF Receive, TakeIntoBatch, dbVars
  <2>2. Len(batch') = Len(batch) + 1
    BY <1>1, <1>4, <2>1, HeadTailProperties
  <2> QED
    BY <1>1, <1>2, <2>1, <2>2
<1>9. CASE FlushTick
  BY <1>3, <1>9 DEF FlushTick, dbVars
<1>10. CASE SeeStop
  BY <1>1, <1>2, <1>10 DEF SeeStop, dbVars
<1>11. CASE DrainOne
  BY <1>1, <1>2, <1>11 DEF DrainOne, dbVars
<1>12. CASE DrainEnd
  <2>1. /\ pc = "drain" /\ writeChan = <<>> /\ pc' \in {"insert", "done"}
        /\ UNCHANGED <<batch, settled, stopper, promised, draining, accepted>>
    BY <1>12 DEF DrainEnd, dbVars
  <2>2. Len(accepted) = Len(settled) + Len(batch)
    BY <1>1, <2>1, ConcatProperties, EmptySeq DEF FirstInFirstOut
  <2> QED
    BY <1>1, <2>1, <2>2 DEF LoopShape
<1>13. ASSUME NEW ok \in BOOLEAN, InsertBatch(ok) PROVE StopProgress'
  <2>1. /\ pc = "insert" /\ settled' = settled \o batch /\ batch' = <<>> /\ pc' = "record"
        /\ UNCHANGED <<stopper, promised, draining, accepted>>
    BY <1>13 DEF InsertBatch
  <2>2. Len(settled') = Len(settled) + Len(batch) /\ Len(batch') = 0
    BY <1>1, <2>1, ConcatProperties, EmptySeq
  <2> QED
    BY <1>1, <2>1, <2>2
<1>14. CASE RecordFlush
  BY <1>1, <1>14 DEF RecordFlush, dbVars
<1>15. CASE Stop
  BY <1>1, <1>15 DEF Stop, loopVars, dbVars, LoopShape
<1>16. CASE StopReturn
  BY <1>1, <1>16 DEF StopReturn, loopVars, dbVars, LoopShape
<1>17. CASE Crash
  BY <1>17 DEF Crash
<1>18. CASE UNCHANGED vars
  BY <1>3, <1>18 DEF vars, loopVars, dbVars
<1> QED
  BY <1>5, <1>6, <1>7, <1>8, <1>9, <1>10, <1>11, <1>12, <1>13, <1>14, <1>15, <1>16,
     <1>17, <1>18 DEF Next, Write, WriterLoop

-----------------------------------------------------------------------------
(* The inductive invariant holds in every state of every behaviour.          *)
THEOREM Inductive == Spec => []IInv
<1>1. Init => IInv
  <2> SUFFICES ASSUME Init PROVE IInv
    OBVIOUS
  <2>1. TypeOK
    BY InitType
  <2>2. /\ writeChan = <<>> /\ batch = <<>> /\ settled = <<>> /\ accepted = <<>> /\ rows = <<>>
        /\ <<>> \in Seq(Nat) /\ Len(<<>>) = 0 /\ DOMAIN <<>> = {}
    BY EmptySeq, LenProperties DEF Init
  <2>3. FirstInFirstOut
    BY <2>2, ConcatEmptySeq, Zenon DEF FirstInFirstOut
  <2>4. ChannelFits
    BY <2>2, DBWriterAssumption DEF Init, ChannelFits, DBWriterAssumption, ChannelSize
  <2>5. Increasing(accepted) /\ RowsAccountedFor
    BY <2>2 DEF Init, Increasing, RowsAccountedFor, ToSet
  <2>6. StatsFollowRows
    BY <2>2 DEF Init, StatsFollowRows, NoStats, NoInsert
  <2>7. LoopShape /\ StopProgress
    BY DEF Init, LoopShape, StopProgress, Stopped
  <2>8. BatchIsBounded
    BY <2>2 DEF BatchIsBounded
  <2> QED
    BY <2>1, <2>3, <2>4, <2>5, <2>6, <2>7, <2>8 DEF IInv
<1>2. IInv /\ [Next]_vars => IInv'
  BY NextType, QueueMoves, AcceptedStaysIncreasing, RowsStayAccountedFor,
     StatsKeepFollowing, LoopKeepsShape, BatchStaysBounded, StopKeepsItsPromise DEF IInv
<1> QED
  BY <1>1, <1>2, PTL DEF Spec

(* Accepted readings are flushed first in, first out, and none is skipped,   *)
(* repeated or overtaken.                                                    *)
THEOREM InOrder == Spec => []FirstInFirstOut
<1>1. IInv => FirstInFirstOut
  BY DEF IInv
<1> QED
  BY <1>1, Inductive, PTL

(* The table is exactly the settled readings that no failed transaction and  *)
(* no crash took, each once and in order.                                    *)
THEOREM RowsCorrect == Spec => []RowsAccountedFor
<1>1. IInv => RowsAccountedFor
  BY DEF IInv
<1> QED
  BY <1>1, Inductive, PTL

(* The counters never run ahead of the table and are at most the pending     *)
(* batch behind.                                                             *)
THEOREM StatsCorrect == Spec => []StatsFollowRows
<1>1. IInv => StatsFollowRows
  BY DEF IInv
<1> QED
  BY <1>1, Inductive, PTL

(* The loop never waits with a full batch, however ticks, writes and Stop    *)
(* interleave; with the size unset it never waits with a reading in hand.    *)
THEOREM BatchBounded == Spec => []BatchIsBounded
<1>1. IInv => BatchIsBounded
  BY DEF IInv
<1> QED
  BY <1>1, Inductive, PTL

(* When Stop has returned, what was accepted before the call is settled.     *)
THEOREM StopCorrect == Spec => []StopSettlesThePast
<1>1. IInv => StopSettlesThePast
  <2> SUFFICES ASSUME IInv, stopper = "returned" PROVE Len(settled) >= promised
    BY DEF StopSettlesThePast
  <2>1. batch = <<>> /\ Len(settled) + Len(batch) >= promised
    BY DEF IInv, LoopShape, StopProgress
  <2>2. Len(settled) \in Nat /\ Len(batch) = 0
    BY <2>1, LenProperties, EmptySeq DEF IInv, TypeOK
  <2> QED
    BY <2>1, <2>2
<1> QED
  BY <1>1, Inductive, PTL

-----------------------------------------------------------------------------
(* The writer implements ReadingLog: accepting adds to the line, moving a    *)
(* reading from the channel to the batch changes nothing, a transaction      *)
(* commits or loses the batch, and a crash loses the whole line.             *)
THEOREM Refinement == Spec => ImplementsLog
<1>1. Init => Log!Init
  BY EmptySeq, ConcatEmptySeq DEF Init, Log!Init
<1>2. IInv /\ [Next]_vars => [Log!Next]_(Log!vars)
  <2> SUFFICES ASSUME IInv, [Next]_vars PROVE [Log!Next]_(Log!vars)
    OBVIOUS
  <2> DEFINE line == batch \o writeChan
  <2>1. /\ batch \in Seq(Nat) /\ writeChan \in Seq(Nat) /\ offered \in Nat
        /\ Len(batch) \in Nat /\ Len(line) \in Nat /\ Len(batch) <= Len(line)
        /\ SubSeq(line, 1, Len(batch)) = batch
        /\ SubSeq(line, Len(batch) + 1, Len(line)) = writeChan
    <3>1. /\ batch \in Seq(Nat) /\ writeChan \in Seq(Nat) /\ offered \in Nat
      BY QueuesOfNumbers DEF IInv
    <3> QED
      BY <3>1, SplitLine
  <2>2. ASSUME UNCHANGED <<offered, rows>>, line' = line PROVE UNCHANGED Log!vars
    BY <2>2 DEF Log!vars
  <2>3. CASE WriteQueued
    <3>1. /\ offered' = offered + 1 /\ rows' = rows
          /\ batch' = batch /\ writeChan' = Append(writeChan, offered')
      BY <2>3 DEF WriteQueued, Offer, loopVars, dbVars
    <3>2. offered' \in Nat
      BY <2>1, <3>1
    <3>3. batch \o Append(writeChan, offered') = Append(line, offered')
      BY <2>1, <3>2, TwoQueues, Zenon
    <3>4. Log!Accept
      BY <3>1, <3>3 DEF Log!Accept
    <3> QED
      BY <3>4 DEF Log!Next
  <2>4. CASE WriteHandedOver
    <3>1. /\ offered' = offered + 1 /\ rows' = rows /\ ChannelSize = 0
          /\ batch' = Append(batch, offered') /\ writeChan' = writeChan
      BY <2>4 DEF WriteHandedOver, TakeIntoBatch, Offer, loopVars, dbVars
    <3>2. offered' \in Nat
      BY <2>1, <3>1
    <3>3. writeChan = <<>>
      BY <2>1, <3>1, EmptySeq DEF IInv, ChannelFits
    <3>4. Append(batch, offered') \o <<>> = Append(batch \o <<>>, offered')
      BY <2>1, <3>2, TwoQueues, Zenon
    <3>5. Log!Accept
      BY <3>1, <3>3, <3>4 DEF Log!Accept
    <3> QED
      BY <3>5 DEF Log!Next
  <2>5. CASE WriteDropped
    <3>1. Log!Refuse
      BY <2>5 DEF WriteDropped, Offer, loopVars, dbVars, Log!Refuse
    <3> QED
      BY <3>1 DEF Log!Next
  <2>6. ASSUME batch' = Append(batch, Head(writeChan)), writeChan' = Tail(writeChan),
               writeChan # <<>>, UNCHANGED <<offered, rows>>
        PROVE  UNCHANGED Log!vars
    <3>1. Append(batch, Head(writeChan)) \o Tail(writeChan) = line
      BY <2>1, <2>6, HeadMovesForward, Zenon
    <3> QED
      BY <2>2, <2>6, <3>1
  <2>7. CASE Receive
    BY <2>6, <2>7 DEF Receive, TakeIntoBatch, dbVars
  <2>8. CASE DrainOne
    BY <2>6, <2>8 DEF DrainOne, dbVars
  <2>9. CASE FlushTick \/ SeeStop \/ DrainEnd \/ RecordFlush \/ Stop \/ StopReturn
             \/ UNCHANGED vars
    <3>1. UNCHANGED <<offered, rows, batch, writeChan>>
      BY <2>9, Zenon DEF FlushTick, SeeStop, DrainEnd, RecordFlush, Stop, StopReturn, vars,
                    loopVars, dbVars
    <3> QED
      BY <2>2, <3>1
  <2>10. ASSUME NEW ok \in BOOLEAN, InsertBatch(ok) PROVE Log!Next
    <3>1. /\ pc = "insert" /\ batch' = <<>> /\ UNCHANGED <<offered, writeChan>>
          /\ rows' = IF ok THEN rows \o batch ELSE rows
      BY <2>10 DEF InsertBatch
    <3>2. Len(batch) \in 1..Len(line)
      BY <2>1, <3>1, EmptySeq DEF IInv, LoopShape
    <3>3. batch' \o writeChan' = writeChan
      BY <2>1, <3>1, ConcatEmptySeq, Zenon
    <3>4. CASE ok
      BY <2>1, <3>1, <3>2, <3>3, <3>4 DEF Log!Next, Log!Commit
    <3>5. CASE ~ok
      BY <2>1, <3>1, <3>2, <3>3, <3>5 DEF Log!Next, Log!Lose
    <3> QED
      BY <3>4, <3>5
  <2>11. CASE Crash
    <3>1. batch' = <<>> /\ writeChan' = <<>> /\ UNCHANGED <<rows, offered>>
      BY <2>11 DEF Crash
    <3>2. line' = <<>>
      BY <3>1, EmptySeq, ConcatEmptySeq
    <3>3. CASE line = <<>>
      BY <2>2, <3>1, <3>2, <3>3
    <3>4. CASE line # <<>>
      <4>1. line \in Seq(Nat)
        BY <2>1, ConcatProperties
      <4>2. Len(line) \in 1..Len(line)
        BY <2>1, <3>4, <4>1, EmptySeq
      <4>3. SubSeq(line, Len(line) + 1, Len(line)) = <<>>
        BY <2>1, SubSeqEmpty
      <4>4. Log!Lose(Len(line))
        BY <3>1, <3>2, <4>3 DEF Log!Lose
      <4> QED
        BY <4>2, <4>4 DEF Log!Next
    <3> QED
      BY <3>3, <3>4
  <2> QED
    BY <2>3, <2>4, <2>5, <2>7, <2>8, <2>9, <2>10, <2>11 DEF Next, Write, WriterLoop
<1> QED
  BY <1>1, <1>2, Inductive, PTL DEF Spec, ImplementsLog, Log!Spec

=============================================================================
