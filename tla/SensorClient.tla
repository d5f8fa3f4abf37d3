---------------------------- MODULE SensorClient ----------------------------
(***************************************************************************)
(* cmd/sensor/main.go with internal/sensor/reader.go: the goroutine that   *)
(* reads the sensor, the channel of readings, the coordinator that sends   *)
(* each reading or buffers it, the buffer, and the shutdown.  The          *)
(* connection is its Link: what the coordinator sees of it.                *)
(*                                                                         *)
(* A reading is the number of the successful sensor read that made it.     *)
(***************************************************************************)
EXTENDS ReadingBuffer, SequencesExt, Histories

CONSTANTS
  ReadingsSize,  \* capacity of Reader.readings, 10 in the code
  BatchSize,     \* readings per message of a drain, 50 in the code
  MaxProduced    \* bound on the number of sensor reads

ASSUME SensorClientAssumption ==
  /\ ReadingsSize \in Nat \ {0}
  /\ BatchSize \in Nat \ {0}
  /\ MaxProduced \in Nat

VARIABLES
  cancelled,     \* ctx is done: SIGINT, SIGTERM or the return of main
  reader,        \* where Reader.Start is
  produced,      \* number of readings made so far
  holding,       \* the reading readAndPublish is sending on the channel
  published,     \* the channel Reader.readings
  coord,         \* where coordinateData is
  hand,          \* the reading the coordinator is handling
  inflight,      \* the batch between PopBatch and the result of SendBatch
  link,          \* see module Link
  sent,          \* history: readings whose write succeeded, in order
  lost           \* history: readings of batches whose write failed

readerVars == <<reader, produced, holding>>
coordVars  == <<coord, hand, inflight>>
outVars    == <<sent, lost>>
vars       == <<bufferVars, cancelled, readerVars, published, coordVars, link, outVars>>

Net == INSTANCE Link
Connected == Net!Connected

Init ==
  /\ BufferInit
  /\ cancelled = FALSE
  /\ reader = "select"
  /\ produced = 0
  /\ holding = <<>>
  /\ published = <<>>
  /\ coord = "select"
  /\ hand = <<>>
  /\ inflight = <<>>
  /\ Net!Init
  /\ sent = <<>>
  /\ lost = {}

-----------------------------------------------------------------------------
(* Mistakes the code could make, for the runs that check the properties. *)

(* The failed batch is put back behind the readings that came after it. *)
BugBatchRequeued ==
  /\ coord \in {"sendBatch", "writeBatch"}
  /\ readings' = readings \o inflight
  /\ inflight' = <<>>
  /\ coord' = "select"
  /\ UNCHANGED <<dropOldest, stats, overflowed, cancelled, readerVars, published, hand, link, sent, lost>>

(* A failed batch is retried at once instead of leaving the drain. *)
BugBatchRetried ==
  /\ coord \in {"sendBatch", "writeBatch"}
  /\ link' = IF coord = "writeBatch" /\ link = "up" THEN "broken" ELSE link
  /\ coord' = "sendBatch"
  /\ UNCHANGED <<bufferVars, cancelled, readerVars, published, hand, inflight, sent, lost>>

(* A reading whose Send failed is only logged. *)
BugSendFailsAndLogs ==
  /\ coord \in {"send", "write"}
  /\ hand' = <<>>
  /\ coord' = "select"
  /\ UNCHANGED <<bufferVars, cancelled, readerVars, published, inflight, link, outVars>>

(* The status ticker only logs. *)
BugStatusTick ==
  /\ coord = "select"
  /\ Connected
  /\ readings # <<>>
  /\ UNCHANGED vars

(* The channel is sent to before the coordinator's exit is noticed: the     *)
(* reader publishes only while the coordinator runs.                        *)
BugPublish ==
  /\ reader = "publish"
  /\ coord = "select"
  /\ Len(published) < ReadingsSize
  /\ published' = published \o holding
  /\ holding' = <<>>
  /\ reader' = "select"
  /\ UNCHANGED <<bufferVars, cancelled, produced, coordVars, link, outVars>>

-----------------------------------------------------------------------------
(* Reader.Start.  A sensor read that fails publishes nothing and changes    *)
(* nothing.                                                                 *)

ReadSensor ==
  /\ reader = "select"
  /\ produced < MaxProduced
  /\ produced' = produced + 1
  /\ holding' = <<produced'>>
  /\ reader' = "publish"
  /\ UNCHANGED <<bufferVars, cancelled, published, coordVars, link, outVars>>

(* r.readings <- reading: not in a select, so only room in the channel ends it. *)
Publish ==
  /\ reader = "publish"
  /\ Len(published) < ReadingsSize
  /\ published' = published \o holding
  /\ holding' = <<>>
  /\ reader' = "select"
  /\ UNCHANGED <<bufferVars, cancelled, produced, coordVars, link, outVars>>

ReaderStops ==
  /\ reader = "select"
  /\ cancelled
  /\ reader' = "done"
  /\ UNCHANGED <<bufferVars, cancelled, produced, holding, published, coordVars, link, outVars>>

-----------------------------------------------------------------------------
(* coordinateData *)

CoordStops ==
  /\ coord = "select"
  /\ cancelled
  /\ coord' = "done"
  /\ UNCHANGED <<bufferVars, cancelled, readerVars, published, hand, inflight, link, outVars>>

Receive ==
  /\ coord = "select"
  /\ published # <<>>
  /\ hand' = <<Head(published)>>
  /\ published' = Tail(published)
  /\ coord' = "received"
  /\ UNCHANGED <<bufferVars, cancelled, readerVars, inflight, link, outVars>>

(* Every five minutes; without a link or with an empty buffer it only logs. *)
StatusTick ==
  /\ coord = "select"
  /\ Connected
  /\ readings # <<>>
  /\ coord' = "drain"
  /\ UNCHANGED <<bufferVars, cancelled, readerVars, published, hand, inflight, link, outVars>>

-----------------------------------------------------------------------------
(* handleNewReading *)

BufferOffline ==
  /\ coord = "received"
  /\ ~Connected
  /\ Push(hand[1])
  /\ hand' = <<>>
  /\ coord' = "select"
  /\ UNCHANGED <<cancelled, readerVars, published, inflight, link, outVars>>

BufferBehindOthers ==
  /\ coord = "received"
  /\ Connected
  /\ readings # <<>>
  /\ Push(hand[1])
  /\ hand' = <<>>
  /\ coord' = "drain"
  /\ UNCHANGED <<cancelled, readerVars, published, inflight, link, outVars>>

SendAtOnce ==
  /\ coord = "received"
  /\ Connected
  /\ readings = <<>>
  /\ coord' = "send"
  /\ UNCHANGED <<bufferVars, cancelled, readerVars, published, hand, inflight, link, outVars>>

(* Send and SendBatch test IsConnected again, then write; the connection can *)
(* change in between, so a write may succeed after the link went down and    *)
(* came back, but never on a broken one.  A failed write breaks the link.    *)
(* Without a link, or when NewMessage cannot encode a reading (NaN has no    *)
(* JSON), they fail before the write and leave the link as it is.            *)
CheckBefore(at, write) ==
  /\ coord = at
  /\ Connected
  /\ coord' = write
  /\ UNCHANGED <<bufferVars, cancelled, readerVars, published, hand, inflight, link, outVars>>

WriteOK(write)    == coord = write /\ link # "broken" /\ UNCHANGED link
SendFails(at, write) ==
  \/ coord = at /\ UNCHANGED link
  \/ coord = write /\ link' = IF link = "up" THEN "broken" ELSE link

SendReturns ==
  /\ WriteOK("write")
  /\ sent' = sent \o hand
  /\ hand' = <<>>
  /\ coord' = "select"
  /\ UNCHANGED <<bufferVars, cancelled, readerVars, published, inflight, lost>>

SendFailsAndBuffers ==
  /\ SendFails("send", "write")
  /\ Push(hand[1])
  /\ hand' = <<>>
  /\ coord' = "select"
  /\ UNCHANGED <<cancelled, readerVars, published, inflight, outVars>>

-----------------------------------------------------------------------------
(* drainBuffer: no look at ctx, and 100 ms of sleep after every batch. *)

DrainBegins ==
  /\ coord = "drain"
  /\ coord' = IF Connected THEN "pop" ELSE "select"
  /\ UNCHANGED <<bufferVars, cancelled, readerVars, published, hand, inflight, link, outVars>>

DrainPops ==
  /\ coord = "pop"
  /\ readings # <<>>
  /\ inflight' = Batch(BatchSize)
  /\ PopBatch(BatchSize)
  /\ coord' = "sendBatch"
  /\ UNCHANGED <<cancelled, readerVars, published, hand, link, outVars>>

DrainEnds ==
  /\ coord = "pop"
  /\ readings = <<>>
  /\ coord' = "select"
  /\ UNCHANGED <<bufferVars, cancelled, readerVars, published, hand, inflight, link, outVars>>

BatchSent ==
  /\ WriteOK("writeBatch")
  /\ sent' = sent \o inflight
  /\ inflight' = <<>>
  /\ coord' = "pop"
  /\ UNCHANGED <<bufferVars, cancelled, readerVars, published, hand, lost>>

(* The batch is not put back. *)
BatchFails ==
  /\ SendFails("sendBatch", "writeBatch")
  /\ lost' = lost \cup ToSet(inflight)
  /\ inflight' = <<>>
  /\ coord' = "select"
  /\ UNCHANGED <<bufferVars, cancelled, readerVars, published, hand, sent>>

-----------------------------------------------------------------------------
(* The signal handler, and the connection manager's goroutine. *)

Cancel ==
  /\ ~cancelled
  /\ cancelled' = TRUE
  /\ UNCHANGED <<bufferVars, readerVars, published, coordVars, link, outVars>>

LinkChanges ==
  /\ Net!Next
  /\ UNCHANGED <<bufferVars, cancelled, readerVars, published, coordVars, outVars>>

Reader == ReadSensor \/ Publish \/ ReaderStops

Sender ==
  \/ CheckBefore("send", "write") \/ SendReturns \/ SendFailsAndBuffers
  \/ CheckBefore("sendBatch", "writeBatch") \/ BatchSent \/ BatchFails

Coordinator ==
  \/ CoordStops \/ Receive \/ StatusTick
  \/ BufferOffline \/ BufferBehindOthers \/ SendAtOnce
  \/ DrainBegins \/ DrainPops \/ DrainEnds
  \/ Sender

Next == Reader \/ Coordinator \/ Cancel \/ LinkChanges

Spec == Init /\ [][Next]_vars

(* Both goroutines are scheduled, and Go's select takes a case that is ready *)
(* again and again: the tickers and ctx.Done() are not starved.  Nothing is  *)
(* assumed about the sensor, the link, or how a write ends.                  *)
Fairness ==
  /\ WF_vars(Publish)
  /\ SF_vars(ReaderStops)
  /\ WF_vars(Coordinator)
  /\ SF_vars(CoordStops)
  /\ SF_vars(Receive)
  /\ SF_vars(StatusTick)

FairSpec == Spec /\ Fairness

-----------------------------------------------------------------------------
(* Properties *)

ClientTypeOK ==
  /\ BufferType(1..produced)
  /\ cancelled \in BOOLEAN
  /\ reader \in {"select", "publish", "done"}
  /\ produced \in Nat
  /\ holding \in Seq(1..produced)
  /\ published \in Seq(1..produced)
  /\ coord \in {"select", "received", "send", "write", "drain", "pop", "sendBatch",
               "writeBatch", "done"}
  /\ hand \in Seq(1..produced)
  /\ inflight \in Seq(1..produced)
  /\ link \in {"down", "up", "broken"}
  /\ sent \in Seq(1..produced)
  /\ lost \subseteq 1..produced

Pipeline == sent \o inflight \o readings \o hand \o published \o holding

(* Readings are sent in the order they were measured, each at most once,     *)
(* through any sequence of outages, failed writes, overflows and drains:     *)
(* behind what is sent comes the batch on its way, then the buffer, then the *)
(* reading being handled, then the channel.                                  *)
SentInOrder == Increasing(Pipeline)

(* The buffer's statistics against what became of the readings.  Taken is    *)
(* what was pushed and is neither buffered nor was dropped after the push;   *)
(* it is in the batch on its way, lost with one, or among the readings sent. *)
StatisticsAgree ==
  LET taken == stats.pushed - (IF dropOldest THEN stats.dropped ELSE 0) - Len(readings)
      gone  == Len(inflight) + Cardinality(lost)
  IN /\ stats.dropped = Cardinality(overflowed)
     /\ overflowed # {} => stats.highWater = Capacity
     /\ Len(readings) <= stats.highWater
     /\ gone <= taken
     /\ taken <= gone + Len(sent)

(* A reading that is nowhere in the pipeline overflowed the buffer or was in *)
(* a batch whose write failed; none disappears and none is in two places.    *)
(* The counters and the high-water mark that the client logs tell the same,  *)
(* through overflows, drains, failed batches and failed sends in any order.  *)
EveryReadingAccountedFor ==
  /\ ToSet(Pipeline) \cup lost \cup overflowed = 1..produced
  /\ ToSet(Pipeline) \cap (lost \cup overflowed) = {}
  /\ lost \cap overflowed = {}
  /\ StatisticsAgree

(* What is given up is older than everything that still waits: a reading in  *)
(* a batch that was lost, and with drop_oldest one that overflowed, through  *)
(* pops, failed batches and pushes that follow each other in any order.      *)
GivesUpTheOldest ==
  \A x \in lost \cup (IF dropOldest THEN overflowed ELSE {}) :
    \A y \in ToSet(inflight \o readings \o hand \o published \o holding) : x < y

(* Shutdown ends: after cancel the coordinator leaves, even in the middle of *)
(* a drain over a link that comes and goes, and so does the reader, unless   *)
(* it is blocked in its send because the coordinator left with the channel   *)
(* full.                                                                     *)
ShutdownEnds ==
  cancelled ~> (coord = "done" /\ (reader = "done" \/ Len(published) = ReadingsSize))

(* While the link stays up nothing waits in the channel or in the buffer     *)
(* forever, with no new reading to trigger the drain either.                 *)
NothingWaitsForever ==
  <>[](link = "up" /\ ~cancelled) =>
    <>[](ToSet(sent) \cup lost \cup overflowed = 1..produced)

(* reader.go:31-32: Start runs in a goroutine until context is cancelled.    *)
ReaderStopsToo == cancelled ~> (reader = "done")

=============================================================================
